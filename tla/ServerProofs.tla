---------------------------- MODULE ServerProofs ----------------------------
(***************************************************************************)
(* Proofs about Server, for any number of files, starts, saves under way   *)
(* and refreshes, any meter and any parameter:                             *)
(*   - the newest save that was completed is found again (NothingIsLost),  *)
(*   - no time is counted twice (CountedAtMostOnce),                       *)
(*   - the files and the process keep their types (ServerTypes).           *)
(***************************************************************************)
EXTENDS Server, WellFoundedInduction, TLAPS

-----------------------------------------------------------------------------
(***************************************************************************)
(* The inductive invariant.                                                *)
(***************************************************************************)
SoundFile(f) ==
  f.content = "complete" =>
    /\ f.at \in Nat /\ f.at <= now
    /\ f.energyDaily \in Nat /\ f.energyTotal \in Nat
    /\ f.energyTotal % 72000 = 0

\* The process, its clock and the numbers of its saves.
Process ==
  /\ phase \in {"down", "opening", "running"}
  /\ running \in BOOLEAN /\ monitoring = running
  /\ running => phase = "running"
  /\ stopping \in BOOLEAN /\ gpioUsed \in BOOLEAN /\ cut \in BOOLEAN
  /\ now \in Nat /\ starts \in Nat
  /\ latest \in Nat /\ latest <= now
  /\ count \in Nat /\ kept \in Nat /\ kept <= count
  /\ phase # "running" => saving = {} /\ count = 0 /\ kept = 0
  /\ lastTempCnt \in Indices

\* The energy, and the reading it was last added up from.
Energies ==
  /\ energyTotal \in Nat /\ energyDaily \in Nat
  /\ \/ lastRefresh = Never
     \/ /\ lastRefresh.at \in Nat /\ lastRefresh.at <= now
        /\ lastRefresh.activePower \in Nat /\ lastRefresh.activePower <= 25000
  /\ phase # "running" => lastRefresh = Never

\* The newest record that was completely written is newer than what the other files hold.
Files ==
  /\ files = [i \in Indices |-> files[i]]
  /\ \A i \in Indices : SoundFile(files[i])
  /\ saved.at \in Nat /\ saved.energyTotal \in Nat /\ saved.at <= latest
  /\ saved.content # "complete" => saved.energyTotal = 0 /\ saved.at = 0
  /\ \A i \in Readable : files[i] = saved \/ files[i].at < saved.at

\* The index that was used k saves ago.
Back(k) == IF k <= lastTempCnt THEN lastTempCnt - k ELSE lastTempCnt - k + Backups

\* A save under way writes the file that its number tells, which is torn once it is opened;
\* the later its number, the newer its record.
Pending(s) ==
  /\ s \in [index : Indices, number : Nat, record : {s.record}, opened : BOOLEAN]
  /\ 0 < s.number /\ s.number <= count
  /\ s.number # kept /\ count - s.number < Backups
  /\ s.index = Back(count - s.number)
  /\ s.opened => files[s.index] = Torn
  /\ s.record.content = "complete" /\ SoundFile(s.record) /\ s.record.at <= latest
  /\ IF s.number > kept THEN saved.at < s.record.at ELSE s.record.at < saved.at

Saves ==
  /\ \A s \in saving : Pending(s)
  /\ \A s, t \in saving : s.number < t.number => s.record.at < t.record.at
  /\ \A s, t \in saving : s.number = t.number => s = t

\* Where the newest completed record is: in any file as long as a run has not begun to
\* save, and after a run has completed one as many files back as it has begun since.
Kept ==
  /\ count = 0 /\ ~cut /\ saved.content = "complete" => \E i \in Indices : files[i] = saved
  /\ kept > 0 => saved.content = "complete"
  /\ kept > 0 /\ count - kept < Backups => files[Back(count - kept)] = saved

\* The total keeps up with what was saved and with what is being saved.
KeepsUp ==
  /\ phase = "running" /\ ~cut => saved.energyTotal <= energyTotal + 36000
  /\ kept > 0 => saved.energyTotal <= energyTotal + 36000
  /\ \A s \in saving : s.record.energyTotal <= energyTotal + 36000

\* No more than full power up to the last reading, or up to the time of a file; each
\* start may have added the rounding of one save.
Roundings == starts + (IF phase = "opening" THEN 0 ELSE 1)

Counted ==
  /\ lastRefresh = Never => energyTotal <= 50000 * now + 36000 * starts
  /\ lastRefresh # Never => energyTotal <= 50000 * lastRefresh.at + 36000 * starts
  /\ \A i \in Readable : files[i].energyTotal <= 50000 * files[i].at + 36000 * Roundings
  /\ \A s \in saving : s.record.energyTotal <= 50000 * s.record.at + 36000 * Roundings

IInv == Process /\ Energies /\ Files /\ Saves /\ Kept /\ KeepsUp /\ Counted

-----------------------------------------------------------------------------
(***************************************************************************)
(* Arithmetic.                                                             *)
(***************************************************************************)
\* A set of natural numbers that is not empty has a least one.
LEMMA Least ==
  ASSUME NEW T, T \subseteq Nat, T # {}
  PROVE  \E x \in T : \A y \in T : x <= y
<1>1. PICK x \in T : \A y \in T : ~(<<y, x>> \in OpToRel(<, Nat))
  BY WFMin, NatLessThanWellFounded
<1>2. \A y \in T : ~(y < x)
  BY <1>1 DEF OpToRel
<1> QED
  BY <1>2

\* The index wraps around at the number of files.
LEMMA NextIndexWraps ==
  ASSUME lastTempCnt \in Indices
  PROVE  /\ NextIndex = IF lastTempCnt + 1 = Backups THEN 0 ELSE lastTempCnt + 1
         /\ NextIndex \in Indices
<1>1. Backups \in Nat \ {0} /\ lastTempCnt \in Nat /\ lastTempCnt < Backups
  BY BackupsAssumption DEF Indices
<1>2. \A b \in Nat \ {0}, x \in Nat : x < b => x % b = x
  OBVIOUS
<1>3. \A b \in Nat \ {0} : b % b = 0
  OBVIOUS
<1>4. NextIndex = IF lastTempCnt + 1 = Backups THEN 0 ELSE lastTempCnt + 1
  <2>1. CASE lastTempCnt + 1 = Backups
    BY <1>1, <1>3, <2>1 DEF NextIndex
  <2>2. CASE lastTempCnt + 1 # Backups
    <3>1. lastTempCnt + 1 \in Nat /\ lastTempCnt + 1 < Backups
      BY <1>1, <2>2
    <3> QED BY <1>1, <1>2, <2>2, <3>1 DEF NextIndex
  <2> QED BY <2>1, <2>2
<1> QED
  BY <1>1, <1>4 DEF Indices

\* Fewer saves back than there are files, each save has an index of its own.
LEMMA Rotation ==
  ASSUME lastTempCnt \in Indices
  PROVE  /\ \A k \in Nat : k < Backups => Back(k) \in Indices
         /\ \A k, l \in Nat : k < Backups /\ l < Backups /\ Back(k) = Back(l) => k = l
         /\ Back(Backups - 1) = NextIndex
         /\ Back(0) = lastTempCnt
<1>1. Backups \in Nat \ {0} /\ lastTempCnt \in Nat /\ lastTempCnt < Backups
  BY BackupsAssumption DEF Indices
<1>2. NextIndex = IF lastTempCnt + 1 = Backups THEN 0 ELSE lastTempCnt + 1
  BY NextIndexWraps
<1> QED
  BY <1>1, <1>2 DEF Back, Indices

\* The next save moves every index one further back.
LEMMA NextRotation ==
  ASSUME lastTempCnt \in Indices, lastTempCnt' = NextIndex
  PROVE  \A k \in Nat : k + 1 < Backups => Back(k + 1)' = Back(k)
<1>1. Backups \in Nat \ {0} /\ lastTempCnt \in Nat /\ lastTempCnt < Backups
  BY BackupsAssumption DEF Indices
<1>2. lastTempCnt' = IF lastTempCnt + 1 = Backups THEN 0 ELSE lastTempCnt + 1
  BY NextIndexWraps
<1> QED
  BY <1>1, <1>2 DEF Back

\* Rounding to Wh and to 0.01 Wh: half a Wh more at most.
LEMMA Rounding ==
  ASSUME NEW e \in Nat
  PROVE  /\ 72000 * Div(e, 72000) \in Nat
         /\ (72000 * Div(e, 72000)) % 72000 = 0
         /\ 72000 * Div(e, 72000) <= e + 36000
         /\ 720 * Div(e, 720) \in Nat
BY DEF Div

\* A measured power is at most 2500 W, one that is not plausible counts as none.
LEMMA PlausiblePower ==
  ASSUME NEW timer \in Nat
  PROVE  Plausible(ActivePower(timer)) \in Nat /\ Plausible(ActivePower(timer)) <= 25000
<1> DEFINE power == ActivePower(timer)
<1>1. power = Infinity \/ power \in Int
  BY DEF ActivePower, Div
<1> HIDE DEF power
<1>2. Plausible(power) \in Nat /\ Plausible(power) <= 25000
  BY <1>1 DEF Plausible
<1> QED
  BY <1>2 DEF power

\* A reading adds no more than full power for the time since the last one.
LEMMA EnergyBounds ==
  ASSUME Energies, lastRefresh # Never, now \in Nat, NEW power \in Nat, power <= 25000
  PROVE  /\ Energy(power) \in Nat
         /\ Energy(power) <= 50000 * (now - lastRefresh.at)
<1> DEFINE dt == now - lastRefresh.at
           sum == power + lastRefresh.activePower
           rest == 50000 - sum
<1>1. lastRefresh.at \in Nat /\ lastRefresh.at <= now
      /\ lastRefresh.activePower \in Nat /\ lastRefresh.activePower <= 25000
  BY DEF Energies
<1>2. dt \in Nat /\ sum \in Nat /\ rest \in Nat /\ sum = 50000 - rest
  BY <1>1
<1>3. Energy(power) = IF dt > MaxGap THEN 0 ELSE sum * dt
  BY DEF Energy
<1> HIDE DEF dt, sum, rest
<1>4. sum * dt \in Nat /\ rest * dt \in Nat
  BY <1>2
<1>5. sum * dt = 50000 * dt - rest * dt
  BY <1>2
<1>6. Energy(power) \in Nat /\ Energy(power) <= 50000 * dt
  BY <1>2, <1>3, <1>4, <1>5
<1> QED
  BY <1>6 DEF dt

\* Among the files that can be read there is a newest one.
LEMMA NewestFile ==
  ASSUME now \in Nat, \A i \in Indices : SoundFile(files[i]), Readable # {}
  PROVE  Newest \in Readable /\ \A j \in Readable : files[j].at <= files[Newest].at
<1> DEFINE Ages == {now - files[i].at : i \in Readable}
<1>1. \A i \in Readable : files[i].at \in Nat /\ files[i].at <= now
  BY DEF Readable, SoundFile
<1>2. Ages \subseteq Nat /\ Ages # {}
  BY <1>1
<1>3. PICK age \in Ages : \A a \in Ages : age <= a
  <2> HIDE DEF Ages
  <2> QED BY <1>2, Least
<1>4. PICK i \in Readable : age = now - files[i].at
  BY <1>3
<1>5. ASSUME NEW j \in Readable PROVE files[j].at <= files[i].at
  <2>1. now - files[i].at <= now - files[j].at
    BY <1>3, <1>4
  <2> QED BY <1>1, <2>1
<1> QED
  BY <1>5 DEF Newest

-----------------------------------------------------------------------------
(***************************************************************************)
(* Each step keeps the invariant.                                          *)
(***************************************************************************)
\* The start, before any process.
LEMMA InitKeeps == ServerInit => IInv
<1> SUFFICES ASSUME ServerInit PROVE IInv
  OBVIOUS
<1> USE DEF ServerInit, Fresh
<1>1. 0 \in Indices
  BY BackupsAssumption DEF Indices
<1>2. Readable = {}
  BY DEF Readable, AbsentFile
<1>3. Process
  BY <1>1, LivesAssumption DEF Process
<1>4. Energies
  BY DEF Energies
<1>5. Files /\ Saves
  BY <1>2 DEF Files, Saves, SoundFile, AbsentFile, Empty
<1>6. Kept /\ KeepsUp /\ Counted
  BY <1>2 DEF Kept, KeepsUp, Counted, Empty
<1> QED
  BY <1>3, <1>4, <1>5, <1>6 DEF IInv

\* A step of the Controller that reads no meter.
LEMMA QuietKeeps ==
  ASSUME IInv, UNCHANGED <<energyVars, running, now, serverVars>>
  PROVE  IInv'
<1> USE DEF energyVars, serverVars, processVars, fileVars, historyVars
<1>1. Process'
  BY DEF IInv, Process
<1>2. Energies'
  BY DEF IInv, Energies
<1>3. Files' /\ Saves'
  BY DEF IInv, Files, Saves, Pending, Back, SoundFile, Readable
<1>4. Kept'
  BY DEF IInv, Kept, Back
<1>5. KeepsUp'
  BY DEF IInv, KeepsUp
<1>6. Counted'
  BY DEF IInv, Counted, Roundings, Readable
<1> QED
  BY <1>1, <1>2, <1>3, <1>4, <1>5, <1>6 DEF IInv

\* A reading of the meter: the total grows by no more than the time allows.
LEMMA ReadKeeps ==
  ASSUME IInv, NEW timer \in Timers, ReadAnswered(timer), phase = "running",
         UNCHANGED serverVars
  PROVE  IInv'
<1> USE DEF serverVars, processVars, fileVars, historyVars
<1> DEFINE power == Plausible(ActivePower(timer))
           sum == Energy(power)
<1>1. power \in Nat /\ power <= 25000
  BY PlausiblePower, BoundsAssumption
<1>2. now \in Nat /\ starts \in Nat
  BY DEF IInv, Process
<1>3. /\ lastRefresh' = [at |-> now, activePower |-> power] /\ now' = now /\ running' = running
      /\ lastRefresh = Never => energyTotal' = energyTotal /\ energyDaily' = energyDaily
      /\ lastRefresh # Never =>
           /\ energyTotal' = energyTotal + sum
           /\ energyDaily' = sum + (IF Day(lastRefresh.at) # Day(now) THEN 0 ELSE energyDaily)
  BY DEF ReadAnswered
<1>4. lastRefresh # Never =>
        /\ sum \in Nat /\ sum <= 50000 * (now - lastRefresh.at)
        /\ lastRefresh.at \in Nat
  BY <1>1, <1>2, EnergyBounds DEF IInv, Energies
<1>5. energyTotal \in Nat /\ energyDaily \in Nat
  BY DEF IInv, Energies
<1> HIDE DEF power, sum
<1>6. energyTotal' \in Nat /\ energyTotal <= energyTotal' /\ energyDaily' \in Nat
  BY <1>3, <1>4, <1>5
<1>7. energyTotal' <= 50000 * now + 36000 * starts
  <2>1. CASE lastRefresh = Never
    BY <1>3, <2>1 DEF IInv, Counted
  <2>2. CASE lastRefresh # Never
    <3>1. energyTotal <= 50000 * lastRefresh.at + 36000 * starts
      BY <2>2 DEF IInv, Counted
    <3> QED BY <1>2, <1>3, <1>4, <1>5, <2>2, <3>1
  <2> QED BY <2>1, <2>2
<1>8. lastRefresh'.at = now /\ lastRefresh'.activePower = power
  BY <1>3
<1>9. Process'
  BY <1>3 DEF IInv, Process
<1>10. Energies'
  BY <1>1, <1>2, <1>3, <1>6, <1>8 DEF Energies
<1>11. Files' /\ Saves'
  BY <1>3 DEF IInv, Files, Saves, Pending, Back, SoundFile, Readable
<1>12. Kept'
  BY DEF IInv, Kept, Back
<1>13. KeepsUp'
  <2>1. \A a, b, n \in Nat : a <= b /\ n <= a + 36000 => n <= b + 36000
    OBVIOUS
  <2>2. saved.energyTotal \in Nat /\ \A s \in saving : s.record.energyTotal \in Nat
    BY DEF IInv, Files, Saves, Pending, SoundFile
  <2> QED BY <1>5, <1>6, <2>1, <2>2 DEF IInv, KeepsUp
<1>14. Counted'
  BY <1>3, <1>7, <1>8 DEF IInv, Counted, Roundings, Readable
<1> QED
  BY <1>9, <1>10, <1>11, <1>12, <1>13, <1>14 DEF IInv

\* A second passes.
LEMMA TickKeeps ==
  ASSUME IInv, Tick, UNCHANGED serverVars
  PROVE  IInv'
<1> USE DEF Tick, energyVars, serverVars, processVars, fileVars, historyVars
<1>1. now \in Nat /\ now' = now + 1 /\ now' \in Nat /\ starts \in Nat /\ energyTotal \in Nat
  BY DEF IInv, Process, Energies
<1>2. Process'
  BY <1>1 DEF IInv, Process
<1>3. Energies'
  BY <1>1 DEF IInv, Energies
<1>4. Files' /\ Saves'
  <2>1. \A f : SoundFile(f) => SoundFile(f)'
    BY <1>1 DEF SoundFile
  <2>2. Files'
    BY <1>1, <2>1 DEF IInv, Files, Readable
  <2>3. \A s \in saving : Pending(s)'
    BY <2>1 DEF IInv, Saves, Pending, Back
  <2> QED BY <2>2, <2>3 DEF IInv, Saves
<1>5. Kept' /\ KeepsUp'
  BY DEF IInv, Kept, Back, KeepsUp
<1>6. energyTotal <= 50000 * now + 36000 * starts => energyTotal <= 50000 * now' + 36000 * starts
  BY <1>1
<1>7. Counted'
  BY <1>6 DEF IInv, Counted, Roundings, Readable
<1> QED
  BY <1>2, <1>3, <1>4, <1>5, <1>7 DEF IInv

\* A start may restore one more rounding.
LEMMA BootKeeps ==
  ASSUME IInv, Boot
  PROVE  IInv'
<1> USE DEF Boot, vars, energyVars, fileVars, historyVars
<1>1. starts \in Nat /\ starts' = starts + 1 /\ now \in Nat /\ energyTotal \in Nat
  BY DEF IInv, Process, Energies
<1>2. phase = "down" /\ phase' = "opening" /\ saving = {} /\ kept = 0 /\ ~running
  BY DEF IInv, Process
<1>3. Process'
  BY <1>1, <1>2 DEF IInv, Process
<1>4. Energies'
  BY <1>2 DEF IInv, Energies
<1>5. Files' /\ Saves'
  BY <1>2 DEF IInv, Files, Saves, SoundFile, Readable
<1>6. Kept' /\ KeepsUp'
  BY <1>2 DEF IInv, Kept, Back, KeepsUp
<1>7. Counted'
  <2>1. Roundings' = Roundings
    BY <1>1, <1>2 DEF Roundings
  <2>2. energyTotal' <= 50000 * now' + 36000 * starts'
    BY <1>1, <1>2 DEF IInv, Energies, Counted
  <2>3. lastRefresh' = Never /\ saving' = {}
    BY <1>2 DEF IInv, Energies
  <2> QED BY <2>1, <2>2, <2>3 DEF IInv, Counted, Readable
<1> QED
  BY <1>3, <1>4, <1>5, <1>6, <1>7 DEF IInv

\* The startup restores the newest file, which is the newest save unless `cut` says otherwise.
LEMMA StartupKeeps ==
  ASSUME IInv, StartupFinishes
  PROVE  IInv'
<1> USE DEF fileVars, historyVars
<1>1. /\ phase = "opening" /\ phase' = "running" /\ running' /\ monitoring'
      /\ running' \in BOOLEAN /\ monitoring' \in BOOLEAN
      /\ UNCHANGED <<now, stopping, gpioUsed, starts, files, lastTempCnt, saving,
                     latest, saved, count, kept, cut>>
  BY DEF StartupFinishes
<1>2. saving = {} /\ count = 0 /\ kept = 0 /\ lastRefresh = Never
  BY <1>1 DEF IInv, Process, Energies
<1>3. now \in Nat /\ starts \in Nat
  BY DEF IInv, Process
<1>4. Readable' = Readable
  BY <1>1 DEF Readable
<1>5. Process'
  BY <1>1, <1>2 DEF IInv, Process
<1>6. Files' /\ Saves'
  BY <1>1, <1>2, <1>4 DEF IInv, Files, Saves, SoundFile
<1>7. Kept'
  BY <1>1 DEF IInv, Kept, Back
<1>8. /\ Energies' /\ Counted'
      /\ ~cut => saved.energyTotal <= energyTotal' + 36000
  <2>1. saved.energyTotal \in Nat
    BY DEF IInv, Files
  <2>2. CASE Readable = {}
    <3>1. UNCHANGED <<energyTotal, energyDaily, lastRefresh>>
      BY <2>2 DEF StartupFinishes, energyVars
    <3>2. Energies'
      BY <1>1, <3>1 DEF IInv, Energies
    <3>3. Counted'
      BY <1>1, <1>2, <1>4, <2>2, <3>1 DEF IInv, Counted
    <3>4. ~cut => saved.energyTotal = 0
      BY <1>2, <2>2 DEF IInv, Files, Kept, Readable
    <3>5. energyTotal' \in Nat
      BY <3>2 DEF Energies
    <3> QED BY <3>2, <3>3, <3>4, <3>5
  <2>3. CASE Readable # {}
    <3> DEFINE file == files[Newest]
    <3>1. Newest \in Readable /\ \A j \in Readable : files[j].at <= file.at
      BY <1>3, <2>3, NewestFile DEF IInv, Files
    <3>2. /\ file.at \in Nat /\ file.at <= now
          /\ file.energyDaily \in Nat /\ file.energyTotal \in Nat
      BY <3>1 DEF IInv, Files, SoundFile, Readable
    <3>3. RestoreEnergy(file)
      BY <2>3 DEF StartupFinishes
    <3>4. energyTotal' = file.energyTotal
      BY <3>3 DEF RestoreEnergy
    <3>5. \/ energyDaily' = file.energyDaily /\ lastRefresh' = [at |-> file.at, activePower |-> 0]
          \/ energyDaily' = energyDaily /\ lastRefresh' = Never
      BY <1>2, <3>3 DEF RestoreEnergy, energyVars
    <3>6. file.energyTotal <= 50000 * file.at + 36000 * starts
      BY <1>1, <1>3, <3>1 DEF IInv, Counted, Roundings
    <3>7. \A i \in Readable :
            files[i].energyTotal \in Nat /\ files[i].at \in Nat
            /\ files[i].energyTotal <= 50000 * files[i].at + 36000 * starts
      BY <1>1, <1>3 DEF IInv, Counted, Roundings, Files, SoundFile, Readable
    <3>8. ~cut /\ saved.content = "complete" => file = saved
      <4> SUFFICES ASSUME ~cut, saved.content = "complete" PROVE file = saved
        OBVIOUS
      <4>1. PICK i \in Indices : files[i] = saved
        BY <1>2 DEF IInv, Kept
      <4>2. i \in Readable /\ saved.at <= file.at /\ saved.at \in Nat
        BY <3>1, <4>1 DEF Readable, IInv, Files
      <4>3. file = saved \/ file.at < saved.at
        BY <3>1 DEF IInv, Files
      <4> QED BY <3>2, <4>2, <4>3
    <3>9. saved.content # "complete" => saved.energyTotal = 0
      BY DEF IInv, Files
    <3> HIDE DEF file
    <3>10. ~cut => saved.energyTotal <= energyTotal' + 36000
      BY <2>1, <3>2, <3>4, <3>8, <3>9
    <3>11. energyTotal' \in Nat /\ energyDaily' \in Nat
      BY <3>2, <3>4, <3>5 DEF IInv, Energies
    <3>12. Energies'
      BY <1>1, <1>3, <3>2, <3>5, <3>11 DEF Energies
    <3>13. Counted'
      <4>1. energyTotal' <= 50000 * file.at + 36000 * starts /\ energyTotal' <= 50000 * now + 36000 * starts
        BY <1>3, <3>2, <3>4, <3>6
      <4>2. lastRefresh' = Never \/ lastRefresh'.at = file.at
        BY <3>5
      <4>3. Roundings' = starts + 1
        BY <1>1 DEF Roundings
      <4>4. \A i \in Readable : files[i].energyTotal <= 50000 * files[i].at + 36000 * (starts + 1)
        BY <1>3, <3>7
      <4> QED BY <1>1, <1>2, <1>4, <4>1, <4>2, <4>3, <4>4 DEF Counted
    <3> QED BY <3>10, <3>12, <3>13
  <2> QED BY <2>2, <2>3
<1>9. KeepsUp'
  BY <1>1, <1>2, <1>8 DEF KeepsUp
<1> QED
  BY <1>5, <1>6, <1>7, <1>8, <1>9 DEF IInv

\* The saves under way write different files, and none of them the newest save.
LEMMA OwnIndex ==
  ASSUME IInv
  PROVE  /\ \A s \in saving : s.index \in Indices
         /\ \A s, t \in saving : s # t => s.index # t.index
         /\ \A s \in saving : kept > 0 /\ count - kept < Backups => s.index # Back(count - kept)
<1>1. lastTempCnt \in Indices /\ count \in Nat /\ kept \in Nat /\ kept <= count /\ Backups \in Nat
  BY BackupsAssumption DEF IInv, Process
<1>2. \A s \in saving :
        /\ s.number \in Nat /\ s.number <= count /\ s.number # kept
        /\ count - s.number < Backups /\ s.index = Back(count - s.number)
  BY DEF IInv, Saves, Pending
<1>3. \A s \in saving : count - s.number \in Nat /\ s.index \in Indices
  BY <1>1, <1>2, Rotation
<1>4. ASSUME NEW s \in saving, NEW t \in saving, s # t
      PROVE  s.index # t.index
  <2>1. s.number # t.number
    BY <1>4 DEF IInv, Saves
  <2>2. count - s.number # count - t.number
    BY <1>1, <1>2, <2>1
  <2> QED BY <1>1, <1>2, <1>3, <2>2, Rotation
<1>5. ASSUME NEW s \in saving, kept > 0, count - kept < Backups
      PROVE  s.index # Back(count - kept)
  <2>1. count - kept \in Nat /\ count - s.number # count - kept
    BY <1>1, <1>2
  <2> QED BY <1>1, <1>2, <1>3, <1>5, <2>1, Rotation
<1> QED
  BY <1>3, <1>4, <1>5

\* A save takes the index of the oldest file; every other is one more back.
LEMMA SaveKeeps ==
  ASSUME IInv, SaveTemp
  PROVE  IInv'
<1> USE DEF processVars
<1> PICK next : next = NextIndex
  OBVIOUS
<1> PICK record : record = TempFileRecord
  OBVIOUS
<1> PICK save :
      save = [index |-> next, number |-> count + 1, record |-> record, opened |-> FALSE]
  OBVIOUS
<1>1. /\ monitoring /\ latest < now /\ \A s \in saving : s.index # next
      /\ lastTempCnt' = next /\ saving' = saving \cup {save}
      /\ count' = count + 1 /\ latest' = now
  BY DEF SaveTemp
<1>2. UNCHANGED <<phase, running, monitoring, stopping, gpioUsed, starts, now, energyTotal,
                  energyDaily, lastRefresh, files, saved, kept, cut>>
  BY DEF SaveTemp, vars, energyVars
<1>3. /\ phase = "running" /\ running /\ now \in Nat /\ starts \in Nat /\ latest \in Nat
      /\ count \in Nat /\ kept \in Nat /\ kept <= count
      /\ lastTempCnt \in Indices /\ Backups \in Nat /\ Backups > 0
  BY <1>1, BackupsAssumption DEF IInv, Process
<1>4. /\ next \in Indices /\ next = Back(Backups - 1)
      /\ \A k \in Nat : k + 1 < Backups => Back(k + 1)' = Back(k)
      /\ Back(0)' = next
  <2>1. next \in Indices /\ next = Back(Backups - 1)
    BY <1>3, NextIndexWraps, Rotation
  <2>2. lastTempCnt' \in Nat
    BY <1>1, <1>3, <2>1 DEF Indices
  <2>3. Back(0)' = next
    BY <1>1, <2>2 DEF Back
  <2> QED BY <1>1, <1>3, <2>1, <2>3, NextRotation
<1>5. energyTotal \in Nat /\ energyDaily \in Nat
  BY DEF IInv, Energies
<1>6. /\ record.content = "complete" /\ record.at = now
      /\ record.energyDaily \in Nat /\ record.energyTotal \in Nat
      /\ record.energyTotal % 72000 = 0 /\ record.energyTotal <= energyTotal + 36000
  BY <1>5, Rounding DEF TempFileRecord
<1>7. Readable' = Readable
  BY <1>2 DEF Readable
<1>8. /\ save.index = next /\ save.number = count + 1 /\ save.record = record /\ ~save.opened
      /\ save \in [index : Indices, number : Nat, record : {save.record}, opened : BOOLEAN]
  BY <1>3, <1>4
<1>9. Process'
  BY <1>1, <1>2, <1>3, <1>4 DEF IInv, Process
<1>10. Energies'
  BY <1>2 DEF IInv, Energies
<1>11. Files'
  BY <1>1, <1>2, <1>3, <1>7 DEF IInv, Files, SoundFile
<1>12. Saves'
  <2>1. saved.at \in Nat /\ saved.at < now
    BY <1>1, <1>3 DEF IInv, Files
  <2>2. Pending(save)'
    <3>1. SoundFile(record)'
      BY <1>2, <1>3, <1>6 DEF SoundFile
    <3>2. count' - save.number = 0
      BY <1>1, <1>3, <1>8
    <3> QED BY <1>1, <1>2, <1>3, <1>4, <1>6, <1>8, <2>1, <3>1, <3>2 DEF Pending
  <2>3. \A s \in saving : s.number <= count /\ s.record.at \in Nat /\ s.record.at < now
    BY <1>1, <1>3 DEF IInv, Saves, Pending, SoundFile
  <2>4. ASSUME NEW s \in saving PROVE Pending(s)'
    <3> PICK k : k = count - s.number
      OBVIOUS
    <3>1. /\ s.number \in Nat /\ 0 < s.number /\ s.number <= count /\ s.number # kept
          /\ k < Backups /\ s.index = Back(k)
      BY DEF IInv, Saves, Pending
    <3>2. k \in Nat /\ count' - s.number = k + 1
      BY <1>1, <1>3, <3>1
    <3>3. k # Backups - 1
      BY <1>1, <1>4, <3>1
    <3>4. s.index = Back(k + 1)' /\ k + 1 < Backups
      BY <1>3, <1>4, <3>1, <3>2, <3>3
    <3>5. s.index = Back(count - s.number)' /\ count' - s.number < Backups
      BY <3>2, <3>4
    <3>6. Pending(s)
      BY DEF IInv, Saves
    <3> QED BY <1>1, <1>2, <1>3, <2>3, <3>1, <3>5, <3>6 DEF Pending, SoundFile
  <2>5. ASSUME NEW s \in saving', NEW t \in saving'
        PROVE  /\ s.number < t.number => s.record.at < t.record.at
               /\ s.number = t.number => s = t
    <3>1. CASE s \in saving /\ t \in saving
      BY <3>1 DEF IInv, Saves
    <3>2. CASE s = save \/ t = save
      <4>1. \A r \in saving : r.number \in Nat /\ r.number < count + 1 /\ r.record.at < now
        BY <1>3, <2>3 DEF IInv, Saves, Pending
      <4>2. save.number = count + 1 /\ save.record.at = now
        BY <1>6, <1>8
      <4>3. CASE s = save /\ t = save
        BY <1>3, <4>2, <4>3
      <4>4. CASE s = save /\ t \in saving
        BY <1>3, <4>1, <4>2, <4>4
      <4>5. CASE s \in saving /\ t = save
        BY <1>3, <4>1, <4>2, <4>5
      <4> QED BY <1>1, <3>2, <4>3, <4>4, <4>5
    <3> QED BY <1>1, <3>1, <3>2
  <2> QED BY <1>1, <2>2, <2>4, <2>5 DEF Saves
<1>13. Kept'
  <2>1. ASSUME kept > 0, count' - kept < Backups
        PROVE  files[Back(count - kept)'] = saved
    <3> PICK k : k = count - kept
      OBVIOUS
    <3>1. k \in Nat /\ count' - kept = k + 1 /\ k < Backups
      BY <1>1, <1>3, <2>1
    <3>2. files[Back(k)] = saved
      BY <2>1, <3>1 DEF IInv, Kept
    <3>3. Back(k + 1)' = Back(k)
      BY <1>4, <2>1, <3>1
    <3>4. (count - kept)' = k + 1
      BY <1>1, <1>2, <3>1
    <3>5. Back(count - kept)' = Back(k)
      BY <3>3, <3>4
    <3> QED BY <3>2, <3>5
  <2>2. count' # 0
    BY <1>1, <1>3
  <2> QED BY <1>2, <2>1, <2>2 DEF IInv, Kept
<1>14. KeepsUp'
  BY <1>1, <1>2, <1>6, <1>8 DEF IInv, KeepsUp
<1>15. Counted'
  <2>1. energyTotal <= 50000 * now + 36000 * starts
    BY <1>3, <1>5 DEF IInv, Energies, Counted
  <2>2. record.energyTotal <= 50000 * now + 36000 * (starts + 1)
    BY <1>3, <1>5, <1>6, <2>1
  <2>3. Roundings' = starts + 1 /\ Roundings = starts + 1
    BY <1>2, <1>3 DEF Roundings
  <2> QED BY <1>1, <1>2, <1>6, <1>7, <1>8, <2>2, <2>3 DEF IInv, Counted
<1> QED
  BY <1>9, <1>10, <1>11, <1>12, <1>13, <1>14, <1>15 DEF IInv

\* What a save under way changes in its file, and what it leaves.
LEMMA OneFile ==
  ASSUME IInv, NEW s \in saving, NEW content, files' = [files EXCEPT ![s.index] = content]
  PROVE  /\ files' = [i \in Indices |-> files'[i]]
         /\ s.index \in Indices /\ files'[s.index] = content
         /\ \A i \in Indices : i # s.index => files'[i] = files[i]
         /\ \A t \in saving : t # s => files'[t.index] = files[t.index]
<1>1. /\ s.index \in Indices
      /\ \A t \in saving : t.index \in Indices /\ (t # s => t.index # s.index)
  BY OwnIndex
<1>2. files = [i \in Indices |-> files[i]]
  BY DEF IInv, Files
<1> QED
  BY <1>1, <1>2

\* A save opens its file, which is not that of the newest save.
LEMMA OpeningKeeps ==
  ASSUME IInv, NEW s \in saving, SaveOpens(s)
  PROVE  IInv'
<1> USE DEF processVars, historyVars
<1>0. PICK opened : opened = [s EXCEPT !.opened = TRUE]
  OBVIOUS
<1>1. saving' = (saving \ {s}) \cup {opened} /\ files' = [files EXCEPT ![s.index] = Torn]
  BY <1>0 DEF SaveOpens
<1>2. UNCHANGED <<phase, running, monitoring, stopping, gpioUsed, starts, now, energyTotal,
                  energyDaily, lastRefresh, lastTempCnt, latest, saved, count, kept, cut>>
  BY DEF SaveOpens, vars, energyVars
<1>3. phase = "running" /\ count \in Nat /\ kept \in Nat /\ kept <= count /\ Backups \in Nat
  BY BackupsAssumption DEF IInv, Process
<1>4. /\ files' = [i \in Indices |-> files'[i]]
      /\ s.index \in Indices /\ files'[s.index] = Torn
      /\ \A i \in Indices : i # s.index => files'[i] = files[i]
      /\ \A t \in saving : t # s => files'[t.index] = files[t.index]
  BY <1>1, OneFile
<1>5. Readable' = Readable \ {s.index}
  BY <1>4 DEF Readable, Torn
<1>6. Pending(s)
  BY DEF IInv, Saves
<1>7. s \in [index : Indices, number : Nat, record : {s.record}, opened : BOOLEAN]
  BY <1>6 DEF Pending
<1>8. /\ opened.index = s.index /\ opened.number = s.number /\ opened.record = s.record
      /\ opened \in [index : Indices, number : Nat, record : {opened.record}, opened : BOOLEAN]
  BY <1>0, <1>7
<1>9. Process'
  BY <1>2, <1>3 DEF IInv, Process
<1>10. Energies'
  BY <1>2 DEF IInv, Energies
<1>11. Files'
  <2>1. ASSUME NEW i \in Indices PROVE SoundFile(files[i])'
    <3>1. CASE i = s.index
      BY <1>4, <3>1 DEF SoundFile, Torn
    <3>2. CASE i # s.index
      BY <1>2, <1>4, <3>2 DEF IInv, Files, SoundFile
    <3> QED BY <3>1, <3>2
  <2>2. \A i \in Readable' : files'[i] = saved' \/ files'[i].at < saved'.at
    BY <1>2, <1>4, <1>5 DEF IInv, Files, Readable
  <2> QED BY <1>2, <1>4, <2>1, <2>2 DEF IInv, Files
<1>12. Saves'
  <2>1. Pending(opened)'
    <3>1. opened.opened => files'[opened.index] = Torn
      BY <1>4, <1>8
    <3>2. /\ 0 < opened.number /\ opened.number <= count
          /\ opened.number # kept /\ count - opened.number < Backups
          /\ opened.index = Back(count - opened.number)
          /\ opened.record.content = "complete" /\ SoundFile(opened.record)
          /\ opened.record.at <= latest
          /\ IF opened.number > kept THEN saved.at < opened.record.at ELSE opened.record.at < saved.at
      BY <1>6, <1>8 DEF Pending
    <3> QED BY <1>2, <1>8, <3>1, <3>2 DEF Pending, Back, SoundFile, Indices
  <2>2. ASSUME NEW t \in saving, t # s PROVE Pending(t)'
    BY <1>2, <1>4, <2>2 DEF IInv, Saves, Pending, Back, SoundFile
  <2>3. ASSUME NEW t \in saving', NEW u \in saving'
        PROVE  /\ t.number < u.number => t.record.at < u.record.at
               /\ t.number = u.number => t = u
    <3>1. \A v \in saving : (v.number = s.number) => v = s
      BY DEF IInv, Saves
    <3> QED BY <1>1, <1>8, <3>1 DEF IInv, Saves
  <2> QED BY <1>1, <2>1, <2>2, <2>3 DEF Saves
<1>13. Kept'
  <2>1. ASSUME kept > 0, count - kept < Backups
        PROVE  files'[Back(count - kept)] = saved
    <3>1. count - kept \in Nat /\ s.index # Back(count - kept)
      BY <1>3, <2>1, OwnIndex
    <3>2. Back(count - kept) \in Indices
      BY <2>1, <3>1, Rotation DEF IInv, Process
    <3> QED BY <1>4, <2>1, <3>1, <3>2 DEF IInv, Kept
  <2>2. count # 0
    BY <1>3, <1>6 DEF Pending
  <2>3. Back(count - kept)' = Back(count - kept)
    BY <1>2 DEF Back
  <2> QED BY <1>2, <2>1, <2>2, <2>3 DEF IInv, Kept
<1>14. KeepsUp'
  <2>1. \A t \in saving' : t = opened \/ t \in saving
    BY <1>1
  <2>2. opened.record.energyTotal <= energyTotal + 36000
    BY <1>8 DEF IInv, KeepsUp
  <2>3. \A t \in saving : t.record.energyTotal <= energyTotal + 36000
    BY DEF IInv, KeepsUp
  <2>4. \A t \in saving' : t.record.energyTotal <= energyTotal + 36000
    BY <2>1, <2>2, <2>3
  <2> QED BY <1>2, <2>4 DEF IInv, KeepsUp
<1>15. Counted'
  <2>1. Roundings' = Roundings
    BY <1>2 DEF Roundings
  <2>2. \A t \in saving' : t = opened \/ t \in saving
    BY <1>1
  <2>3. opened.record.energyTotal <= 50000 * opened.record.at + 36000 * Roundings
    BY <1>8 DEF IInv, Counted
  <2>4. \A t \in saving : t.record.energyTotal <= 50000 * t.record.at + 36000 * Roundings
    BY DEF IInv, Counted
  <2>5. \A t \in saving' : t.record.energyTotal <= 50000 * t.record.at + 36000 * Roundings
    BY <2>2, <2>3, <2>4
  <2>6. \A i \in Readable' : files'[i].energyTotal <= 50000 * files'[i].at + 36000 * Roundings
    BY <1>4, <1>5 DEF IInv, Counted, Readable
  <2> QED BY <1>2, <2>1, <2>5, <2>6 DEF IInv, Counted
<1> QED
  BY <1>9, <1>10, <1>11, <1>12, <1>13, <1>14, <1>15 DEF IInv

\* A save that completes is the newest, unless a later one was completed before it.
LEMMA CompletionKeeps ==
  ASSUME IInv, NEW s \in saving, SaveCompletes(s)
  PROVE  IInv'
<1> USE DEF processVars
<1> DEFINE record == s.record
           newer == s.number > kept
<1>1. /\ saving' = saving \ {s} /\ files' = [files EXCEPT ![s.index] = record]
      /\ newer => saved' = record /\ kept' = s.number
      /\ ~newer => saved' = saved /\ kept' = kept
      /\ cut' = FALSE
  BY DEF SaveCompletes
<1>2. UNCHANGED <<phase, running, monitoring, stopping, gpioUsed, starts, now, energyTotal,
                  energyDaily, lastRefresh, lastTempCnt, latest, count>>
  BY DEF SaveCompletes, vars, energyVars
<1>3. /\ phase = "running" /\ now \in Nat /\ latest \in Nat /\ latest <= now
      /\ count \in Nat /\ kept \in Nat /\ kept <= count
      /\ lastTempCnt \in Indices /\ Backups \in Nat
  BY BackupsAssumption DEF IInv, Process
<1>4. /\ files' = [i \in Indices |-> files'[i]]
      /\ s.index \in Indices /\ files'[s.index] = record
      /\ \A i \in Indices : i # s.index => files'[i] = files[i]
      /\ \A t \in saving : t # s => files'[t.index] = files[t.index]
  BY <1>1, OneFile
<1>5. /\ Pending(s) /\ s.number \in Nat /\ 0 < s.number /\ s.number <= count
      /\ s.index = Back(count - s.number)
      /\ record.content = "complete" /\ SoundFile(record)
      /\ record.at \in Nat /\ record.at <= latest /\ record.energyTotal \in Nat
      /\ newer => saved.at < record.at
      /\ ~newer => record.at < saved.at
  BY DEF IInv, Saves, Pending, SoundFile
<1>6. saved.at \in Nat /\ saved.at <= latest /\ saved.energyTotal \in Nat
  BY DEF IInv, Files
<1>7. /\ record.energyTotal <= energyTotal + 36000
      /\ record.energyTotal <= 50000 * record.at + 36000 * Roundings
  BY DEF IInv, KeepsUp, Counted
<1>8. \A f : SoundFile(f) => SoundFile(f)'
  BY <1>2 DEF SoundFile
<1>9. Readable' = Readable \cup {s.index}
  BY <1>4, <1>5 DEF Readable
<1>10. kept' \in Nat /\ kept' > 0 /\ kept' <= count
  BY <1>1, <1>3, <1>5
<1>11. saved.content = "complete" \/ newer
  BY <1>3, <1>5 DEF IInv, Kept
<1> HIDE DEF record, newer
<1>12. Process'
  BY <1>1, <1>2, <1>3, <1>10 DEF IInv, Process
<1>13. Energies'
  BY <1>2 DEF IInv, Energies
<1>14. Files'
  <2>1. ASSUME NEW i \in Indices PROVE SoundFile(files[i])'
    <3>1. CASE i = s.index
      BY <1>4, <1>5, <1>8, <3>1
    <3>2. CASE i # s.index
      BY <1>4, <1>8, <3>2 DEF IInv, Files
    <3> QED BY <3>1, <3>2
  <2>2. ASSUME NEW i \in Readable' PROVE files'[i] = saved' \/ files'[i].at < saved'.at
    <3>1. CASE i = s.index
      BY <1>1, <1>4, <1>5, <3>1
    <3>2. CASE i # s.index
      <4>1. i \in Readable /\ files'[i] = files[i]
        BY <1>4, <1>9, <3>2 DEF Readable
      <4>2. files[i] = saved \/ files[i].at < saved.at
        BY <4>1 DEF IInv, Files
      <4>3. files[i].at \in Nat
        BY <4>1 DEF IInv, Files, SoundFile, Readable
      <4> QED BY <1>1, <1>5, <1>6, <4>1, <4>2, <4>3
    <3> QED BY <3>1, <3>2
  <2>3. /\ saved'.at \in Nat /\ saved'.energyTotal \in Nat /\ saved'.at <= latest'
        /\ saved'.content = "complete"
    BY <1>1, <1>2, <1>5, <1>6, <1>11
  <2> QED BY <1>4, <2>1, <2>2, <2>3 DEF Files
<1>15. Saves'
  <2>1. ASSUME NEW t \in saving, t # s PROVE Pending(t)'
    <3>1. Pending(t)
      BY DEF IInv, Saves
    <3>2. /\ t.number # s.number
          /\ t.number < s.number => t.record.at < record.at
          /\ s.number < t.number => record.at < t.record.at
      BY <2>1 DEF IInv, Saves, record
    <3>3. /\ t.number # kept'
          /\ IF t.number > kept' THEN saved'.at < t.record.at ELSE t.record.at < saved'.at
      <4>1. CASE newer
        BY <1>1, <1>5, <3>1, <3>2, <4>1 DEF Pending
      <4>2. CASE ~newer
        BY <1>1, <3>1, <4>2 DEF Pending
      <4> QED BY <4>1, <4>2
    <3> QED BY <1>2, <1>4, <1>8, <2>1, <3>1, <3>3 DEF Pending, Back
  <2> QED BY <1>1, <2>1 DEF IInv, Saves
<1>16. Kept'
  <2>1. (count - kept)' = count - kept' /\ \A k : Back(k)' = Back(k)
    BY <1>2 DEF Back
  <2>2. CASE newer
    <3>1. files'[Back(count - kept')] = saved'
      BY <1>1, <1>4, <1>5, <2>2
    <3>2. files'[Back(count - kept)'] = saved'
      BY <2>1, <3>1
    <3>3. saved'.content = "complete" /\ count' # 0
      BY <1>1, <1>2, <1>3, <1>5, <2>2
    <3> QED BY <3>2, <3>3 DEF Kept
  <2>3. CASE ~newer
    <3>1. saved' = saved /\ kept' = kept /\ kept > 0
      BY <1>1, <1>10, <2>3
    <3>2. ASSUME count - kept < Backups
          PROVE  files'[Back(count - kept)] = saved
      <4>1. count - kept \in Nat /\ s.index # Back(count - kept)
        BY <1>3, <3>1, <3>2, OwnIndex
      <4>2. Back(count - kept) \in Indices
        BY <1>3, <3>2, <4>1, Rotation
      <4> QED BY <1>4, <3>1, <3>2, <4>1, <4>2 DEF IInv, Kept
    <3>3. count # 0
      BY <1>3, <1>5
    <3> QED BY <1>2, <1>11, <2>1, <2>3, <3>1, <3>2, <3>3 DEF Kept
  <2> QED BY <2>2, <2>3
<1>17. KeepsUp'
  <2>1. saved'.energyTotal <= energyTotal + 36000
    <3>1. CASE newer
      BY <1>1, <1>7, <3>1
    <3>2. CASE ~newer
      BY <1>1, <1>10, <3>2 DEF IInv, KeepsUp
    <3> QED BY <3>1, <3>2
  <2> QED BY <1>1, <1>2, <2>1 DEF IInv, KeepsUp
<1>18. Counted'
  <2>1. Roundings' = Roundings
    BY <1>2 DEF Roundings
  <2> QED BY <1>1, <1>2, <1>4, <1>7, <1>9, <2>1 DEF IInv, Counted, Readable
<1> QED
  BY <1>12, <1>13, <1>14, <1>15, <1>16, <1>17, <1>18 DEF IInv

\* A save that fails leaves its file as it is.
LEMMA FailureKeeps ==
  ASSUME IInv, NEW s \in saving, SaveFails(s)
  PROVE  IInv'
<1>1. /\ saving' = saving \ {s} /\ phase = "running"
      /\ UNCHANGED <<phase, running, monitoring, stopping, gpioUsed, starts, now, energyTotal,
                     energyDaily, lastRefresh, files, lastTempCnt, latest, saved, count, kept,
                     cut>>
  BY DEF IInv, Process, SaveFails, vars, energyVars, processVars, historyVars
<1>2. Process'
  BY <1>1 DEF IInv, Process
<1>3. Energies'
  BY <1>1 DEF IInv, Energies
<1>4. Files' /\ Saves'
  BY <1>1 DEF IInv, Files, Saves, Pending, Back, SoundFile, Readable
<1>5. Kept' /\ KeepsUp'
  BY <1>1 DEF IInv, Kept, Back, KeepsUp
<1>6. Counted'
  BY <1>1 DEF IInv, Counted, Roundings, Readable
<1> QED
  BY <1>2, <1>3, <1>4, <1>5, <1>6 DEF IInv

\* Whenever the process ends: the newest save is still in a file, or `cut` is set.
LEMMA EndKeeps ==
  ASSUME IInv, Ends
  PROVE  IInv'
<1>1. /\ phase' = "down" /\ running' = FALSE /\ monitoring' = FALSE
      /\ stopping' = FALSE /\ gpioUsed' = FALSE
      /\ saving' = {} /\ count' = 0 /\ kept' = 0 /\ lastTempCnt' = 0
      /\ energyDaily' = 0 /\ energyTotal' = 0 /\ lastRefresh' = Never
      /\ cut' = (cut \/ UnderFirst \/ ComeRound)
      /\ UNCHANGED <<now, files, starts, latest, saved>>
  BY DEF Ends, NothingKept
<1>2. /\ now \in Nat /\ starts \in Nat /\ latest \in Nat /\ latest <= now
      /\ count \in Nat /\ kept \in Nat /\ kept <= count
  BY DEF IInv, Process
<1>3. 0 \in Indices /\ Backups \in Nat /\ lastTempCnt \in Indices
  BY BackupsAssumption DEF Indices, IInv, Process
<1>4. Process'
  <2>1. /\ phase' = "down" /\ running' \in BOOLEAN /\ (monitoring' = running') /\ ~running'
        /\ stopping' \in BOOLEAN /\ gpioUsed' \in BOOLEAN /\ cut' \in BOOLEAN
    BY <1>1
  <2>2. /\ now' \in Nat /\ starts' \in Nat /\ latest' \in Nat /\ latest' <= now'
        /\ lastTempCnt' \in Indices
    BY <1>1, <1>2, <1>3
  <2>3. saving' = {} /\ count' = 0 /\ kept' = 0
    BY <1>1
  <2> QED BY <2>1, <2>2, <2>3 DEF Process
<1>5. Energies'
  BY <1>1 DEF Energies
<1>6. Files' /\ Saves'
  BY <1>1 DEF IInv, Files, Saves, SoundFile, Readable
<1>7. Kept'
  <2> SUFFICES ASSUME ~cut', saved.content = "complete"
               PROVE  \E i \in Indices : files[i] = saved
    BY <1>1 DEF Kept
  <2>1. ~cut /\ (count = 0 \/ kept > 0) /\ count - kept < Backups
    <3>1. ~cut /\ ~(count > 0 /\ kept = 0) /\ ~(count - kept >= Backups)
      BY <1>1 DEF UnderFirst, ComeRound
    <3>2. (~(count > 0) => count = 0) /\ (kept # 0 => kept > 0)
      BY <1>2
    <3>3. ~(count - kept >= Backups) => count - kept < Backups
      BY <1>2, <1>3
    <3> QED BY <3>1, <3>2, <3>3
  <2>2. CASE kept > 0
    <3>1. files[Back(count - kept)] = saved
      BY <2>1, <2>2 DEF IInv, Kept
    <3>2. Back(count - kept) \in Indices
      BY <1>2, <1>3, <2>1, Rotation
    <3> QED BY <3>1, <3>2
  <2>3. CASE count = 0
    BY <2>1, <2>3 DEF IInv, Kept
  <2> QED BY <2>1, <2>2, <2>3
<1>8. KeepsUp'
  BY <1>1 DEF KeepsUp
<1>9. Counted'
  <2>1. Roundings' = starts + 1 /\ Roundings \in {starts, starts + 1}
    BY <1>1, <1>2 DEF Roundings
  <2>2. ASSUME NEW i \in Readable
        PROVE  files[i].energyTotal <= 50000 * files[i].at + 36000 * (starts + 1)
    <3>1. files[i].energyTotal \in Nat /\ files[i].at \in Nat
      BY DEF IInv, Files, SoundFile, Readable
    <3>2. files[i].energyTotal <= 50000 * files[i].at + 36000 * Roundings
      BY DEF IInv, Counted
    <3> QED BY <1>2, <2>1, <3>1, <3>2
  <2>3. 0 <= 50000 * now + 36000 * starts
    BY <1>2
  <2> QED BY <1>1, <2>1, <2>2, <2>3 DEF Counted, Readable
<1> QED
  BY <1>4, <1>5, <1>6, <1>7, <1>8, <1>9 DEF IInv

\* SIGINT stops the timers.
LEMMA InterruptKeeps ==
  ASSUME IInv, Interrupt
  PROVE  IInv'
<1>1. /\ running' = FALSE /\ monitoring' = FALSE /\ phase = "running" /\ phase' = phase
      /\ stopping' \in BOOLEAN /\ gpioUsed' \in BOOLEAN
      /\ UNCHANGED <<starts, now, energyTotal, energyDaily, lastRefresh, files, lastTempCnt,
                     saving, latest, saved, count, kept, cut>>
  BY DEF IInv, Process, Interrupt, Shutdown, vars, energyVars, fileVars, historyVars
<1>2. Process'
  BY <1>1 DEF IInv, Process
<1>3. Energies'
  BY <1>1 DEF IInv, Energies
<1>4. Files' /\ Saves'
  BY <1>1 DEF IInv, Files, Saves, Pending, Back, SoundFile, Readable
<1>5. Kept' /\ KeepsUp'
  BY <1>1 DEF IInv, Kept, Back, KeepsUp
<1>6. Counted'
  BY <1>1 DEF IInv, Counted, Roundings, Readable
<1> QED
  BY <1>2, <1>3, <1>4, <1>5, <1>6 DEF IInv

LEMMA NextKeeps == IInv /\ [ServerNext]_allVars => IInv'
<1> SUFFICES ASSUME IInv, [ServerNext]_allVars PROVE IInv'
  OBVIOUS
<1>1. CASE Boot
  BY <1>1, BootKeeps
<1>2. CASE StartupFinishes
  BY <1>2, StartupKeeps
<1>3. CASE ControllerStep
  <2>1. phase = "running" /\ UNCHANGED serverVars
    BY <1>3 DEF ControllerStep
  <2>2. CASE \E timer \in Timers : ReadAnswered(timer)
    BY <2>1, <2>2, ReadKeeps
  <2>3. CASE TimerFires \/ WriteAnswered \/ RequestFails
    BY <2>1, <2>3, QuietKeeps DEF TimerFires, WriteAnswered, RequestFails
  <2>4. CASE \E p \in Accepted : PostParameter(p)
    BY <2>1, <2>4, QuietKeeps DEF PostParameter
  <2>5. CASE \E query \in Queries : GetMonitor(query)
    BY <2>1, <2>5, QuietKeeps DEF GetMonitor
  <2> QED BY <1>3, <2>2, <2>3, <2>4, <2>5 DEF ControllerStep
<1>4. CASE SaveTemp
  BY <1>4, SaveKeeps
<1>5. CASE \E s \in saving : SaveOpens(s)
  BY <1>5, OpeningKeeps
<1>6. CASE \E s \in saving : SaveCompletes(s) \/ SaveFails(s)
  BY <1>6, CompletionKeeps, FailureKeeps
<1>7. CASE Crash \/ GpioShutdown \/ ShutdownTimeout
  BY <1>7, EndKeeps DEF Crash, GpioShutdown, ShutdownTimeout
<1>8. CASE Interrupt
  BY <1>8, InterruptKeeps
<1>9. CASE Tick /\ UNCHANGED serverVars
  BY <1>9, TickKeeps
<1>10. CASE UNCHANGED allVars
  BY <1>10, QuietKeeps DEF allVars, vars
<1> QED
  BY <1>1, <1>2, <1>3, <1>4, <1>5, <1>6, <1>7, <1>8, <1>9, <1>10 DEF ServerNext

LEMMA Invariance == ServerSpec => []IInv
<1> QED
  BY InitKeeps, NextKeeps, PTL DEF ServerSpec

-----------------------------------------------------------------------------
(***************************************************************************)
(* The theorems.                                                           *)
(***************************************************************************)
\* The rotation of the temporary files loses nothing but the rounding: whenever the process
\* runs, the total keeps up with the newest record that was completely written, whatever
\* overtook, failed or was killed in between.  Not so after a run ended that had begun saves
\* and completed none, or had begun as many saves as there are files after the last it
\* completed, until the next save is completed (`cut`).
THEOREM NothingIsLost == ServerSpec => []NothingLost
<1>1. IInv => NothingLost
  <2> SUFFICES ASSUME IInv, phase = "running", ~cut
               PROVE  energyTotal >= saved.energyTotal - 36000
    BY DEF NothingLost
  <2>1. energyTotal \in Nat
    BY DEF IInv, Energies
  <2>2. saved.energyTotal \in Nat
    BY DEF IInv, Files
  <2>3. saved.energyTotal <= energyTotal + 36000
    BY DEF IInv, KeepsUp
  <2> QED BY <2>1, <2>2, <2>3
<1> QED
  BY <1>1, Invariance, PTL

\* However refreshes overlap and fail, and however often the process starts again: the
\* total is at most full power since the first start and half a Wh a start.
THEOREM CountedAtMostOnce == ServerSpec => []CountedOnce
<1>1. IInv => CountedOnce
  BY DEF IInv, Process, Energies, Counted, CountedOnce
<1> QED
  BY <1>1, Invariance, PTL

\* The process and its files keep their types.
THEOREM ServerTypes == ServerSpec => []ServerTypeOK
<1>1. IInv => ServerTypeOK
  <2> SUFFICES ASSUME IInv PROVE ServerTypeOK
    OBVIOUS
  <2>1. /\ phase \in {"down", "opening", "running"} /\ (running => phase = "running")
        /\ (monitoring <=> running) /\ lastTempCnt \in Indices
        /\ stopping \in BOOLEAN /\ gpioUsed \in BOOLEAN /\ kept \in 0..count
    BY DEF IInv, Process
  <2>2. energyTotal >= 0 /\ energyDaily >= 0
    BY DEF IInv, Energies
  <2>3. \A i \in Readable : files[i].at <= now /\ files[i].energyTotal % 72000 = 0
    BY DEF IInv, Files, SoundFile, Readable
  <2>4. \A s \in saving : s.opened => files[s.index] = Torn
    BY DEF IInv, Saves, Pending
  <2>5. \A s, t \in saving : s # t => s.index # t.index
    BY OwnIndex
  <2> QED BY <2>1, <2>2, <2>3, <2>4, <2>5 DEF ServerTypeOK
<1> QED
  BY <1>1, Invariance, PTL
=============================================================================
