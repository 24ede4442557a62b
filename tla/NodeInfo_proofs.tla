---------------------------- MODULE NodeInfo_proofs ---------------------------
(* Theorems about NodeInfo: for every number of drive letters, every clock and  *)
(* every memory.                                                                *)
EXTENDS NodeInfo, SequenceFacts, TLAPS

\* A part is at most a hundred percent of its whole.
LEMMA ShareIsPercent ==
  ASSUME NEW part \in Nat, NEW whole \in Nat, part <= whole
  PROVE  Share(part, whole) \in Percent
<1>1. CASE whole = 0
  BY <1>1 DEF Share, Percent
<1>2. CASE whole > 0
  <2> DEFINE q == (100 * part) \div whole
             r == (100 * part) % whole
  <2>1. q \in Int /\ r \in 0..(whole - 1) /\ 100 * part = whole * q + r
    BY <1>2
  <2> HIDE DEF q, r
  <2>2. q >= 0
    <3> SUFFICES ASSUME q <= -1 PROVE FALSE
      BY <2>1
    <3>1. whole * q <= -whole
      BY <1>2, <2>1
    <3> QED BY <1>2, <2>1, <3>1
  <2>3. q <= 100
    <3> SUFFICES ASSUME q >= 101 PROVE FALSE
      BY <2>1
    <3>1. whole * q >= whole * 101
      BY <1>2, <2>1
    <3> QED BY <1>2, <2>1, <3>1
  <2>4. Share(part, whole) = q
    BY <1>2 DEF Share, q
  <2> QED BY <2>1, <2>2, <2>3, <2>4 DEF Percent
<1> QED BY <1>1, <1>2

\* What the loop has left to do is within the alphabet; what it has listed lies
\* behind it and was ready; what has been ready throughout is listed or still to come.
LoopInv ==
  /\ pc \in {"disks", "done"} \/ (disks_load = <<>> /\ drives = {} /\ driveLetter = 0)
  /\ \A b \in drives : b + driveLetter < LetterCount
  /\ steady \subseteq ready
  /\ pc \in {"disks", "done"} =>
       /\ ready \subseteq seen
       /\ \A d \in steady : d \in Listed \/ d - driveLetter \in drives
  /\ Listed \subseteq seen
  /\ \A d \in Listed : d < driveLetter
  /\ IsInjective(disks_load)
  /\ pc = "done" => drives = {}

IInv == TypeOK /\ LoopInv

LEMMA EmptyList == ToSet(<<>>) = {} /\ IsInjective(<<>>)
BY DEF ToSet, IsInjective

LEMMA IInvInit == Init => IInv
<1> SUFFICES ASSUME Init PROVE IInv
  OBVIOUS
<1>1. report \in Report
  BY ConstantsAssumption DEF Init, Blank, Report, Percent, Clocks
<1>2. lastCPU \in [kernel : Clocks, user : Clocks]
  BY ConstantsAssumption DEF Init, NoTime, Clocks
<1>3. TypeOK
  BY <1>1, <1>2, ConstantsAssumption DEF Init, TypeOK, Calls, Letters
<1>4. LoopInv
  BY EmptyList DEF Init, LoopInv, Listed
<1> QED BY <1>3, <1>4 DEF IInv

\* The calls before the disks leave the loop alone, and the report is well typed
\* if what they read is.
LEMMA ReadKeeps ==
  ASSUME IInv, NEW call, NEW next \in Calls \ {"disks", "done"}, NEW field, NEW value,
         call \notin {"disks", "done"}, Read(call, next, field, value),
         [report EXCEPT ![field] = value] \in Report
  PROVE  IInv'
<1>1. /\ pc \notin {"disks", "done"} /\ pc' \in Calls \ {"disks", "done"}
      /\ report' \in Report
      /\ lastCPU' = NoTime
      /\ UNCHANGED <<mounted, ready, steady, seen, disks_load, drives, driveLetter>>
  BY DEF Read, machine, scanning
<1>2. lastCPU' \in [kernel : Clocks, user : Clocks]
  BY <1>1, ConstantsAssumption DEF NoTime, Clocks
<1>3. TypeOK'
  BY <1>1, <1>2 DEF IInv, TypeOK
<1>4. LoopInv'
  BY <1>1 DEF IInv, LoopInv, Listed
<1> QED BY <1>3, <1>4 DEF IInv

\* One turn of the loop: the letter it is at is listed if it is ready, and the
\* bits that are left move down by one.
LEMMA VisitKeeps ==
  ASSUME IInv, VisitDrive
  PROVE  IInv'
<1>1. /\ pc = "disks" /\ drives # {}
      /\ drives' = ShiftRight(drives) /\ driveLetter' = driveLetter + 1
      /\ UNCHANGED <<mounted, ready, steady, seen, pc, lastCPU, report>>
      /\ disks_load' = IF 0 \in drives /\ driveLetter \in ready
                       THEN Append(disks_load, driveLetter) ELSE disks_load
  BY DEF VisitDrive, machine
<1>2. /\ drives \subseteq Letters /\ driveLetter \in 0..LetterCount
      /\ disks_load \in Seq(Letters) /\ ready \subseteq Letters /\ LetterCount \in Nat
      /\ steady \subseteq Letters
  BY ConstantsAssumption DEF IInv, TypeOK
<1>3. driveLetter < LetterCount
  <2>1. PICK b \in drives : TRUE
    BY <1>1
  <2>2. b \in Nat
    BY <1>2, <2>1 DEF Letters
  <2>3. b + driveLetter < LetterCount
    BY <2>1 DEF IInv, LoopInv
  <2> QED BY <1>2, <2>2, <2>3
<1>4. \A b \in drives' : b \in Letters /\ b + driveLetter' < LetterCount
  BY <1>1, <1>2 DEF IInv, LoopInv, ShiftRight, Letters
<1>5. driveLetter \in Letters /\ driveLetter \notin Listed
  BY <1>2, <1>3 DEF IInv, LoopInv, Letters
<1>6. /\ disks_load' \in Seq(Letters) /\ IsInjective(disks_load')
      /\ Listed' = IF 0 \in drives /\ driveLetter \in ready
                   THEN Listed \cup {driveLetter} ELSE Listed
  <2>1. CASE 0 \in drives /\ driveLetter \in ready
    <3>1. disks_load' = Append(disks_load, driveLetter)
      BY <1>1, <2>1
    <3>2. IsInjective(Append(disks_load, driveLetter))
      BY <1>2, <1>5, AppendNew DEF IInv, LoopInv, Listed
    <3>3. ToSet(Append(disks_load, driveLetter)) = ToSet(disks_load) \cup {driveLetter}
      BY <1>2, <1>5, AppendHolds
    <3> QED BY <1>2, <1>5, <2>1, <3>1, <3>2, <3>3 DEF Listed
  <2>2. CASE ~(0 \in drives /\ driveLetter \in ready)
    BY <1>1, <1>2, <2>2 DEF IInv, LoopInv, Listed
  <2> QED BY <2>1, <2>2
<1>7. ASSUME NEW d \in steady'
      PROVE  d \in Listed' \/ d - driveLetter' \in drives'
  <2>1. d \in Listed \/ d - driveLetter \in drives
    BY <1>1 DEF IInv, LoopInv
  <2>2. d \in Nat /\ d \in ready
    BY <1>1, <1>2 DEF IInv, LoopInv, Letters
  <2>3. CASE d - driveLetter \in drives /\ d = driveLetter
    BY <1>2, <1>6, <2>2, <2>3
  <2>4. CASE d - driveLetter \in drives /\ d # driveLetter
    <3>1. d - driveLetter \in drives \ {0} /\ d - driveLetter' = (d - driveLetter) - 1
      BY <1>1, <1>2, <2>2, <2>4
    <3> QED BY <1>1, <3>1 DEF ShiftRight
  <2> QED BY <1>6, <2>1, <2>3, <2>4
<1>8. Listed' \subseteq seen' /\ \A d \in Listed' : d < driveLetter'
  <2>1. Listed \subseteq seen /\ ready \subseteq seen /\ \A d \in Listed : d < driveLetter
    BY <1>1 DEF IInv, LoopInv
  <2>2. Listed \subseteq Letters
    BY <1>2, InSequence DEF Listed
  <2> QED BY <1>1, <1>2, <1>6, <2>1, <2>2 DEF Letters
<1>9. TypeOK'
  BY <1>1, <1>2, <1>3, <1>4, <1>6 DEF IInv, TypeOK
<1>10. LoopInv'
  BY <1>1, <1>4, <1>6, <1>7, <1>8 DEF IInv, LoopInv
<1> QED BY <1>9, <1>10 DEF IInv

LEMMA IInvNext == IInv /\ [Next]_vars => IInv'
<1> SUFFICES ASSUME IInv, [Next]_vars PROVE IInv'
  OBVIOUS
<1>a. /\ report \in Report /\ 0 \in Int
      /\ IdRoom \in Nat /\ MaxProcesses \in Nat /\ MaxHandles \in Nat /\ Bytes \subseteq Nat
      /\ Ticks \in Nat \ {0} /\ MaxAdvance \in Nat
  BY ConstantsAssumption DEF IInv, TypeOK
<1>1. CASE DrivesChange
  <2>1. /\ mounted' \subseteq Letters /\ ready' \subseteq mounted'
        /\ steady' = steady \cap ready' /\ seen' = seen \cup ready'
        /\ UNCHANGED <<pc, lastCPU, report, disks_load, drives, driveLetter>>
    BY <1>1 DEF DrivesChange, scanning
  <2>2. TypeOK'
    BY <2>1 DEF IInv, TypeOK
  <2>3. LoopInv'
    BY <2>1 DEF IInv, LoopInv, Listed
  <2> QED BY <2>2, <2>3 DEF IInv
<1>2. CASE FirstCPUReading
  <2>1. /\ pc = "cpu" /\ pc' = "cpuAgain" /\ lastCPU' \in [kernel : Clocks, user : Clocks]
        /\ UNCHANGED <<mounted, ready, steady, seen, report, disks_load, drives, driveLetter>>
    BY <1>2 DEF FirstCPUReading, machine, scanning
  <2> QED BY <2>1 DEF IInv, TypeOK, LoopInv, Listed, Calls
<1>3. CASE getCPULoad
  <2>1. PICK kernelTicks \in 0..MaxAdvance, userTicks \in 0..MaxAdvance :
          LET nowCPU     == (lastCPU.kernel + kernelTicks) % Ticks
              nowUserCPU == (lastCPU.user + userTicks) % Ticks
          IN  Read("cpuAgain", "ram", "cpu_load",
                   CPUShare(Difference(nowCPU, lastCPU.kernel),
                            Difference(nowUserCPU, lastCPU.user)))
    BY <1>3 DEF getCPULoad
  <2> DEFINE sys  == Difference((lastCPU.kernel + kernelTicks) % Ticks, lastCPU.kernel)
             user == Difference((lastCPU.user + userTicks) % Ticks, lastCPU.user)
  <2>2. lastCPU.kernel \in Nat /\ lastCPU.user \in Nat
    BY <1>a DEF IInv, TypeOK, Clocks
  <2>3. sys \in Nat /\ user \in Nat
    BY <1>a, <2>2 DEF Difference
  <2> HIDE DEF sys, user
  <2>4. CPUShare(sys, user) \in Percent
    BY <2>3, ShareIsPercent DEF CPUShare
  <2>5. PICK load \in Percent : Read("cpuAgain", "ram", "cpu_load", load)
    BY <2>1, <2>4, Zenon DEF sys, user
  <2>6. [report EXCEPT !["cpu_load"] = load] \in Report
    BY <1>a DEF Report
  <2> QED BY <2>5, <2>6, ReadKeeps DEF Calls
<1>4. CASE getRAMLoad
  <2>0. PICK total \in Bytes : \E avail \in 0..total :
          Read("ram", "swap", "ram_load", Share(total - avail, total))
    BY <1>4 DEF getRAMLoad
  <2>1. PICK avail \in 0..total :
          Read("ram", "swap", "ram_load", Share(total - avail, total))
    BY <2>0
  <2>2. Share(total - avail, total) \in Percent
    BY <1>a, ShareIsPercent
  <2>3. PICK load \in Percent : Read("ram", "swap", "ram_load", load)
    BY <2>1, <2>2, Zenon
  <2>4. [report EXCEPT !["ram_load"] = load] \in Report
    BY <1>a DEF Report
  <2> QED BY <2>3, <2>4, ReadKeeps DEF Calls
<1>5. CASE getSwapLoad
  <2>0. PICK total \in Bytes : \E avail \in 0..total :
          Read("swap", "uptime", "swap_load", IF avail > 0 THEN (100 * avail) \div total ELSE 0)
    BY <1>5 DEF getSwapLoad
  <2>1. PICK avail \in 0..total :
          Read("swap", "uptime", "swap_load", IF avail > 0 THEN (100 * avail) \div total ELSE 0)
    BY <2>0
  <2>2. (IF avail > 0 THEN (100 * avail) \div total ELSE 0) \in Percent
    <3>1. total \in Nat /\ avail \in Nat /\ avail <= total
      BY <1>a
    <3>2. CASE avail > 0
      <4>1. Share(avail, total) = (100 * avail) \div total
        BY <3>1, <3>2 DEF Share
      <4> QED BY <3>1, <3>2, <4>1, ShareIsPercent
    <3>3. CASE ~(avail > 0)
      BY <3>3 DEF Percent
    <3> QED BY <3>2, <3>3
  <2>3. PICK load \in Percent : Read("swap", "uptime", "swap_load", load)
    BY <2>1, <2>2, Zenon
  <2>4. [report EXCEPT !["swap_load"] = load] \in Report
    BY <1>a DEF Report
  <2> QED BY <2>3, <2>4, ReadKeeps DEF Calls
<1>6. CASE getSystemUptimeMs
  <2>1. PICK ms \in Clocks : Read("uptime", "processes", "uptime", ms)
    BY <1>6 DEF getSystemUptimeMs
  <2>2. [report EXCEPT !["uptime"] = ms] \in Report
    BY <1>a DEF Report
  <2> QED BY <2>1, <2>2, ReadKeeps DEF Calls
<1>7. CASE getProcessCount
  <2>1. PICK running \in 0..MaxProcesses :
          Read("processes", "ramBytes", "process_count",
               IF running < IdRoom THEN running ELSE IdRoom)
    BY <1>7 DEF getProcessCount
  <2>2. (IF running < IdRoom THEN running ELSE IdRoom) \in 0..IdRoom
    BY <1>a
  <2>3. [report EXCEPT !["process_count"] = IF running < IdRoom THEN running ELSE IdRoom]
          \in Report
    BY <1>a, <2>2 DEF Report
  <2> QED BY <2>1, <2>3, ReadKeeps DEF Calls
<1>8. CASE getTotalRAMBytes
  <2>1. PICK total \in Bytes : Read("ramBytes", "swapBytes", "ram_bytes", total)
    BY <1>8 DEF getTotalRAMBytes
  <2>2. [report EXCEPT !["ram_bytes"] = total] \in Report
    BY <1>a DEF Report
  <2> QED BY <2>1, <2>2, ReadKeeps DEF Calls
<1>9. CASE getTotalSwapBytes
  <2>1. PICK total \in Bytes : Read("swapBytes", "handles", "swap_bytes", total)
    BY <1>9 DEF getTotalSwapBytes
  <2>2. [report EXCEPT !["swap_bytes"] = total] \in Report
    BY <1>a DEF Report
  <2> QED BY <2>1, <2>2, ReadKeeps DEF Calls
<1>10. CASE getOpenFileHandleCount
  <2>1. PICK count \in -1..MaxHandles : Read("handles", "bitmap", "opened_files", count)
    BY <1>10 DEF getOpenFileHandleCount
  <2>2. [report EXCEPT !["opened_files"] = count] \in Report
    BY <1>a DEF Report
  <2> QED BY <2>1, <2>2, ReadKeeps DEF Calls
<1>11. CASE GetLogicalDrives
  <2>1. /\ pc' = "disks" /\ drives' = mounted /\ driveLetter' = 0 /\ disks_load' = <<>>
        /\ steady' = ready /\ seen' = ready
        /\ UNCHANGED <<mounted, ready, lastCPU, report>>
    BY <1>11 DEF GetLogicalDrives
  <2>2. mounted \subseteq Letters /\ ready \subseteq mounted
    BY DEF IInv, TypeOK
  <2>3. TypeOK'
    BY <2>1, <2>2, ConstantsAssumption DEF IInv, TypeOK, Calls
  <2>4. LoopInv'
    BY <2>1, <2>2, EmptyList, ConstantsAssumption DEF LoopInv, Listed, Letters
  <2> QED BY <2>3, <2>4 DEF IInv
<1>12. CASE VisitDrive
  BY <1>12, VisitKeeps
<1>13. CASE Constructed
  <2>1. /\ pc = "disks" /\ pc' = "done" /\ drives = {}
        /\ UNCHANGED <<mounted, ready, steady, seen, lastCPU, report, disks_load, drives,
                       driveLetter>>
    BY <1>13 DEF Constructed, machine, scanning
  <2> QED BY <2>1 DEF IInv, TypeOK, LoopInv, Listed, Calls
<1>14. CASE UNCHANGED vars
  BY <1>14 DEF vars, machine, scanning, IInv, TypeOK, LoopInv, Listed
<1> QED BY <1>1, <1>2, <1>3, <1>4, <1>5, <1>6, <1>7, <1>8, <1>9, <1>10,
           <1>11, <1>12, <1>13, <1>14
        DEF Next, Construct

\* Every field of the report is of its kind: loads are percentages whatever the
\* clocks and the memory do, and the number of processes is cut at the room for them.
THEOREM TypeCorrect == Spec => []TypeOK
<1>1. IInv => TypeOK
  BY DEF IInv
<1> QED BY IInvInit, IInvNext, <1>1, PTL DEF Spec

\* A drive that stays ready throughout the loop is listed, for every number of
\* letters and every coming and going of the others.
THEOREM SteadyListed == Spec => []SteadyDrivesListed
<1>1. IInv => SteadyDrivesListed
  BY DEF IInv, LoopInv, SteadyDrivesListed
<1> QED BY IInvInit, IInvNext, <1>1, PTL DEF Spec

\* Nothing is listed that was not ready, and nothing twice.
THEOREM ListedWereReady == Spec => []ListedDrivesWereReady
<1>1. IInv => ListedDrivesWereReady
  BY DEF IInv, LoopInv, ListedDrivesWereReady
<1> QED BY IInvInit, IInvNext, <1>1, PTL DEF Spec

------------------------------------------------------------------------------
(* How many steps of the constructor are left at most: the calls before the     *)
(* disks, GetLogicalDrives, a turn of the loop for every letter, and its end.   *)
CallsBefore == [cpu |-> 10, cpuAgain |-> 9, ram |-> 8, swap |-> 7, uptime |-> 6,
                processes |-> 5, ramBytes |-> 4, swapBytes |-> 3, handles |-> 2,
                bitmap |-> 1]

StepsLeft == CASE pc = "done"  -> 0
               [] pc = "disks" -> LetterCount - driveLetter + 1
               [] OTHER        -> LetterCount + 1 + CallsBefore[pc]

\* A step of the constructor leaves fewer, a change of the drives as many.
ComesCloser == IF Construct THEN StepsLeft' < StepsLeft ELSE StepsLeft' = StepsLeft

\* Every call before the disks hands over to the next one.
LEMMA ReadIsNext ==
  ASSUME NEW call \in DOMAIN CallsBefore, NEW next \in DOMAIN CallsBefore, NEW field, NEW value,
         CallsBefore[next] < CallsBefore[call], Read(call, next, field, value),
         LetterCount \in Nat
  PROVE  StepsLeft' < StepsLeft
BY DEF Read, StepsLeft, CallsBefore

\* A drive is left to look at only within the alphabet.
LEMMA LetterInReach ==
  ASSUME IInv, drives # {}
  PROVE  driveLetter < LetterCount
<1>1. PICK b \in drives : TRUE
  OBVIOUS
<1>2. b \in Nat /\ driveLetter \in Nat /\ LetterCount \in Nat
  BY <1>1, ConstantsAssumption DEF IInv, TypeOK, Letters
<1>3. b + driveLetter < LetterCount
  BY <1>1 DEF IInv, LoopInv
<1> QED BY <1>2, <1>3

LEMMA StepsLeftBounds ==
  ASSUME IInv
  PROVE  StepsLeft \in 0..(LetterCount + 11) /\ (StepsLeft = 0 <=> pc = "done")
<1>1. pc \in Calls /\ LetterCount \in Nat /\ driveLetter \in 0..LetterCount
  BY ConstantsAssumption DEF IInv, TypeOK
<1>2. CASE pc = "done"
  BY <1>1, <1>2 DEF StepsLeft
<1>3. CASE pc = "disks"
  <2>1. StepsLeft = LetterCount - driveLetter + 1
    BY <1>3 DEF StepsLeft
  <2> QED BY <1>1, <1>3, <2>1
<1>4. CASE pc \notin {"disks", "done"}
  <2>1. CallsBefore[pc] \in 1..10
    BY <1>1, <1>4 DEF Calls, CallsBefore
  <2>2. StepsLeft = LetterCount + 1 + CallsBefore[pc]
    BY <1>4 DEF StepsLeft
  <2> QED BY <1>1, <1>4, <2>1, <2>2
<1> QED BY <1>2, <1>3, <1>4

LEMMA ConstructComesCloser ==
  ASSUME IInv, Construct
  PROVE  StepsLeft' < StepsLeft
<1>a. LetterCount \in Nat /\ driveLetter \in 0..LetterCount
  BY ConstantsAssumption DEF IInv, TypeOK
<1> DEFINE Hands(call, next) == /\ call \in DOMAIN CallsBefore /\ next \in DOMAIN CallsBefore
                                /\ CallsBefore[next] < CallsBefore[call]
<1>b. /\ Hands("cpuAgain", "ram") /\ Hands("ram", "swap") /\ Hands("swap", "uptime")
      /\ Hands("uptime", "processes") /\ Hands("processes", "ramBytes")
      /\ Hands("ramBytes", "swapBytes") /\ Hands("swapBytes", "handles")
      /\ Hands("handles", "bitmap")
  BY DEF CallsBefore
<1>1. CASE FirstCPUReading
  BY <1>a, <1>1 DEF FirstCPUReading, StepsLeft, CallsBefore
<1>2. CASE getCPULoad
  <2>1. PICK load : Read("cpuAgain", "ram", "cpu_load", load)
    BY <1>2, Zenon DEF getCPULoad
  <2> QED BY <1>a, <1>b, <2>1, ReadIsNext
<1>3. CASE getRAMLoad
  <2>1. PICK load : Read("ram", "swap", "ram_load", load)
    BY <1>3, Zenon DEF getRAMLoad
  <2> QED BY <1>a, <1>b, <2>1, ReadIsNext
<1>4. CASE getSwapLoad
  <2>1. PICK load : Read("swap", "uptime", "swap_load", load)
    BY <1>4, Zenon DEF getSwapLoad
  <2> QED BY <1>a, <1>b, <2>1, ReadIsNext
<1>5. CASE getSystemUptimeMs
  BY <1>a, <1>b, <1>5, ReadIsNext DEF getSystemUptimeMs
<1>6. CASE getProcessCount
  <2>1. PICK count : Read("processes", "ramBytes", "process_count", count)
    BY <1>6, Zenon DEF getProcessCount
  <2> QED BY <1>a, <1>b, <2>1, ReadIsNext
<1>7. CASE getTotalRAMBytes
  BY <1>a, <1>b, <1>7, ReadIsNext DEF getTotalRAMBytes
<1>8. CASE getTotalSwapBytes
  BY <1>a, <1>b, <1>8, ReadIsNext DEF getTotalSwapBytes
<1>9. CASE getOpenFileHandleCount
  BY <1>a, <1>b, <1>9, ReadIsNext DEF getOpenFileHandleCount
<1>10. CASE GetLogicalDrives
  BY <1>a, <1>10 DEF GetLogicalDrives, StepsLeft, CallsBefore
<1>11. CASE VisitDrive
  <2>1. driveLetter < LetterCount
    BY <1>11, LetterInReach DEF VisitDrive
  <2> QED BY <1>a, <1>11, <2>1 DEF VisitDrive, StepsLeft
<1>12. CASE Constructed
  BY <1>a, <1>12 DEF Constructed, StepsLeft
<1> QED BY <1>1, <1>2, <1>3, <1>4, <1>5, <1>6, <1>7, <1>8, <1>9, <1>10, <1>11, <1>12
        DEF Construct

\* The constructor cannot go on for ever: it has at most eleven steps and one for
\* every letter, each of its steps leaves fewer of them, and no coming and going of
\* drives gives it more; with none left it is done. Fairness turns this into
\* ConstructorEnds, which TLC checks.
THEOREM ConstructorRunsOut ==
  Spec => /\ [](StepsLeft \in 0..(LetterCount + 11) /\ (StepsLeft = 0 <=> pc = "done"))
          /\ [][ComesCloser]_vars
<1>1. IInv => StepsLeft \in 0..(LetterCount + 11) /\ (StepsLeft = 0 <=> pc = "done")
  BY StepsLeftBounds
<1>2. IInv /\ [Next]_vars => [ComesCloser]_vars
  <2> SUFFICES ASSUME IInv, Next PROVE ComesCloser
    OBVIOUS
  <2>1. CASE Construct
    BY <2>1, ConstructComesCloser DEF ComesCloser
  <2>2. CASE ~Construct
    <3>1. UNCHANGED <<pc, driveLetter>>
      BY <2>2 DEF Next, DrivesChange, scanning
    <3> QED BY <2>2, <3>1 DEF ComesCloser, StepsLeft
  <2> QED BY <2>1, <2>2
<1> QED BY IInvInit, IInvNext, <1>1, <1>2, PTL DEF Spec
=============================================================================
