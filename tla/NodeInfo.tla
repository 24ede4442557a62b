------------------------------- MODULE NodeInfo -------------------------------
(* The constructor of NodeInformationResponse: a snapshot of the machine put    *)
(* together from eleven calls, one after another, while the machine goes on:    *)
(* its clocks advance, its memory is used and freed, its drives come and go.    *)
(*                                                                              *)
(* This is the Windows code, the only branch that compiles. The Windows calls   *)
(* are external: each answers for the moment at which it is made.               *)
(*                                                                              *)
(* A definition named Bug... is not the code: it is the definition after it     *)
(* with a plausible mistake, which a property below must catch.                 *)
EXTENDS Integers, Sequences, FiniteSets, SequencesExt

CONSTANTS LetterCount,  \* drive letters, 'A' is 0
          Ticks,        \* numbers a clock can hold: 2^64
          MaxAdvance,   \* bound on the ticks of one clock between its two readings
          Bytes,        \* sizes RAM and page file can have
          IdRoom,       \* process identifiers processIds has room for: 1024
          MaxProcesses, \* bound on the processes that run
          MaxHandles    \* bound on the handles the process has

ASSUME ConstantsAssumption ==
  /\ LetterCount \in Nat
  /\ Ticks \in Nat \ {0} /\ MaxAdvance \in Nat /\ 2 * MaxAdvance < Ticks
  /\ Bytes \subseteq Nat
  /\ IdRoom \in Nat /\ MaxProcesses \in Nat /\ MaxHandles \in Nat

Letters == 0..(LetterCount - 1)
Clocks  == 0..(Ticks - 1)

VARIABLES
  mounted,      \* the machine: drives GetLogicalDrives reports
  ready,        \*   those GetDiskFreeSpaceExA succeeds for: a medium is in
  pc,           \* the next call of the constructor, "done" after the last
  lastCPU,      \* getCPULoad: the two clocks, read for the first time
  report,       \* the fields read so far, but for the disks
  disks_load,   \* the letters of the disks listed so far
  drives,       \* getDisksLoad: the bits not looked at yet, shifted to 0
  driveLetter,  \*   the letter of bit 0
  steady,       \* history: drives that have been ready ever since GetLogicalDrives
  seen          \* history: drives that were ready at some time since

machine  == <<mounted, ready, steady, seen>>
scanning == <<disks_load, drives, driveLetter>>
vars == <<machine, pc, lastCPU, report, scanning>>

Calls == {"cpu", "cpuAgain", "ram", "swap", "uptime", "processes", "ramBytes", "swapBytes",
          "handles", "bitmap", "disks", "done"}

Percent == 0..100
Report == [cpu_load : Percent, gpu_load : {0}, ram_load : Percent, swap_load : Percent,
           uptime : Clocks, process_count : 0..IdRoom, ram_bytes : Bytes \cup {0},
           swap_bytes : Bytes \cup {0}, opened_files : -1..MaxHandles, socket_count : {0}]

TypeOK ==
  /\ mounted \subseteq Letters /\ ready \subseteq mounted
  /\ pc \in Calls
  /\ lastCPU \in [kernel : Clocks, user : Clocks]
  /\ report \in Report
  /\ disks_load \in Seq(Letters)
  /\ drives \subseteq Letters
  /\ driveLetter \in 0..LetterCount
  /\ steady \subseteq Letters /\ seen \subseteq Letters

\* gpu_load is a placeholder, and Windows sockets are still to be counted
Blank == [cpu_load |-> 0, gpu_load |-> 0, ram_load |-> 0, swap_load |-> 0,
          uptime |-> 0, process_count |-> 0, ram_bytes |-> 0, swap_bytes |-> 0,
          opened_files |-> 0, socket_count |-> 0]

NoTime == [kernel |-> 0, user |-> 0]

Init ==
  /\ mounted \in SUBSET Letters /\ ready \in SUBSET mounted
  /\ pc = "cpu"
  /\ lastCPU = NoTime
  /\ report = Blank
  /\ disks_load = <<>> /\ drives = {} /\ driveLetter = 0
  /\ steady = {} /\ seen = {}

------------------------------------------------------------------------------
(* The machine *)

\* a drive appears, is taken away, gets a medium or loses it
DrivesChange ==
  /\ mounted' \in SUBSET Letters /\ ready' \in SUBSET mounted'
  /\ <<mounted', ready'>> # <<mounted, ready>>
  /\ steady' = steady \cap ready' /\ seen' = seen \cup ready'
  /\ UNCHANGED <<pc, lastCPU, report, scanning>>

------------------------------------------------------------------------------
(* The constructor *)

\* 100.0 * part / whole, by what an integer can say of it
Share(part, whole) == IF whole > 0 THEN (100 * part) \div whole ELSE 0

Read(call, next, field, value) ==
  /\ pc = call /\ pc' = next
  /\ report' = [report EXCEPT ![field] = value]
  /\ lastCPU' = NoTime
  /\ UNCHANGED <<machine, scanning>>

\* the first half of getCPULoad
FirstCPUReading ==
  /\ pc = "cpu" /\ pc' = "cpuAgain"
  /\ \E kernel, user \in Clocks : lastCPU' = [kernel |-> kernel, user |-> user]
  /\ UNCHANGED <<machine, report, scanning>>

\* unsigned long long
Difference(now, last) == (now - last) % Ticks

CPUShare(sysDiff, userDiff) == Share(userDiff, sysDiff + userDiff)

\* the second half, 100 ms later; on Windows the kernel's time includes idling
getCPULoad ==
  \E kernelTicks, userTicks \in 0..MaxAdvance :
    LET nowCPU     == (lastCPU.kernel + kernelTicks) % Ticks
        nowUserCPU == (lastCPU.user + userTicks) % Ticks
    IN  Read("cpuAgain", "ram", "cpu_load",
             CPUShare(Difference(nowCPU, lastCPU.kernel),
                      Difference(nowUserCPU, lastCPU.user)))

getRAMLoad ==
  \E total \in Bytes : \E avail \in 0..total :
    Read("ram", "swap", "ram_load", Share(total - avail, total))

\* the free share of the page file, not the used one; guarded by what is free
getSwapLoad ==
  \E total \in Bytes : \E avail \in 0..total :
    Read("swap", "uptime", "swap_load", IF avail > 0 THEN (100 * avail) \div total ELSE 0)

\* the milliseconds since the machine was started
getSystemUptimeMs ==
  \E ms \in Clocks : Read("uptime", "processes", "uptime", ms)

\* the bytes that EnumProcesses has written are taken for the number of processes
BugProcessCount ==
  \E running \in 0..MaxProcesses :
    Read("processes", "ramBytes", "process_count",
         4 * (IF running < IdRoom THEN running ELSE IdRoom))

\* EnumProcesses fills the array it is given, and says so, or fails
getProcessCount ==
  \E running \in 0..MaxProcesses :
    Read("processes", "ramBytes", "process_count",
         IF running < IdRoom THEN running ELSE IdRoom)

getTotalRAMBytes ==
  \E total \in Bytes : Read("ramBytes", "swapBytes", "ram_bytes", total)

getTotalSwapBytes ==
  \E total \in Bytes : Read("swapBytes", "handles", "swap_bytes", total)

\* -1 if GetProcessHandleCount fails
getOpenFileHandleCount ==
  \E count \in -1..MaxHandles : Read("handles", "bitmap", "opened_files", count)

\* getDisksLoad: GetLogicalDrives ...
GetLogicalDrives ==
  /\ pc = "bitmap" /\ pc' = "disks"
  /\ drives' = mounted /\ driveLetter' = 0 /\ disks_load' = <<>>
  /\ steady' = ready /\ seen' = ready
  /\ UNCHANGED <<mounted, ready, lastCPU, report>>

\* drives >>= 1
ShiftRight(bits) == {b - 1 : b \in bits \ {0}}

\* the letter moves on only past a drive that exists
BugLetterSkips ==
  /\ pc = "disks" /\ drives # {}
  /\ disks_load' = IF 0 \in drives /\ driveLetter \in ready
                   THEN Append(disks_load, driveLetter) ELSE disks_load
  /\ drives' = ShiftRight(drives)
  /\ driveLetter' = IF 0 \in drives THEN driveLetter + 1 ELSE driveLetter
  /\ UNCHANGED <<machine, pc, lastCPU, report>>

\* a drive is listed although its size could not be read
BugListsUnread ==
  /\ pc = "disks" /\ drives # {}
  /\ disks_load' = IF 0 \in drives THEN Append(disks_load, driveLetter) ELSE disks_load
  /\ drives' = ShiftRight(drives) /\ driveLetter' = driveLetter + 1
  /\ UNCHANGED <<machine, pc, lastCPU, report>>

\* a drive whose size cannot be read is tried again
BugWaitsForMedium ==
  /\ pc = "disks" /\ drives # {}
  /\ 0 \in drives => driveLetter \in ready
  /\ disks_load' = IF 0 \in drives THEN Append(disks_load, driveLetter) ELSE disks_load
  /\ drives' = ShiftRight(drives) /\ driveLetter' = driveLetter + 1
  /\ UNCHANGED <<machine, pc, lastCPU, report>>

\* ... and its loop, a bit a turn
VisitDrive ==
  /\ pc = "disks" /\ drives # {}
  /\ disks_load' = IF 0 \in drives /\ driveLetter \in ready
                   THEN Append(disks_load, driveLetter) ELSE disks_load
  /\ drives' = ShiftRight(drives) /\ driveLetter' = driveLetter + 1
  /\ UNCHANGED <<machine, pc, lastCPU, report>>

Constructed ==
  /\ pc = "disks" /\ drives = {} /\ pc' = "done"
  /\ UNCHANGED <<machine, lastCPU, report, scanning>>

Construct ==
  \/ FirstCPUReading \/ getCPULoad \/ getRAMLoad \/ getSwapLoad \/ getSystemUptimeMs
  \/ getProcessCount \/ getTotalRAMBytes \/ getTotalSwapBytes \/ getOpenFileHandleCount
  \/ GetLogicalDrives \/ VisitDrive \/ Constructed

Next == DrivesChange \/ Construct

\* one thread runs the constructor; nothing makes a drive change
Spec == Init /\ [][Next]_vars /\ WF_vars(Construct)

------------------------------------------------------------------------------
(* Properties *)

Listed == ToSet(disks_load)

\* A drive that stays ready while getDisksLoad runs is in the list, under its own
\* letter, whatever drives before it come and go between two turns of the loop.
SteadyDrivesListed == pc = "done" => steady \subseteq Listed

\* A drive in the list was ready at some time during the loop, not only mounted:
\* no letter is attributed the answer of another, and none appears twice.
ListedDrivesWereReady == Listed \subseteq seen /\ IsInjective(disks_load)

\* The constructor ends, though the loop asks drives whose medium may come and go
\* for ever: one that cannot be read is passed by.
ConstructorEnds == <>(pc = "done")
=============================================================================
