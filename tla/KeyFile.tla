------------------------------- MODULE KeyFile -------------------------------
(* One key on its way through a file: keygen writes it through std::ofstream    *)
(* and read_key reads it through std::ifstream, both in text mode, which on     *)
(* Windows turns "\n" into "\r\n" in the file and back. read_key sizes its      *)
(* buffer by the file and reads in further steps: keygen may run in between.    *)
(*                                                                              *)
(* A definition named Bug... is not the code: it is the definition after it     *)
(* with a plausible mistake, which a property below must catch.                 *)
EXTENDS Integers, Sequences, SequencesExt

CONSTANTS Others,     \* characters of a key other than the two of a line end
          MaxLength,  \* bound on the characters of a key
          Windows     \* does text mode translate line ends?

ASSUME ConstantsAssumption == MaxLength \in Nat /\ Windows \in BOOLEAN

CR == "\r"
LF == "\n"
Zero == "zero"   \* what resize fills the buffer with
Characters == Others \cup {CR, LF}
Keys == UNION {[1..n -> Characters] : n \in 0..MaxLength}

Absent == <<Zero>>   \* there is no such file

VARIABLES
  written,    \* the key keygen has written last
  file,       \* what the file holds
  at,         \* read_key: "out", "open", "sized", "threw" or "returned"
  key,        \* its buffer
  rewritten   \* history: keygen has opened the file since read_key did

vars == <<written, file, at, key, rewritten>>

TypeOK ==
  /\ written \in Keys
  /\ file \in Seq(Characters) \cup {Absent}
  /\ at \in {"out", "open", "sized", "threw", "returned"}
  /\ key \in Seq(Characters \cup {Zero})
  /\ at \in {"out", "open", "threw"} => key = <<>>
  /\ rewritten \in BOOLEAN

Init ==
  /\ written \in Keys /\ file = Absent
  /\ at = "out" /\ key = <<>> /\ rewritten = FALSE

------------------------------------------------------------------------------
(* Text mode *)

ToFile(text) ==
  IF Windows THEN FlattenSeq([i \in DOMAIN text |->
                               IF text[i] = LF THEN <<CR, LF>> ELSE <<text[i]>>])
             ELSE text

\* a "\r" before a "\n" is dropped
FromFile(bytes) ==
  LET Dropped(i) == i < Len(bytes) /\ bytes[i] = CR /\ bytes[i + 1] = LF
  IN  IF Windows THEN FlattenSeq([i \in DOMAIN bytes |->
                                   IF Dropped(i) THEN <<>> ELSE <<bytes[i]>>])
                 ELSE bytes

Zeros(n) == [i \in 1..n |-> Zero]

------------------------------------------------------------------------------
\* keygen opens the file, which truncates it ...
Truncate ==
  /\ file' = <<>> /\ rewritten' = TRUE
  /\ UNCHANGED <<written, at, key>>

\* ... and closes it, when the key is in it
WriteKey ==
  /\ file = <<>>
  /\ written' \in Keys /\ file' = ToFile(written') /\ rewritten' = TRUE
  /\ UNCHANGED <<at, key>>

\* the buffer is sized before the stream is checked
BugSizeFirst ==
  /\ at = "out"
  /\ at' = IF file = Absent THEN "threw" ELSE "open"
  /\ key' = Zeros(Len(file)) /\ rewritten' = FALSE
  /\ UNCHANGED <<written, file>>

\* a file that is not there is reported with an exception
OpenKey ==
  /\ at = "out"
  /\ at' = IF file = Absent THEN "threw" ELSE "open"
  /\ rewritten' = FALSE
  /\ UNCHANGED <<written, file, key>>

\* tellg at the end, and resize
Size ==
  /\ at = "open"
  /\ key' = Zeros(Len(file))
  /\ at' = "sized"
  /\ UNCHANGED <<written, file, rewritten>>

\* without the second seekg nothing is left to read
BugReadAtEnd ==
  /\ at = "sized"
  /\ at' = "returned"
  /\ UNCHANGED <<written, file, key, rewritten>>

\* read: as many characters as there are and as fit; the count is not asked for
ReadKey ==
  /\ at = "sized"
  /\ key' = LET text == FromFile(file)
            IN  [i \in DOMAIN key |-> IF i <= Len(text) THEN text[i] ELSE key[i]]
  /\ at' = "returned"
  /\ UNCHANGED <<written, file, rewritten>>

\* the program is started again
Again ==
  /\ at \in {"threw", "returned"}
  /\ at' = "out" /\ key' = <<>> /\ rewritten' = FALSE
  /\ UNCHANGED <<written, file>>

Next == Truncate \/ WriteKey \/ OpenKey \/ Size \/ ReadKey \/ Again

Spec == Init /\ [][Next]_vars

------------------------------------------------------------------------------
LineEnds(text) == Cardinality({i \in DOMAIN text : text[i] = LF})

\* A key read from a file at rest is the key as it was written, whatever line ends
\* it has, and behind it one zero for each line end on Windows, where the file is
\* longer than its text: the buffer never ends before the key does.
KeyComesBack ==
  at = "returned" /\ ~rewritten =>
    key = IF file = <<>> THEN <<>>
          ELSE written \o Zeros(IF Windows THEN LineEnds(written) ELSE 0)
=============================================================================
