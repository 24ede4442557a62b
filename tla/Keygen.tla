-------------------------------- MODULE Keygen --------------------------------
(* keygen run again and again over the same directories: it generates key pairs *)
(* and writes the two halves of each to its own pair of files, or all of them    *)
(* to the merged file that is named for each kind. The two names are given apart: *)
(* they may be the same, or one of them missing, and change from run to run. A    *)
(* run may be killed between any two steps.                                      *)
(*                                                                              *)
(* std::ofstream truncates its file when it is opened; what is written reaches   *)
(* the file when the stream is closed or std::endl flushes it; a stream that     *)
(* could not be opened takes what is written without a word.                     *)
(*                                                                              *)
(* A definition named Bug... is not the code: it is the definition after it      *)
(* with a plausible mistake, which a property below must catch.                  *)
EXTENDS Integers, Sequences, SequencesExt

CONSTANTS Folders,        \* values given to the options that name output folders
          DefaultFolder,  \* the folders written to when they are not given
          Names,          \* merged files that can be named, also one of a number
          Unnamed,        \* the empty name, which is no file's
          MaxAmount,      \* bound on the keys generated in one run
          MaxPairs,       \* bound on the key pairs generated in all runs
          Absent          \* what a file that does not exist holds

Kinds == {"private", "public"}

\* One file of a pair that is not merged.
Path(folder, kind, number) == [folder |-> folder, kind |-> kind, number |-> number]
Paths == [folder : Folders \cup {DefaultFolder}, kind : Kinds, number : 1..MaxAmount] \cup Names

\* The halves of a pair. What is written at one place of a file is a set of them:
\* two if two streams have written there, one over the other.
Half(kind, pair) == <<kind, pair>>
Pair(pair) == {Half(kind, pair) : kind \in Kinds}
Halves == Kinds \X (1..MaxPairs)

ASSUME ConstantsAssumption ==
  /\ MaxAmount \in Nat \ {0} /\ MaxPairs \in Nat
  /\ Unnamed \notin Paths /\ Absent \notin Seq(SUBSET Halves)

\* The options of a run, with their defaults; names have no effect without merge.
OptionsWith(merge, names) ==
  [folder : [Kinds -> Folders \cup {DefaultFolder}], name : [Kinds -> names],
   amount : 0..MaxAmount, force : BOOLEAN, merge : {merge}]
Options == OptionsWith(TRUE, Names \cup {Unnamed}) \cup OptionsWith(FALSE, {Unnamed})
DefaultOptions ==
  [folder |-> [kind \in Kinds |-> DefaultFolder], name |-> [kind \in Kinds |-> Unnamed],
   amount |-> 1, force |-> TRUE, merge |-> FALSE]

VARIABLES
  files,      \* what each file holds: the halves listed in it, or Absent
  before,     \* history: the files a run without force has found
  partner,    \* history: the other file of the run that last opened this one
  options,    \* the command line of the present run
  pairs,      \* key_pairs
  pos,        \* the pair being written
  opened,     \* the streams that are open and good
  generated,  \* the number of pairs generated so far, by all runs
  pc          \* "idle", "check", "open", "openPublic", "write", "writePublic",
              \* "done" (exit, no error reported) or "failed" (an exception)

vars == <<files, before, partner, options, pairs, pos, opened, generated, pc>>

TypeOK ==
  /\ files \in [Paths -> Seq(SUBSET Halves) \cup {Absent}]
  /\ before \in [Paths -> Seq(SUBSET Halves) \cup {Absent}]
  /\ partner \in [Paths -> Paths \cup {Unnamed}]
  /\ options \in Options
  /\ pairs \in Seq(1..MaxPairs)
  /\ pos \in 1..(Len(pairs) + 1)
  /\ opened \in SUBSET Kinds
  /\ generated \in 0..MaxPairs
  /\ pc \in {"idle", "check", "open", "openPublic", "write", "writePublic", "done", "failed"}

NoFiles == [p \in Paths |-> Absent]

Init ==
  /\ files = NoFiles /\ before = NoFiles
  /\ partner = [p \in Paths |-> Unnamed]
  /\ options = DefaultOptions
  /\ pairs = <<>> /\ pos = 1 /\ opened = {} /\ generated = 0 /\ pc = "idle"

------------------------------------------------------------------------------
\* The variables the folder options are bound to are only set by po::notify,
\* which is not called, and the map is asked for names that no option has: the
\* folders keep their defaults.
OutputFolder == DefaultFolder

\* the file of this kind the run writes next
File(kind) == IF options.merge THEN options.name[kind] ELSE Path(OutputFolder, kind, pos)

\* std::ofstream cannot open the empty name, and there is no such file
Openable(kind) == File(kind) # Unnamed
Exists(kind) == Openable(kind) /\ files[File(kind)] # Absent

\* no run is under way, and nothing of the last one but its files is left
Ended ==
  /\ pc' = "idle" /\ options' = DefaultOptions /\ pairs' = <<>> /\ pos' = 1 /\ opened' = {}
  /\ before' = NoFiles
  /\ UNCHANGED <<files, partner, generated>>

\* main throws before it writes: at options it cannot parse, a curve it does not
\* know, or a pair that fails its check (or it prints its help and ends as well)
GiveUp ==
  /\ pc = "idle" /\ pc' = "failed"
  /\ UNCHANGED <<files, before, partner, options, pairs, pos, opened, generated>>

\* main parses the options, generates the pairs and checks each of them
Start(o) ==
  /\ pc = "idle"
  /\ generated + o.amount <= MaxPairs
  /\ options' = o
  /\ pairs' = [i \in 1..o.amount |-> generated + i]
  /\ generated' = generated + o.amount
  /\ before' = IF o.force THEN NoFiles ELSE files
  /\ pos' = 1 /\ opened' = {}
  /\ pc' = IF o.merge \/ o.amount > 0 THEN "check" ELSE "done"
  /\ UNCHANGED <<files, partner>>

\* only the public key's file is looked for
BugCheckPublicOnly ==
  /\ pc = "check"
  /\ pc' = IF ~options.force /\ Exists("public") THEN "failed" ELSE "open"
  /\ UNCHANGED <<files, before, partner, options, pairs, pos, opened, generated>>

Check ==
  /\ pc = "check"
  /\ pc' = IF ~options.force /\ \E kind \in Kinds : Exists(kind) THEN "failed" ELSE "open"
  /\ UNCHANGED <<files, before, partner, options, pairs, pos, opened, generated>>

\* truncates the file, or leaves the stream bad
Open(kind, other) ==
  IF Openable(kind)
  THEN /\ files' = [files EXCEPT ![File(kind)] = <<>>] /\ opened' = opened \cup {kind}
       /\ partner' = [partner EXCEPT ![File(kind)] = File(other)]
  ELSE UNCHANGED <<files, partner>> /\ opened' = opened \ {kind}

OpenPrivate ==
  /\ pc = "open"
  /\ Open("private", "public")
  /\ pc' = "openPublic"
  /\ UNCHANGED <<before, options, pairs, pos, generated>>

\* the public file is not truncated before the private one is written
BugOpenPublicAppends ==
  /\ pc = "openPublic"
  /\ Openable("public") /\ opened' = opened \cup {"public"}
  /\ files' = [files EXCEPT ![File("public")] = IF @ = Absent THEN <<>> ELSE @]
  /\ partner' = [partner EXCEPT ![File("public")] = File("private")]
  /\ pc' = IF pairs = <<>> THEN "done" ELSE "write"
  /\ UNCHANGED <<before, options, pairs, pos, generated>>

OpenPublic ==
  /\ pc = "openPublic"
  /\ Open("public", "private")
  /\ pc' = IF pairs = <<>> THEN "done" ELSE "write"
  /\ UNCHANGED <<before, options, pairs, pos, generated>>

\* the place in its file of the key that is written
Place == IF options.merge THEN pos ELSE 1

\* A stream writes where it has left off, and that is over the half that the other
\* stream has written if both have opened the same file.
Written(content, half) ==
  IF Len(content) < Place THEN Append(content, {half})
                          ELSE [content EXCEPT ![Place] = @ \cup {half}]

\* write and flush: private_key_file.close(), or std::endl on a merged file
Write(kind) ==
  /\ files' = IF kind \in opened
              THEN [files EXCEPT ![File(kind)] = Written(@, Half(kind, pairs[pos]))]
              ELSE files
  /\ UNCHANGED partner

WritePrivate ==
  /\ pc = "write"
  /\ Write("private")
  /\ pc' = "writePublic"
  /\ UNCHANGED <<before, options, pairs, pos, opened, generated>>

\* the last pair is left out
BugStopsBeforeLast ==
  /\ pc = "writePublic"
  /\ Write("public")
  /\ pos' = pos + 1
  /\ pc' = IF pos + 1 >= Len(pairs) THEN "done"
           ELSE IF options.merge THEN "write" ELSE "check"
  /\ UNCHANGED <<before, options, pairs, opened, generated>>

\* the position is advanced once more at the end
BugAdvancesTwice ==
  /\ pc = "writePublic"
  /\ Write("public")
  /\ pos' = pos + 2
  /\ pc' = IF pos >= Len(pairs) THEN "done" ELSE IF options.merge THEN "write" ELSE "check"
  /\ UNCHANGED <<before, options, pairs, opened, generated>>

\* ... and on to the next pair: its own files, or the next lines of the merged ones
WritePublic ==
  /\ pc = "writePublic"
  /\ Write("public")
  /\ pos' = pos + 1
  /\ pc' = IF pos = Len(pairs) THEN "done" ELSE IF options.merge THEN "write" ELSE "check"
  /\ UNCHANGED <<before, options, pairs, opened, generated>>

Exit == pc \in {"done", "failed"} /\ Ended

\* the process is killed; what was not flushed is lost
Crash == pc \notin {"idle", "done", "failed"} /\ Ended

Next ==
  \/ GiveUp \/ \E o \in Options : Start(o)
  \/ Check \/ OpenPrivate \/ OpenPublic \/ WritePrivate \/ WritePublic \/ Exit \/ Crash

Spec == Init /\ [][Next]_vars

------------------------------------------------------------------------------
(* Properties *)

Entries(path) == IF files[path] = Absent THEN <<>> ELSE files[path]

\* Two files that were last opened for each other never hold anything but the two
\* halves of one pair at the same place: not after a run that was killed, nor after
\* later ones that overwrote one of them, or both, under other names.
PairFilesMatch ==
  \A p, q \in Paths : p # q /\ partner[p] = q /\ partner[q] = p =>
    \A k \in DOMAIN Entries(p) \cap DOMAIN Entries(q) :
      \E pair \in 1..MaxPairs : Entries(p)[k] \cup Entries(q)[k] = Pair(pair)

\* "force overwrite of existing files if they exist": a run without force leaves
\* every file that was there when it started as it was, and one that stops with
\* an error has overwritten none.
NoForceKeepsFiles ==
  ~options.force => \A p \in Paths : before[p] # Absent => files[p] = before[p]

\* the halves of this kind of some pairs, as a file lists them
Listing(kind, some) == [i \in DOMAIN some |-> {Half(kind, some[i])}]

\* the run's halves of this kind are on disk: in the merged file, or in one for each
Stored(kind) ==
  IF options.merge THEN Openable(kind) /\ Entries(options.name[kind]) = Listing(kind, pairs)
  ELSE \A i \in DOMAIN pairs :
         Entries(Path(OutputFolder, kind, i)) = Listing(kind, <<pairs[i]>>)

\* A run that ends without an error has stored the halves of each kind, all of them
\* and nothing else, none under the number of another: except those whose merged
\* file has no name, and those of two kinds that were given the same name.
DoneMeansWritten ==
  pc = "done" =>
    \A kind \in Kinds :
      \/ Stored(kind)
      \/ options.merge /\ options.name[kind] = Unnamed
      \/ options.merge /\ options.name["private"] = options.name["public"]

\* "merge all generated keys into one file" (keygen:97): the same of every merge.
MergeWritesKeys ==
  pc = "done" /\ options.merge /\ pairs # <<>> => \A kind \in Kinds : Stored(kind)

\* "pathname where to store generated private key" (keygen:92): the keys of a run
\* are stored in the folder it was given.
FolderOptionHonoured ==
  pc = "done" /\ ~options.merge =>
    \A i \in DOMAIN pairs :
      Entries(Path(options.folder["private"], "private", i)) = Listing("private", <<pairs[i]>>)
=============================================================================
