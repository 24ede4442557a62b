--------------------------- MODULE Deployment_proofs ---------------------------
(* Theorems about Keygen: any number of runs, of any length, with any options   *)
(* and killed anywhere, over any folders and names. And about Deployment: what  *)
(* the programs that are started beside these runs have read.                   *)
EXTENDS Deployment, SequenceFacts, TLAPS

Running == pc \in {"check", "open", "openPublic", "write", "writePublic"}
Writing == pc \in {"write", "writePublic"}
Other(kind) == IF kind = "private" THEN "public" ELSE "private"

\* the pairs whose halves a file of the present run holds once the n-th is written
Share(n) == SubSeq(pairs, IF options.merge THEN 1 ELSE pos, n)

\* the number of pairs whose half of this kind has been written
Progress(kind) == IF pc = "writePublic" /\ kind = "private" THEN pos ELSE pos - 1

\* the pair at pos is one of this run's, and its number is one of a file's
Positions ==
  /\ Len(pairs) <= MaxAmount
  /\ Writing => pos <= Len(pairs)
  /\ Running /\ ~options.merge => pos <= Len(pairs)
  /\ options.merge /\ pc \in {"check", "open", "openPublic"} => pos = 1
  /\ pc = "done" => pos = Len(pairs) + 1

\* a stream is good if its file has a name
Streams ==
  /\ pc = "openPublic" => ("private" \in opened <=> Openable("private"))
  /\ Writing => \A kind \in Kinds : kind \in opened <=> Openable(kind)

\* the files at hand are there, and each was opened with the other ...
AtHand ==
  /\ pc = "openPublic" /\ Openable("private") =>
       files[File("private")] = <<>> /\ partner[File("private")] = File("public")
  /\ Writing => \A kind \in Kinds : Openable(kind) =>
       files[File(kind)] # Absent /\ partner[File(kind)] = File(Other(kind))

\* ... and, if they are two, each holds what has been written of its kind
Apart ==
  Writing /\ File("private") # File("public") =>
    \A kind \in Kinds : Openable(kind) =>
      files[File(kind)] = Listing(kind, Share(Progress(kind)))

\* what is in those that are done with
Behind ==
  /\ (Running \/ pc = "done") /\ ~options.merge =>
       \A kind \in Kinds, i \in 1..(pos - 1) :
         files[Path(OutputFolder, kind, i)] = Listing(kind, <<pairs[i]>>)
  /\ pc = "done" /\ options.merge /\ options.name["private"] # options.name["public"] =>
       \A kind \in Kinds : options.name[kind] # Unnamed =>
         files[options.name[kind]] = Listing(kind, pairs)

\* without force, a run that got past the check found no files of these names
Untouched ==
  ~options.force /\ pc \in {"open", "openPublic", "write", "writePublic"} =>
    \A kind \in Kinds : Openable(kind) => before[File(kind)] = Absent

FInv == TypeOK /\ Positions /\ Streams /\ AtHand /\ Apart /\ Behind
IInv == FInv /\ PairFilesMatch /\ NoForceKeepsFiles /\ Untouched

------------------------------------------------------------------------------
(* Options, files and what is listed in them *)

\* The fields of a run's options.
LEMMA OptionsType ==
  ASSUME NEW o \in Options
  PROVE  /\ o.amount \in 0..MaxAmount /\ o.amount \in Nat
         /\ o.merge \in BOOLEAN /\ o.force \in BOOLEAN
         /\ o.name \in [Kinds -> Names \cup {Unnamed}]
         /\ DefaultOptions \in Options /\ ~DefaultOptions.merge /\ DefaultOptions.force
<1>1. \E names : /\ names = Names \cup {Unnamed} \/ names = {Unnamed}
                 /\ o.name \in [Kinds -> names] /\ o.amount \in 0..MaxAmount
                 /\ o.force \in BOOLEAN /\ o.merge \in BOOLEAN
  BY DEF Options, OptionsWith
<1>2. /\ o.name \in [Kinds -> Names \cup {Unnamed}]
      /\ o.amount \in 0..MaxAmount /\ o.amount \in Nat
      /\ o.force \in BOOLEAN /\ o.merge \in BOOLEAN
  <2>1. [Kinds -> {Unnamed}] \subseteq [Kinds -> Names \cup {Unnamed}]
    OBVIOUS
  <2> QED BY <1>1, <2>1, ConstantsAssumption
<1>3. DefaultOptions \in OptionsWith(FALSE, {Unnamed})
  BY ConstantsAssumption DEF DefaultOptions, OptionsWith
<1>4. ~DefaultOptions.merge /\ DefaultOptions.force
  BY DEF DefaultOptions
<1> QED BY <1>2, <1>3, <1>4 DEF Options

\* A file at hand that has a name is one of the files; of two that are not merged,
\* each has a name of its own.
LEMMA FileIsPath ==
  ASSUME TypeOK, Positions, options.merge \/ pos <= Len(pairs), NEW kind \in Kinds
  PROVE  /\ Openable(kind) => File(kind) \in Paths
         /\ File(kind) \in Paths => Openable(kind)
         /\ ~options.merge => Openable(kind) /\ File("private") # File("public")
<1>1. /\ options.name \in [Kinds -> Names \cup {Unnamed}] /\ options.merge \in BOOLEAN
      /\ pos \in Nat \ {0}
  BY OptionsType DEF TypeOK
<1>2. Unnamed \notin Paths
  BY ConstantsAssumption
<1>3. CASE options.merge
  BY <1>1, <1>2, <1>3 DEF File, Paths, Openable
<1>4. CASE ~options.merge
  <2>1. pos \in 1..MaxAmount
    BY <1>1, <1>4, ConstantsAssumption DEF Positions, TypeOK
  <2>2. File(kind) \in Paths
    BY <1>4, <2>1 DEF File, Path, Paths, OutputFolder
  <2>3. File("private") # File("public")
    BY <1>4 DEF File, Path
  <2> QED BY <1>2, <2>2, <2>3 DEF Openable
<1> QED BY <1>1, <1>3, <1>4

\* A listing is what a file can hold, and grows with the pairs it lists.
LEMMA ListingType ==
  ASSUME NEW kind \in Kinds, NEW s \in Seq(1..MaxPairs)
  PROVE  /\ Listing(kind, s) \in Seq(SUBSET Halves) /\ Listing(kind, s) # Absent
         /\ Len(Listing(kind, s)) = Len(s) /\ DOMAIN Listing(kind, s) = 1..Len(s)
         /\ \A x \in 1..MaxPairs :
              Append(Listing(kind, s), {Half(kind, x)}) = Listing(kind, Append(s, x))
<1>1. DOMAIN s = 1..Len(s) /\ Len(s) \in Nat /\ \A i \in 1..Len(s) : s[i] \in 1..MaxPairs
  BY ConstantsAssumption
<1>2. \A x \in 1..MaxPairs : {Half(kind, x)} \in SUBSET Halves
  BY DEF Half, Halves
<1>3. Listing(kind, s) \in [1..Len(s) -> SUBSET Halves]
  BY <1>1, <1>2 DEF Listing
<1>4. \A S, n, t : n \in Nat /\ t \in [1..n -> S] => t \in Seq(S) /\ Len(t) = n
  OBVIOUS
<1>5. Listing(kind, s) \in Seq(SUBSET Halves) /\ Len(Listing(kind, s)) = Len(s)
  BY <1>1, <1>3, <1>4, Zenon
<1>6. ASSUME NEW x \in 1..MaxPairs
      PROVE  Append(Listing(kind, s), {Half(kind, x)}) = Listing(kind, Append(s, x))
  <2> DEFINE l == Append(Listing(kind, s), {Half(kind, x)})
             r == Listing(kind, Append(s, x))
  <2>1. /\ Append(s, x) \in Seq(1..MaxPairs) /\ Len(Append(s, x)) = Len(s) + 1
        /\ DOMAIN Append(s, x) = 1..(Len(s) + 1)
        /\ \A i \in 1..Len(s) : Append(s, x)[i] = s[i]
        /\ Append(s, x)[Len(s) + 1] = x
    BY <1>1
  <2>2. l \in Seq(SUBSET Halves) /\ Len(l) = Len(s) + 1 /\ DOMAIN l = 1..(Len(s) + 1)
    BY <1>2, <1>5
  <2>3. ASSUME NEW i \in 1..(Len(s) + 1) PROVE l[i] = r[i]
    <3>1. CASE i \in 1..Len(s)
      <4>1. l[i] = Listing(kind, s)[i]
        BY <1>2, <1>5, <3>1
      <4> QED BY <1>1, <2>1, <3>1, <4>1 DEF Listing
    <3>2. CASE i = Len(s) + 1
      <4>1. l[i] = {Half(kind, x)}
        BY <1>2, <1>5, <3>2
      <4> QED BY <2>1, <3>2, <4>1 DEF Listing
    <3>3. i \in 1..Len(s) \/ i = Len(s) + 1
      BY <1>1
    <3> QED BY <3>1, <3>2, <3>3
  <2>4. r = [i \in 1..(Len(s) + 1) |-> {Half(kind, Append(s, x)[i])}]
    BY <2>1 DEF Listing
  <2>5. l = [i \in 1..(Len(s) + 1) |-> l[i]]
    BY <2>2
  <2> HIDE DEF l
  <2> QED BY <2>3, <2>4, <2>5 DEF l
<1> QED BY <1>1, <1>3, <1>5, <1>6, ConstantsAssumption

LEMMA ListingOfNone ==
  ASSUME NEW kind
  PROVE  Listing(kind, <<>>) = <<>>
BY DEF Listing

\* The pairs at hand: from the run's first on, or the one at pos if each has a file
\* of its own.
LEMMA ShareType ==
  ASSUME TypeOK, NEW n \in Nat, n = pos \/ n = pos - 1, n <= Len(pairs)
  PROVE  /\ Share(n) \in Seq(1..MaxPairs)
         /\ Len(Share(n)) = IF n = pos THEN Place ELSE Place - 1
         /\ ~options.merge /\ n = pos => Share(n) = <<pairs[n]>>
         /\ n = pos - 1 /\ pos <= Len(pairs) => Append(Share(n), pairs[pos]) = Share(pos)
         /\ pos <= Len(pairs) =>
              \A i \in DOMAIN Share(pos - 1) \cap DOMAIN Share(pos) :
                Share(pos - 1)[i] = Share(pos)[i]
<1> DEFINE a == IF options.merge THEN 1 ELSE pos
<1>1. /\ pairs \in Seq(1..MaxPairs) /\ pos \in Nat \ {0} /\ a \in Nat \ {0} /\ a <= n + 1
      /\ Len(pairs) \in Nat /\ a <= pos /\ pos - 1 \in Nat
  BY DEF TypeOK
<1>a. \A k : Share(k) = SubSeq(pairs, a, k)
  BY DEF Share
<1>c. Place = pos - a + 1
  BY <1>1 DEF Place
<1>d. ~options.merge => a = pos
  OBVIOUS
<1> HIDE DEF a
<1>b. ASSUME NEW k \in Nat, a <= k + 1, k <= Len(pairs)
      PROVE  /\ Share(k) \in Seq(1..MaxPairs) /\ Len(Share(k)) = k - a + 1
             /\ \A j \in 1..(k - a + 1) : Share(k)[j] = pairs[a + j - 1]
  <2>1. Share(k) = SubSeq(pairs, a, k)
    BY <1>a
  <2>2. /\ SubSeq(pairs, a, k) \in Seq(1..MaxPairs)
        /\ Len(SubSeq(pairs, a, k)) = k - a + 1
        /\ \A j \in 1..(k - a + 1) : SubSeq(pairs, a, k)[j] = pairs[a + j - 1]
    BY <1>1, <1>b, PartOf, ZenonT(30)
  <2> QED BY <2>1, <2>2
<1>2. Share(n) \in Seq(1..MaxPairs) /\ Len(Share(n)) = n - a + 1
  BY <1>1, <1>b
<1>3. Len(Share(n)) = IF n = pos THEN Place ELSE Place - 1
  BY <1>1, <1>2, <1>c
<1>5. ~options.merge /\ n = pos => Share(n) = <<pairs[n]>>
  <2> SUFFICES ASSUME ~options.merge, n = pos PROVE Share(n) = <<pairs[n]>>
    OBVIOUS
  <2>1. n - a + 1 = 1 /\ a + 1 - 1 = n /\ 1 \in 1..1
    BY <1>1, <1>d
  <2>2. /\ Share(n) \in Seq(1..MaxPairs) /\ Len(Share(n)) = n - a + 1
        /\ \A j \in 1..(n - a + 1) : Share(n)[j] = pairs[a + j - 1]
    BY <1>1, <1>b
  <2>3. Share(n)[1] = pairs[a + 1 - 1]
    BY <2>1, <2>2
  <2> QED BY <2>1, <2>2, <2>3
<1>6. n = pos - 1 /\ pos <= Len(pairs) => Append(Share(n), pairs[pos]) = Share(pos)
  <2> SUFFICES ASSUME n = pos - 1, pos <= Len(pairs)
               PROVE  Append(Share(n), pairs[pos]) = Share(pos)
    OBVIOUS
  <2>1. pos = n + 1
    BY <1>1
  <2>2. Append(SubSeq(pairs, a, n), pairs[n + 1]) = SubSeq(pairs, a, n + 1)
    BY <1>1, <2>1, PartGrows
  <2> QED BY <1>a, <2>1, <2>2
<1>7. ASSUME pos <= Len(pairs), NEW i \in DOMAIN Share(pos - 1) \cap DOMAIN Share(pos)
      PROVE  Share(pos - 1)[i] = Share(pos)[i]
  <2>1. /\ Len(Share(pos - 1)) = pos - a
        /\ \A k \in 1..(pos - a) : Share(pos - 1)[k] = pairs[a + k - 1]
        /\ Share(pos - 1) \in Seq(1..MaxPairs)
    <3>1. /\ pos - 1 \in Nat /\ pos - 1 <= Len(pairs)
          /\ a <= (pos - 1) + 1 /\ (pos - 1) - a + 1 = pos - a
      BY <1>1, <1>7
    <3> QED BY <1>b, <3>1
  <2>2. \A k \in 1..(pos - a + 1) : Share(pos)[k] = pairs[a + k - 1]
    <3>1. pos \in Nat /\ a <= pos + 1
      BY <1>1
    <3> QED BY <1>7, <1>b, <3>1
  <2> QED BY <1>1, <1>7, <2>1, <2>2
<1> QED BY <1>2, <1>3, <1>5, <1>6, <1>7

\* A merge shares all of its pairs.
LEMMA ShareEnds ==
  ASSUME TypeOK, options.merge
  PROVE  Share(Len(pairs)) = pairs
BY PartEnds DEF TypeOK, Share

\* What is written to a file keeps what was there, and may add a half to it.
LEMMA WrittenType ==
  ASSUME NEW c \in Seq(SUBSET Halves), NEW half \in Halves, Place \in Nat \ {0}
  PROVE  /\ Written(c, half) \in Seq(SUBSET Halves) /\ Written(c, half) # Absent
         /\ \A i \in DOMAIN c : i \in DOMAIN Written(c, half) /\ c[i] \subseteq Written(c, half)[i]
         /\ Len(c) = Place - 1 => Written(c, half) = Append(c, {half})
<1>1. Len(c) \in Nat /\ DOMAIN c = 1..Len(c) /\ {half} \in SUBSET Halves
  OBVIOUS
<1>2. CASE Len(c) < Place
  <2>1. Written(c, half) = Append(c, {half})
    BY <1>2 DEF Written
  <2>2. /\ Append(c, {half}) \in Seq(SUBSET Halves)
        /\ \A i \in 1..Len(c) : i \in DOMAIN Append(c, {half}) /\ Append(c, {half})[i] = c[i]
    BY <1>1
  <2> QED BY <1>1, <2>1, <2>2, ConstantsAssumption
<1>3. CASE ~(Len(c) < Place)
  <2>1. Place \in 1..Len(c) /\ c[Place] \cup {half} \in SUBSET Halves
    BY <1>1, <1>3
  <2>2. Written(c, half) = [c EXCEPT ![Place] = c[Place] \cup {half}]
    BY <1>3 DEF Written
  <2>3. /\ [c EXCEPT ![Place] = c[Place] \cup {half}] \in Seq(SUBSET Halves)
        /\ DOMAIN [c EXCEPT ![Place] = c[Place] \cup {half}] = 1..Len(c)
    BY <1>1, <2>1
  <2>4. \A i \in 1..Len(c) : c[i] \subseteq [c EXCEPT ![Place] = c[Place] \cup {half}][i]
    BY <1>1, <2>1
  <2>5. Len(c) # Place - 1
    BY <1>1, <1>3
  <2> QED BY <1>1, <2>2, <2>3, <2>4, <2>5, ConstantsAssumption
<1> QED BY <1>2, <1>3

------------------------------------------------------------------------------
(* Halves that match *)

\* what a file lists
Listed(content) == IF content = Absent THEN <<>> ELSE content

\* two files in which nothing but the halves of one pair is at one place
Fit(s, t) ==
  \A k \in DOMAIN s \cap DOMAIN t : \E pair \in 1..MaxPairs : s[k] \cup t[k] = Pair(pair)

\* Listings of the two kinds fit if they list the same pairs.
LEMMA ListingsFit ==
  ASSUME NEW s \in Seq(1..MaxPairs), NEW t \in Seq(1..MaxPairs), NEW kind \in Kinds,
         \A k \in DOMAIN s \cap DOMAIN t : s[k] = t[k]
  PROVE  Fit(Listing(kind, s), Listing(Other(kind), t))
<1> SUFFICES ASSUME NEW k \in DOMAIN s \cap DOMAIN t
             PROVE  Listing(kind, s)[k] \cup Listing(Other(kind), t)[k] = Pair(s[k])
                    /\ s[k] \in 1..MaxPairs
  <2>1. DOMAIN Listing(kind, s) = DOMAIN s /\ DOMAIN Listing(Other(kind), t) = DOMAIN t
    BY DEF Listing
  <2> QED BY <2>1 DEF Fit
<1>1. s[k] \in 1..MaxPairs /\ t[k] = s[k]
  BY ConstantsAssumption
<1>2. Listing(kind, s)[k] = {Half(kind, s[k])} /\ Listing(Other(kind), t)[k] = {Half(Other(kind), s[k])}
  BY <1>1 DEF Listing
<1>3. Kinds = {kind, Other(kind)}
  BY DEF Kinds, Other
<1>4. Pair(s[k]) = {Half(kind, s[k]), Half(Other(kind), s[k])}
  BY <1>3 DEF Pair
<1> QED BY <1>1, <1>2, <1>4

\* If a file changes and still fits the one that it was last opened with, all do.
LEMMA StillMatch ==
  ASSUME TypeOK, PairFilesMatch, NEW f \in Paths, NEW s, NEW g,
         files' = [files EXCEPT ![f] = s], partner' = [partner EXCEPT ![f] = g],
         g \in Paths /\ g # f /\ partner[g] = f => Fit(Listed(s), Listed(files[g]))
  PROVE  PairFilesMatch'
<1> SUFFICES ASSUME NEW p \in Paths, NEW q \in Paths, p # q, partner'[p] = q, partner'[q] = p
             PROVE  Fit(Entries(p)', Entries(q)')
  BY DEF PairFilesMatch, Fit
<1>1. \A r \in Paths : /\ r = f => files'[r] = s /\ partner'[r] = g
                       /\ r # f => files'[r] = files[r] /\ partner'[r] = partner[r]
  BY DEF TypeOK
<1>2. \A r \in Paths : Entries(r)' = Listed(files'[r]) /\ Entries(r) = Listed(files[r])
  BY DEF Entries, Listed
<1>3. \A a, b : Fit(a, b) => Fit(b, a)
  BY DEF Fit
<1>4. CASE p = f
  BY <1>1, <1>2, <1>4
<1>5. CASE q = f
  BY <1>1, <1>2, <1>3, <1>5
<1>6. CASE p # f /\ q # f
  <2>1. Fit(Entries(p), Entries(q))
    BY <1>1, <1>6 DEF PairFilesMatch, Fit
  <2> QED BY <1>1, <1>2, <1>6, <2>1
<1> QED BY <1>4, <1>5, <1>6

\* A run without force that is past the check writes to new files only.
LEMMA NoForceStillKeeps ==
  ASSUME TypeOK, NoForceKeepsFiles, Untouched, NEW kind \in Kinds, NEW s, Openable(kind),
         pc \in {"open", "openPublic", "write", "writePublic"},
         files' = [files EXCEPT ![File(kind)] = s],
         UNCHANGED <<options, before>>
  PROVE  NoForceKeepsFiles'
<1> SUFFICES ASSUME ~options.force, NEW p \in Paths, before[p] # Absent
             PROVE  files'[p] = before[p]
  BY DEF NoForceKeepsFiles
<1>1. before[File(kind)] = Absent
  BY DEF Untouched
<1>2. p # File(kind)
  BY <1>1
<1>3. files'[p] = files[p]
  BY <1>2 DEF TypeOK
<1> QED BY <1>3 DEF NoForceKeepsFiles

\* What a run writes to a file at hand leaves those it is done with as they were.
LEMMA BehindStays ==
  ASSUME FInv, NEW kind \in Kinds, NEW s, Running, ~options.merge,
         files' = [files EXCEPT ![File(kind)] = s] \/ UNCHANGED files
  PROVE  \A other \in Kinds, i \in 1..(pos - 1) :
           files'[Path(OutputFolder, other, i)] = Listing(other, <<pairs[i]>>)
<1> SUFFICES ASSUME NEW other \in Kinds, NEW i \in 1..(pos - 1)
             PROVE  files'[Path(OutputFolder, other, i)] = Listing(other, <<pairs[i]>>)
  OBVIOUS
<1>1. pos \in Nat \ {0}
  BY DEF FInv, TypeOK
<1>2. i \in 1..MaxAmount
  BY <1>1, ConstantsAssumption DEF FInv, Positions, TypeOK
<1>3. Path(OutputFolder, other, i) \in Paths
  BY <1>2 DEF Path, Paths, OutputFolder
<1>4. Path(OutputFolder, other, i) # File(kind)
  BY <1>1 DEF File, Path
<1>5. files'[Path(OutputFolder, other, i)] = files[Path(OutputFolder, other, i)]
  BY <1>3, <1>4 DEF FInv, TypeOK
<1> QED BY <1>5 DEF FInv, Behind

------------------------------------------------------------------------------
(* The invariant *)

\* Between two runs there is nothing to be kept but the types and the files.
LEMMA NothingRuns ==
  ASSUME pc = "idle", options = DefaultOptions, before = NoFiles
  PROVE  /\ Streams /\ AtHand /\ Apart /\ Behind /\ Untouched /\ NoForceKeepsFiles
         /\ Len(pairs) = 0 => Positions
BY ConstantsAssumption
   DEF Positions, Streams, AtHand, Apart, Behind, Untouched, Running, Writing,
       NoForceKeepsFiles, DefaultOptions

LEMMA NoFilesType ==
  /\ NoFiles \in [Paths -> Seq(SUBSET Halves) \cup {Absent}]
  /\ DefaultOptions \in Options
  /\ <<>> \in Seq(1..MaxPairs) /\ Len(<<>>) = 0
<1>1. DefaultOptions \in OptionsWith(FALSE, {Unnamed})
  BY ConstantsAssumption DEF DefaultOptions, OptionsWith
<1>2. NoFiles \in [Paths -> Seq(SUBSET Halves) \cup {Absent}]
  BY DEF NoFiles
<1>3. <<>> \in Seq(1..MaxPairs) /\ Len(<<>>) = 0
  OBVIOUS
<1> QED BY <1>1, <1>2, <1>3 DEF Options

\* At the beginning there are no files and nothing runs.
LEMMA InitHolds ==
  ASSUME Init
  PROVE  IInv
<1>1. TypeOK
  BY NoFilesType, ConstantsAssumption DEF Init, TypeOK, Kinds
<1>2. PairFilesMatch
  <2> SUFFICES ASSUME NEW p \in Paths
               PROVE  DOMAIN Entries(p) = {}
    BY DEF PairFilesMatch
  <2> QED BY DEF Init, NoFiles, Entries
<1>3. Len(pairs) = 0
  BY NoFilesType DEF Init
<1> QED BY <1>1, <1>2, <1>3, NothingRuns DEF Init, IInv, FInv

\* A run starts with the pairs it has generated and none written.
LEMMA StartKeeps ==
  ASSUME IInv, NEW o \in Options, Start(o)
  PROVE  IInv'
<1>1. o.amount \in 0..MaxAmount /\ o.amount \in Nat /\ o.merge \in BOOLEAN /\ generated \in Nat
  BY OptionsType DEF IInv, FInv, TypeOK
<1>2. pairs' \in Seq(1..MaxPairs) /\ Len(pairs') = o.amount
  <2>1. \A i \in 1..o.amount : generated + i \in 1..MaxPairs
    BY <1>1, ConstantsAssumption DEF Start
  <2>2. [i \in 1..o.amount |-> generated + i] \in [1..o.amount -> 1..MaxPairs]
    BY <2>1
  <2>3. pairs' = [i \in 1..o.amount |-> generated + i]
    BY DEF Start
  <2>4. \A S, n, t : n \in Nat /\ t \in [1..n -> S] => t \in Seq(S) /\ Len(t) = n
    OBVIOUS
  <2> QED BY <1>1, <2>2, <2>3, <2>4, Zenon
<1>3. TypeOK'
  <2>1. pos' \in 1..(Len(pairs') + 1)
    BY <1>1, <1>2 DEF Start
  <2>2. generated' \in 0..MaxPairs
    BY <1>1, ConstantsAssumption DEF Start
  <2>3. before' \in [Paths -> Seq(SUBSET Halves) \cup {Absent}]
    BY NoFilesType DEF Start, IInv, FInv, TypeOK
  <2>4. pc' \in {"check", "done"} /\ opened' \in SUBSET Kinds /\ options' \in Options
        /\ UNCHANGED <<files, partner>>
    BY DEF Start
  <2> QED BY <1>2, <2>1, <2>2, <2>3, <2>4 DEF IInv, FInv, TypeOK
<1>4. Positions'
  BY <1>1, <1>2, ConstantsAssumption DEF Start, Positions, Running, Writing
<1>5. Streams' /\ AtHand' /\ Apart' /\ Untouched'
  BY DEF Start, Streams, AtHand, Apart, Untouched, Writing
<1>6. Behind'
  BY <1>1 DEF Start, Behind, Running
<1>7. PairFilesMatch'
  BY DEF Start, IInv, PairFilesMatch, Entries
<1>8. NoForceKeepsFiles'
  BY DEF Start, NoForceKeepsFiles
<1> QED BY <1>3, <1>4, <1>5, <1>6, <1>7, <1>8 DEF IInv, FInv

\* A run that gives up has done nothing.
LEMMA GiveUpKeeps ==
  ASSUME IInv, GiveUp
  PROVE  IInv'
<1>1. TypeOK' /\ Positions' /\ Streams' /\ AtHand' /\ Apart' /\ Behind' /\ Untouched'
  BY DEF GiveUp, IInv, FInv, TypeOK, Positions, Streams, AtHand, Apart, Behind, Untouched,
         Running, Writing
<1>2. PairFilesMatch' /\ NoForceKeepsFiles'
  BY DEF GiveUp, IInv, PairFilesMatch, Entries, NoForceKeepsFiles
<1> QED BY <1>1, <1>2 DEF IInv, FInv

\* A run that ends, or is killed, leaves the files as they are.
LEMMA EndKeeps ==
  ASSUME IInv, Ended
  PROVE  IInv'
<1>1. TypeOK'
  BY NoFilesType DEF Ended, IInv, FInv, TypeOK
<1>2. PairFilesMatch'
  BY DEF Ended, IInv, PairFilesMatch, Entries
<1>3. /\ pc' = "idle" /\ options' = DefaultOptions /\ before' = NoFiles /\ Len(pairs') = 0
  BY NoFilesType DEF Ended
<1>4. Streams' /\ AtHand' /\ Apart' /\ Behind' /\ Untouched' /\ NoForceKeepsFiles' /\ Positions'
  BY <1>3, ConstantsAssumption
     DEF Positions, Streams, AtHand, Apart, Behind, Untouched, Running, Writing,
         NoForceKeepsFiles, DefaultOptions
<1> QED BY <1>1, <1>2, <1>4 DEF IInv, FInv

\* Past the check, a run without force writes to files that were not there.
LEMMA CheckKeeps ==
  ASSUME IInv, Check
  PROVE  IInv'
<1> USE DEF Check
<1>1. pc' \in {"failed", "open"}
  OBVIOUS
<1>2. TypeOK'
  BY <1>1 DEF IInv, FInv, TypeOK
<1>3. Positions' /\ Streams' /\ AtHand' /\ Apart'
  BY <1>1 DEF IInv, FInv, Positions, Streams, AtHand, Apart, Running, Writing
<1>4. Behind'
  BY <1>1 DEF IInv, FInv, Behind, Running, OutputFolder, Path, Listing
<1>5. Untouched'
  <2> SUFFICES ASSUME ~options.force, pc' = "open", NEW kind \in Kinds, Openable(kind)
               PROVE  before[File(kind)] = Absent
    BY <1>1 DEF Untouched, File, Openable
  <2>1. files[File(kind)] = Absent
    BY DEF Exists
  <2>2. File(kind) \in Paths
    BY FileIsPath DEF IInv, FInv, Positions, Running
  <2> QED BY <2>1, <2>2 DEF IInv, NoForceKeepsFiles
<1>6. PairFilesMatch'
  BY DEF IInv, PairFilesMatch, Entries
<1>7. NoForceKeepsFiles'
  BY DEF IInv, NoForceKeepsFiles
<1> QED BY <1>2, <1>3, <1>4, <1>5, <1>6, <1>7 DEF IInv, FInv

\* A file that is opened is empty, and fits every other.
LEMMA OpenKeepsFiles ==
  ASSUME IInv, pc \in {"open", "openPublic"}, NEW kind \in Kinds, Open(kind, Other(kind)),
         UNCHANGED <<before, options>>
  PROVE  /\ files' \in [Paths -> Seq(SUBSET Halves) \cup {Absent}]
         /\ partner' \in [Paths -> Paths \cup {Unnamed}] /\ opened' \in SUBSET Kinds
         /\ kind \in opened' <=> Openable(kind)
         /\ Other(kind) \in opened' <=> Other(kind) \in opened
         /\ Openable(kind) => /\ files'[File(kind)] = <<>>
                              /\ partner'[File(kind)] = File(Other(kind))
         /\ \A p \in Paths : p # File(kind) => files'[p] = files[p] /\ partner'[p] = partner[p]
         /\ files' = [files EXCEPT ![File(kind)] = <<>>] \/ UNCHANGED files
         /\ PairFilesMatch' /\ NoForceKeepsFiles'
<1>1. /\ FInv /\ TypeOK /\ PairFilesMatch /\ <<>> \in Seq(SUBSET Halves)
      /\ Other(kind) \in Kinds /\ Other(kind) # kind
  BY DEF IInv, FInv, Other, Kinds
<1>2. /\ Openable(kind) <=> File(kind) \in Paths
      /\ Openable(Other(kind)) <=> File(Other(kind)) \in Paths
  BY <1>1, FileIsPath DEF FInv, Positions, Running
<1>3. CASE Openable(kind)
  <2>1. /\ files' = [files EXCEPT ![File(kind)] = <<>>] /\ opened' = opened \cup {kind}
        /\ partner' = [partner EXCEPT ![File(kind)] = File(Other(kind))]
    BY <1>3 DEF Open
  <2>2. File(Other(kind)) \in Paths \cup {Unnamed}
    BY <1>2 DEF Openable
  <2>3. Fit(Listed(<<>>), Listed(files[File(Other(kind))]))
    BY DEF Listed, Fit
  <2>4. PairFilesMatch'
    BY <1>1, <1>2, <1>3, <2>1, <2>3, StillMatch
  <2>5. NoForceKeepsFiles'
    BY <1>1, <1>3, <2>1, NoForceStillKeeps DEF IInv
  <2>6. /\ files' \in [Paths -> Seq(SUBSET Halves) \cup {Absent}]
        /\ partner' \in [Paths -> Paths \cup {Unnamed}] /\ opened' \in SUBSET Kinds
        /\ files'[File(kind)] = <<>> /\ partner'[File(kind)] = File(Other(kind))
        /\ \A p \in Paths : p # File(kind) => files'[p] = files[p] /\ partner'[p] = partner[p]
    BY <1>1, <1>2, <1>3, <2>1, <2>2 DEF TypeOK
  <2> QED BY <1>1, <1>3, <2>1, <2>4, <2>5, <2>6
<1>4. CASE ~Openable(kind)
  <2>1. UNCHANGED <<files, partner>> /\ opened' = opened \ {kind}
    BY <1>4 DEF Open
  <2>2. PairFilesMatch' /\ NoForceKeepsFiles'
    BY <2>1 DEF IInv, PairFilesMatch, Entries, NoForceKeepsFiles
  <2> QED BY <1>1, <1>4, <2>1, <2>2 DEF TypeOK
<1> QED BY <1>3, <1>4

\* The private file at hand is emptied, if it can be opened at all.
LEMMA OpenPrivateKeeps ==
  ASSUME IInv, OpenPrivate
  PROVE  IInv'
<1>1. /\ pc = "open" /\ pc' = "openPublic" /\ "private" \in Kinds /\ Other("private") = "public"
      /\ UNCHANGED <<before, options, pairs, pos, generated>> /\ Open("private", "public")
      /\ FInv
  BY DEF OpenPrivate, Kinds, Other, IInv
<1>2. /\ files' \in [Paths -> Seq(SUBSET Halves) \cup {Absent}]
      /\ partner' \in [Paths -> Paths \cup {Unnamed}] /\ opened' \in SUBSET Kinds
      /\ "private" \in opened' <=> Openable("private")
      /\ Openable("private") => /\ files'[File("private")] = <<>>
                                /\ partner'[File("private")] = File("public")
      /\ files' = [files EXCEPT ![File("private")] = <<>>] \/ UNCHANGED files
      /\ PairFilesMatch' /\ NoForceKeepsFiles'
  BY <1>1, OpenKeepsFiles
<1>3. \A kind \in Kinds : File(kind)' = File(kind) /\ Openable(kind)' = Openable(kind)
  BY <1>1 DEF File, Openable
<1>4. TypeOK'
  BY <1>1, <1>2 DEF FInv, TypeOK
<1>5. Positions'
  BY <1>1 DEF FInv, Positions, Running, Writing
<1>6. Streams' /\ AtHand' /\ Apart'
  BY <1>1, <1>2, <1>3 DEF Streams, AtHand, Apart, Writing, File, Openable
<1>7. Behind'
  <2>1. ASSUME ~options.merge, NEW kind \in Kinds, NEW i \in 1..(pos - 1)
        PROVE  files'[Path(OutputFolder, kind, i)] = Listing(kind, <<pairs[i]>>)
    <3>1. Running /\ FInv
      BY <1>1 DEF Running
    <3> HIDE DEF Running, FInv
    <3> QED BY <1>1, <1>2, <2>1, <3>1, BehindStays, ZenonT(30)
  <2> QED BY <1>1, <2>1 DEF Behind, OutputFolder, Path, Listing
<1>8. Untouched'
  BY <1>1, <1>3 DEF IInv, Untouched
<1> QED BY <1>2, <1>4, <1>5, <1>6, <1>7, <1>8 DEF IInv, FInv

\* So is the public one; with no pairs to write that is all.
LEMMA OpenPublicKeeps ==
  ASSUME IInv, OpenPublic
  PROVE  IInv'
<1>1. /\ pc = "openPublic" /\ pc' = IF pairs = <<>> THEN "done" ELSE "write"
      /\ "public" \in Kinds /\ "private" \in Kinds /\ Kinds = {"private", "public"}
      /\ Other("public") = "private" /\ Other("private") = "public"
      /\ UNCHANGED <<before, options, pairs, pos, generated>> /\ Open("public", "private")
      /\ FInv
  BY DEF OpenPublic, Kinds, Other, IInv
<1>2. /\ files' \in [Paths -> Seq(SUBSET Halves) \cup {Absent}]
      /\ partner' \in [Paths -> Paths \cup {Unnamed}] /\ opened' \in SUBSET Kinds
      /\ "public" \in opened' <=> Openable("public")
      /\ "private" \in opened' <=> "private" \in opened
      /\ Openable("public") => /\ files'[File("public")] = <<>>
                               /\ partner'[File("public")] = File("private")
      /\ \A p \in Paths : p # File("public") => files'[p] = files[p] /\ partner'[p] = partner[p]
      /\ files' = [files EXCEPT ![File("public")] = <<>>] \/ UNCHANGED files
      /\ PairFilesMatch' /\ NoForceKeepsFiles'
  <2>1. Open("public", Other("public"))
    BY <1>1
  <2> QED BY <1>1, <2>1, OpenKeepsFiles, ZenonT(30)
<1>3. \A kind \in Kinds : File(kind)' = File(kind) /\ Openable(kind)' = Openable(kind)
  BY <1>1 DEF File, Openable
<1>4. /\ Len(pairs) \in Nat /\ pos \in Nat \ {0} /\ (pairs = <<>> <=> Len(pairs) = 0)
      /\ options.merge => pos = 1
      /\ ~options.merge => pos <= Len(pairs)
  BY <1>1 DEF FInv, TypeOK, Positions, Running
<1>5. \A kind \in Kinds : Openable(kind) => File(kind) \in Paths
  BY <1>1, <1>4, FileIsPath DEF FInv
<1>6. TypeOK'
  BY <1>1, <1>2 DEF FInv, TypeOK
<1>7. Positions'
  BY <1>1, <1>4 DEF FInv, Positions, Running, Writing
<1>8. Streams'
  <2>1. "private" \in opened <=> Openable("private")
    BY <1>1 DEF FInv, Streams
  <2> QED BY <1>1, <1>2, <1>3, <2>1 DEF Streams, Writing
<1>9. \A kind \in Kinds : Openable(kind) =>
        files'[File(kind)] = <<>> /\ partner'[File(kind)] = File(Other(kind))
  <2>1. Openable("private") =>
          files'[File("private")] = <<>> /\ partner'[File("private")] = File("public")
    <3> SUFFICES ASSUME Openable("private")
                 PROVE  files'[File("private")] = <<>> /\ partner'[File("private")] = File("public")
      OBVIOUS
    <3>1. CASE File("private") = File("public")
      <4>1. Openable("public")
        BY <3>1 DEF Openable
      <4> QED BY <1>2, <3>1, <4>1
    <3>2. CASE File("private") # File("public")
      <4>1. files[File("private")] = <<>> /\ partner[File("private")] = File("public")
        BY <1>1 DEF FInv, AtHand
      <4> QED BY <1>1, <1>2, <1>5, <3>2, <4>1
    <3> QED BY <3>1, <3>2
  <2> QED BY <1>1, <1>2, <2>1
<1>10. AtHand'
  <2>1. <<>> # Absent
    <3>1. <<>> \in Seq(SUBSET Halves)
      OBVIOUS
    <3> QED BY <3>1, ConstantsAssumption
  <2> QED BY <1>1, <1>3, <1>9, <2>1 DEF AtHand, Other
<1>11. Apart'
  <2> SUFFICES ASSUME pc' = "write", NEW kind \in Kinds, Openable(kind)
               PROVE  files'[File(kind)] = Listing(kind, Share(Progress(kind)'))
    BY <1>1, <1>3 DEF Apart, Share, Writing, Listing
  <2>1. Progress(kind)' = pos - 1
    BY <1>1 DEF Progress
  <2>2. Share(pos - 1) = <<>>
    <3>1. pos - 1 \in Nat /\ pos - 1 <= Len(pairs) /\ pos - 1 # pos
      BY <1>1, <1>4 DEF FInv, Positions
    <3>2. Place - 1 = 0
      BY <1>4 DEF Place
    <3>3. Share(pos - 1) \in Seq(1..MaxPairs) /\ Len(Share(pos - 1)) = Place - 1
      BY <1>1, <3>1, ShareType DEF FInv
    <3> QED BY <3>2, <3>3
  <2> QED BY <1>9, <2>1, <2>2, ListingOfNone
<1>12. Behind'
  <2>1. ASSUME ~options.merge, NEW kind \in Kinds, NEW i \in 1..(pos - 1)
        PROVE  files'[Path(OutputFolder, kind, i)] = Listing(kind, <<pairs[i]>>)
    <3>1. Running /\ FInv
      BY <1>1 DEF Running
    <3> HIDE DEF Running, FInv
    <3> QED BY <1>1, <1>2, <2>1, <3>1, BehindStays, ZenonT(30)
  <2>2. ASSUME pc' = "done", options.merge, NEW kind \in Kinds, options.name[kind] # Unnamed
        PROVE  files'[options.name[kind]] = Listing(kind, pairs)
    <3>1. pairs = <<>>
      BY <1>1, <2>2
    <3>2. Openable(kind) /\ File(kind) = options.name[kind]
      BY <2>2 DEF Openable, File
    <3> QED BY <1>9, <3>1, <3>2, ListingOfNone
  <2>3. options' = options /\ pos' = pos /\ pairs' = pairs
    BY <1>1
  <2> QED BY <2>1, <2>2, <2>3 DEF Behind, OutputFolder, Path, Listing
<1>13. Untouched'
  BY <1>1, <1>3 DEF IInv, Untouched
<1> QED BY <1>2, <1>6, <1>7, <1>8, <1>10, <1>11, <1>12, <1>13 DEF IInv, FInv

\* A file only grows by what is written to it: the half at hand, after those of the
\* same run, or over the other half if both streams have the same file.
LEMMA WriteKeepsFiles ==
  ASSUME IInv, Writing, NEW kind \in Kinds, Write(kind), UNCHANGED <<before, options>>,
         pc = IF kind = "private" THEN "write" ELSE "writePublic"
  PROVE  /\ pos \in 1..Len(pairs) /\ Len(pairs) \in Nat
         /\ files' \in [Paths -> Seq(SUBSET Halves) \cup {Absent}] /\ partner' = partner
         /\ \A k \in Kinds : Openable(k) => File(k) \in Paths /\ files'[File(k)] # Absent
         /\ File("private") # File("public") => \A k \in Kinds : Openable(k) =>
              files'[File(k)] = Listing(k, Share(IF k = kind THEN pos ELSE Progress(k)))
         /\ (\E s : files' = [files EXCEPT ![File(kind)] = s]) \/ UNCHANGED files
         /\ \A p \in Paths : \A i \in DOMAIN Entries(p) :
              i \in DOMAIN Entries(p)' /\ Entries(p)[i] \subseteq Entries(p)'[i]
         /\ PairFilesMatch' /\ NoForceKeepsFiles'
<1>1. /\ FInv /\ TypeOK /\ PairFilesMatch /\ NoForceKeepsFiles /\ Untouched /\ partner' = partner
      /\ Other(kind) \in Kinds /\ Other(kind) # kind /\ Kinds = {kind, Other(kind)}
      /\ {kind, Other(kind)} = {"private", "public"}
  BY DEF IInv, FInv, Other, Kinds, Write
<1>2. /\ pos \in 1..Len(pairs) /\ Len(pairs) \in Nat /\ pos - 1 \in Nat /\ pos \in Nat
      /\ Place \in Nat \ {0} /\ pairs[pos] \in 1..MaxPairs /\ pos - 1 # pos
  <2>1. /\ pos \in Nat \ {0} /\ pos <= Len(pairs) /\ Len(pairs) \in Nat
        /\ pairs \in Seq(1..MaxPairs)
    BY <1>1 DEF FInv, TypeOK, Positions
  <2>2. pairs[pos] \in 1..MaxPairs
    BY <2>1, ConstantsAssumption
  <2> QED BY <2>1, <2>2 DEF Place
<1>3. \A k \in Kinds : /\ Openable(k) <=> File(k) \in Paths
                       /\ Openable(k) => /\ files[File(k)] # Absent
                                         /\ partner[File(k)] = File(Other(k))
  BY <1>1, <1>2, FileIsPath DEF FInv, AtHand
<1>4. kind \in opened <=> Openable(kind)
  BY <1>1 DEF FInv, Streams
<1>5. \A p \in Paths : Entries(p) \in Seq(SUBSET Halves)
  BY <1>1 DEF Entries, TypeOK
<1>6. CASE ~Openable(kind)
  <2>1. files' = files
    BY <1>4, <1>6 DEF Write
  <2>2. PairFilesMatch' /\ NoForceKeepsFiles'
    BY <1>1, <2>1 DEF PairFilesMatch, Entries, NoForceKeepsFiles
  <2>3. \A p \in Paths : Entries(p)' = Entries(p)
    BY <2>1 DEF Entries
  <2>4. File("private") # File("public") => \A k \in Kinds : Openable(k) =>
          files'[File(k)] = Listing(k, Share(IF k = kind THEN pos ELSE Progress(k)))
    BY <1>1, <1>6, <2>1 DEF FInv, Apart
  <2> QED BY <1>1, <1>2, <1>3, <2>1, <2>2, <2>3, <2>4 DEF TypeOK
<1>7. CASE Openable(kind)
  <2> DEFINE f == File(kind)
             half == Half(kind, pairs[pos])
             s == Written(files[f], half)
  <2>1. f \in Paths /\ files[f] \in Seq(SUBSET Halves) /\ half \in Halves
    BY <1>1, <1>2, <1>3, <1>7 DEF TypeOK, Half, Halves
  <2>2. files' = [files EXCEPT ![f] = s]
    BY <1>4, <1>7 DEF Write
  <2>3. /\ s \in Seq(SUBSET Halves) /\ s # Absent
        /\ \A i \in DOMAIN files[f] : i \in DOMAIN s /\ files[f][i] \subseteq s[i]
        /\ Len(files[f]) = Place - 1 => s = Append(files[f], {half})
    BY <1>2, <2>1, WrittenType
  <2> HIDE DEF s, half, f
  <2>4. /\ files' \in [Paths -> Seq(SUBSET Halves) \cup {Absent}]
        /\ files'[f] = s /\ \A p \in Paths : p # f => files'[p] = files[p]
    BY <1>1, <2>1, <2>2, <2>3 DEF TypeOK
  <2>5. \A p \in Paths : \A i \in DOMAIN Entries(p) :
          i \in DOMAIN Entries(p)' /\ Entries(p)[i] \subseteq Entries(p)'[i]
    <3> SUFFICES ASSUME NEW p \in Paths, NEW i \in DOMAIN Entries(p)
                 PROVE  i \in DOMAIN Entries(p)' /\ Entries(p)[i] \subseteq Entries(p)'[i]
      OBVIOUS
    <3>1. CASE p = f
      <4>1. Entries(p) = files[f] /\ Entries(p)' = s
        BY <1>3, <1>7, <2>3, <2>4, <3>1 DEF Entries, f
      <4> QED BY <2>3, <4>1
    <3>2. CASE p # f
      <4>1. Entries(p)' = Entries(p)
        BY <2>4, <3>2 DEF Entries
      <4> QED BY <4>1
    <3> QED BY <3>1, <3>2
  <2>6. ASSUME File("private") # File("public")
        PROVE  /\ s = Listing(kind, Share(pos))
               /\ Openable(Other(kind)) =>
                    files[File(Other(kind))] = Listing(Other(kind), Share(Progress(Other(kind))))
    <3>1. \A k \in Kinds : Openable(k) => files[File(k)] = Listing(k, Share(Progress(k)))
      BY <1>1, <2>6 DEF FInv, Apart
    <3>2. Progress(kind) = pos - 1
      BY DEF Progress
    <3>3. files[f] = Listing(kind, Share(pos - 1))
      BY <1>7, <3>1, <3>2 DEF f
    <3>4. /\ Share(pos - 1) \in Seq(1..MaxPairs) /\ Len(Share(pos - 1)) = Place - 1
          /\ Append(Share(pos - 1), pairs[pos]) = Share(pos)
      <4>1. pos - 1 <= Len(pairs) /\ pos <= Len(pairs)
        BY <1>2
      <4> QED BY <1>1, <1>2, <4>1, ShareType
    <3>5. /\ Len(files[f]) = Place - 1
          /\ Append(files[f], {half}) = Listing(kind, Share(pos))
      <4>1. /\ Len(Listing(kind, Share(pos - 1))) = Len(Share(pos - 1))
            /\ \A x \in 1..MaxPairs : Append(Listing(kind, Share(pos - 1)), {Half(kind, x)})
                                        = Listing(kind, Append(Share(pos - 1), x))
        BY <3>4, ListingType
      <4> QED BY <1>2, <3>3, <3>4, <4>1 DEF half
    <3> QED BY <1>1, <2>3, <3>1, <3>5
  <2>7. PairFilesMatch'
    <3>1. ASSUME partner[f] \in Paths, partner[f] # f
          PROVE  Fit(Listed(s), Listed(files[partner[f]]))
      <4>1. partner[f] = File(Other(kind)) /\ Openable(Other(kind))
        BY <1>1, <1>3, <1>7, <3>1 DEF f
      <4>2. File("private") # File("public")
        BY <1>1, <3>1, <4>1 DEF f
      <4>3. /\ s = Listing(kind, Share(pos))
            /\ files[partner[f]] = Listing(Other(kind), Share(Progress(Other(kind))))
        BY <2>6, <4>1, <4>2
      <4>4. Progress(Other(kind)) = pos \/ Progress(Other(kind)) = pos - 1
        BY DEF Progress
      <4> DEFINE n == Progress(Other(kind))
      <4>5. n \in Nat /\ n <= Len(pairs) /\ (n = pos \/ n = pos - 1) /\ pos <= Len(pairs)
        BY <1>2, <4>4
      <4> HIDE DEF n
      <4>6. /\ Share(pos) \in Seq(1..MaxPairs) /\ Share(n) \in Seq(1..MaxPairs)
            /\ \A i \in DOMAIN Share(pos - 1) \cap DOMAIN Share(pos) :
                 Share(pos - 1)[i] = Share(pos)[i]
        BY <1>1, <1>2, <4>5, ShareType
      <4>7. \A i \in DOMAIN Share(pos) \cap DOMAIN Share(n) : Share(pos)[i] = Share(n)[i]
        BY <4>5, <4>6
      <4>8. Fit(s, files[partner[f]])
        BY <4>3, <4>6, <4>7, ListingsFit DEF n
      <4>9. Listed(s) = s /\ Listed(files[partner[f]]) = files[partner[f]]
        BY <1>1, <1>3, <2>3, <4>1 DEF Listed
      <4> QED BY <4>8, <4>9
    <3>2. partner' = [partner EXCEPT ![f] = partner[f]]
      BY <1>1 DEF TypeOK
    <3> QED BY <1>1, <2>1, <2>2, <3>1, <3>2, StillMatch
  <2>8. NoForceKeepsFiles'
    BY <1>1, <1>7, <2>2, NoForceStillKeeps DEF Writing, f
  <2>9. \A k \in Kinds : Openable(k) => File(k) \in Paths /\ files'[File(k)] # Absent
    BY <1>3, <2>3, <2>4
  <2>10. File("private") # File("public") => \A k \in Kinds : Openable(k) =>
           files'[File(k)] = Listing(k, Share(IF k = kind THEN pos ELSE Progress(k)))
    <3> SUFFICES ASSUME File("private") # File("public"), NEW k \in Kinds, Openable(k)
                 PROVE  files'[File(k)] = Listing(k, Share(IF k = kind THEN pos ELSE Progress(k)))
      OBVIOUS
    <3>1. CASE k = kind
      BY <2>4, <2>6, <3>1 DEF f
    <3>2. CASE k = Other(kind)
      <4>1. File(k) \in Paths /\ File(k) # f
        BY <1>1, <1>3, <3>2 DEF f
      <4> QED BY <1>1, <2>4, <2>6, <3>2, <4>1
    <3> QED BY <1>1, <3>1, <3>2
  <2> QED BY <1>1, <1>2, <2>2, <2>4, <2>5, <2>7, <2>8, <2>9, <2>10 DEF f
<1> QED BY <1>6, <1>7

\* The private half of the pair at hand is written.
LEMMA WritePrivateKeeps ==
  ASSUME IInv, WritePrivate
  PROVE  IInv'
<1>1. /\ pc = "write" /\ pc' = "writePublic" /\ Writing /\ Running
      /\ "private" \in Kinds /\ Kinds = {"private", "public"} /\ FInv /\ Write("private")
      /\ UNCHANGED <<before, options, pairs, pos, opened, generated>>
  BY DEF Kinds, Writing, Running, WritePrivate, IInv
<1>2. /\ files' \in [Paths -> Seq(SUBSET Halves) \cup {Absent}] /\ partner' = partner
      /\ \A k \in Kinds : Openable(k) => files'[File(k)] # Absent
      /\ File("private") # File("public") => \A k \in Kinds : Openable(k) =>
           files'[File(k)] = Listing(k, Share(IF k = "private" THEN pos ELSE Progress(k)))
      /\ (\E s : files' = [files EXCEPT ![File("private")] = s]) \/ UNCHANGED files
      /\ PairFilesMatch' /\ NoForceKeepsFiles'
  BY <1>1, WriteKeepsFiles
<1>3. /\ \A kind \in Kinds : /\ File(kind)' = File(kind) /\ Openable(kind)' = Openable(kind)
                             /\ Progress(kind)' = IF kind = "private" THEN pos ELSE Progress(kind)
      /\ \A n : Share(n)' = Share(n)
  BY <1>1 DEF File, Openable, Progress, Share
<1>4. TypeOK' /\ Positions' /\ Streams'
  BY <1>1, <1>2, <1>3 DEF FInv, TypeOK, Positions, Streams, Running, Writing
<1>5. AtHand'
  <2>1. \A kind \in Kinds : Openable(kind) => partner[File(kind)] = File(Other(kind))
    BY <1>1 DEF FInv, AtHand
  <2> QED BY <1>1, <1>2, <1>3, <2>1 DEF AtHand, Other
<1>6. Apart'
  <2> SUFFICES ASSUME File("private") # File("public"), NEW kind \in Kinds, Openable(kind)
               PROVE  files'[File(kind)] = Listing(kind, Share(Progress(kind)'))
    BY <1>1, <1>3 DEF Apart, Listing, Share
  <2> QED BY <1>2, <1>3
<1>7. Behind'
  <2>1. ASSUME ~options.merge, NEW kind \in Kinds, NEW i \in 1..(pos - 1)
        PROVE  files'[Path(OutputFolder, kind, i)] = Listing(kind, <<pairs[i]>>)
    BY <1>1, <1>2, <2>1, BehindStays
  <2> QED BY <1>1, <2>1 DEF Behind, OutputFolder, Path, Listing
<1>8. Untouched'
  BY <1>1, <1>3 DEF IInv, Untouched
<1> QED BY <1>2, <1>4, <1>5, <1>6, <1>7, <1>8 DEF IInv, FInv

\* The public half is written, and the run goes on to the next pair or ends.
LEMMA WritePublicKeeps ==
  ASSUME IInv, WritePublic
  PROVE  IInv'
<1>1. /\ pc = "writePublic" /\ Writing /\ Running /\ pos' = pos + 1
      /\ pc' = IF pos = Len(pairs) THEN "done" ELSE IF options.merge THEN "write" ELSE "check"
      /\ "private" \in Kinds /\ "public" \in Kinds /\ Kinds = {"private", "public"}
      /\ UNCHANGED <<before, options, pairs, opened, generated>> /\ FInv /\ Write("public")
  BY DEF Kinds, Writing, Running, WritePublic, IInv
<1>2. /\ pos \in 1..Len(pairs) /\ Len(pairs) \in Nat
      /\ files' \in [Paths -> Seq(SUBSET Halves) \cup {Absent}] /\ partner' = partner
      /\ \A k \in Kinds : Openable(k) => File(k) \in Paths /\ files'[File(k)] # Absent
      /\ File("private") # File("public") => \A k \in Kinds : Openable(k) =>
           files'[File(k)] = Listing(k, Share(IF k = "public" THEN pos ELSE Progress(k)))
      /\ (\E s : files' = [files EXCEPT ![File("public")] = s]) \/ UNCHANGED files
      /\ PairFilesMatch' /\ NoForceKeepsFiles'
  BY <1>1, WriteKeepsFiles
<1>3. Progress("private") = pos
  BY <1>1 DEF Progress
<1>4. File("private") # File("public") => \A k \in Kinds : Openable(k) =>
        files'[File(k)] = Listing(k, Share(pos))
  BY <1>1, <1>2, <1>3
<1>5. TypeOK'
  <2>1. pos' \in 1..(Len(pairs') + 1) /\ pc' \in {"write", "check", "done"}
    BY <1>1, <1>2
  <2> QED BY <1>1, <1>2, <2>1 DEF FInv, TypeOK
<1>6. Positions'
  BY <1>1, <1>2 DEF FInv, Positions, Running, Writing
<1>7. options.merge => /\ \A kind \in Kinds : File(kind)' = File(kind)
                       /\ \A kind \in Kinds : Openable(kind)' = Openable(kind)
                       /\ \A n : Share(n)' = Share(n)
  BY <1>1 DEF File, Openable, Share
<1>8. Streams'
  BY <1>1, <1>7 DEF FInv, Streams, Writing
<1>9. AtHand'
  <2>1. \A kind \in Kinds : Openable(kind) => partner[File(kind)] = File(Other(kind))
    BY <1>1 DEF FInv, AtHand
  <2> QED BY <1>1, <1>2, <1>7, <2>1 DEF AtHand, Writing, Other
<1>10. Apart'
  <2> SUFFICES ASSUME pc' = "write", options.merge, File("private") # File("public"),
                      NEW kind \in Kinds, Openable(kind)
               PROVE  files'[File(kind)] = Listing(kind, Share(Progress(kind)'))
    BY <1>1, <1>7 DEF Apart, Writing, Listing, Share
  <2>1. Progress(kind)' = pos
    BY <1>1, <1>2 DEF Progress
  <2> QED BY <1>4, <2>1
<1>11. Behind'
  <2>1. ASSUME ~options.merge, NEW kind \in Kinds, NEW i \in 1..pos
        PROVE  files'[Path(OutputFolder, kind, i)] = Listing(kind, <<pairs[i]>>)
    <3>1. CASE i = pos
      <4>1. File(kind) = Path(OutputFolder, kind, i)
        BY <2>1, <3>1 DEF File
      <4>2. Openable(kind) /\ File("private") # File("public")
        BY <1>1, <1>2, <2>1, FileIsPath DEF FInv
      <4>3. files'[File(kind)] = Listing(kind, Share(pos))
        BY <1>4, <4>2
      <4>4. Share(pos) = <<pairs[pos]>>
        <5>1. pos \in Nat /\ pos <= Len(pairs)
          BY <1>2
        <5> QED BY <1>1, <2>1, <5>1, ShareType DEF FInv
      <4> QED BY <3>1, <4>1, <4>3, <4>4
    <3>2. CASE i # pos
      <4>1. i \in 1..(pos - 1)
        BY <1>2, <3>2
      <4> QED BY <1>1, <1>2, <2>1, <4>1, BehindStays
    <3> QED BY <3>1, <3>2
  <2>2. ASSUME options.merge, options.name["private"] # options.name["public"], pc' = "done",
               NEW kind \in Kinds, options.name[kind] # Unnamed
        PROVE  files'[options.name[kind]] = Listing(kind, pairs)
    <3>1. /\ File(kind) = options.name[kind] /\ Openable(kind) /\ pos = Len(pairs)
          /\ File("private") # File("public")
      BY <1>1, <2>2 DEF File, Openable
    <3>2. Share(Len(pairs)) = pairs
      BY <1>1, <2>2, ShareEnds DEF FInv
    <3> QED BY <1>4, <3>1, <3>2
  <2>3. pos' - 1 = pos
    BY <1>1, <1>2
  <2> QED BY <1>1, <2>1, <2>2, <2>3 DEF Behind, OutputFolder, Path, Listing
<1>12. Untouched'
  BY <1>1, <1>7 DEF IInv, Untouched
<1> QED BY <1>2, <1>5, <1>6, <1>8, <1>9, <1>10, <1>11, <1>12 DEF IInv, FInv

LEMMA NextHolds == IInv /\ [Next]_vars => IInv'
<1> SUFFICES ASSUME IInv, [Next]_vars PROVE IInv'
  OBVIOUS
<1>1. CASE UNCHANGED vars
  <2>1. TypeOK' /\ Positions' /\ Streams' /\ Untouched'
    BY <1>1 DEF vars, IInv, FInv, TypeOK, Positions, Streams, Untouched, File, Openable,
                Running, Writing
  <2>2. /\ \A kind : /\ File(kind)' = File(kind) /\ Openable(kind)' = Openable(kind)
                     /\ Progress(kind)' = Progress(kind)
        /\ \A n : Share(n)' = Share(n)
        /\ UNCHANGED <<files, partner, pc>>
    BY <1>1 DEF vars, Share, Progress, File, Openable
  <2>5. AtHand' /\ Apart'
    BY <2>2 DEF IInv, FInv, AtHand, Apart, Writing, Listing, Other
  <2>3. Behind'
    BY <1>1 DEF vars, IInv, FInv, Behind, Running, OutputFolder, Path, Listing
  <2>4. PairFilesMatch' /\ NoForceKeepsFiles'
    BY <1>1 DEF vars, IInv, PairFilesMatch, Entries, NoForceKeepsFiles
  <2> QED BY <2>1, <2>3, <2>4, <2>5 DEF IInv, FInv
<1>2. CASE Exit \/ Crash
  BY <1>2, EndKeeps DEF Exit, Crash
<1> QED BY <1>1, <1>2, GiveUpKeeps, StartKeeps, CheckKeeps, OpenPrivateKeeps, OpenPublicKeeps,
           WritePrivateKeeps, WritePublicKeeps DEF Next

\* The invariant holds in every state of every sequence of runs.
THEOREM RunInvariant == Spec => []IInv
  BY InitHolds, NextHolds, PTL DEF Spec

------------------------------------------------------------------------------
(* Theorems about keygen *)

\* Every variable of keygen keeps its type.
THEOREM TypeCorrect == Spec => []TypeOK
<1>1. IInv => TypeOK
  BY DEF IInv, FInv
<1> QED BY <1>1, RunInvariant, PTL

\* Two files that were last opened for each other never hold anything but the halves
\* of one pair at one place, whatever files runs were given and wherever they were
\* killed.
THEOREM HalvesMatch == Spec => []PairFilesMatch
<1>1. IInv => PairFilesMatch
  BY DEF IInv
<1> QED BY <1>1, RunInvariant, PTL

\* A run without force leaves what was there when it started.
THEOREM NoForce == Spec => []NoForceKeepsFiles
<1>1. IInv => NoForceKeepsFiles
  BY DEF IInv
<1> QED BY <1>1, RunInvariant, PTL

\* A run that ends well has stored its pairs, each kind in its own named file.
THEOREM DoneWrites == Spec => []DoneMeansWritten
<1>1. IInv => DoneMeansWritten
  <2> SUFFICES ASSUME IInv, pc = "done", NEW kind \in Kinds,
                      ~(options.merge /\ options.name[kind] = Unnamed),
                      ~(options.merge /\ options.name["private"] = options.name["public"])
               PROVE  Stored(kind)
    BY DEF DoneMeansWritten
  <2>1. /\ pairs \in Seq(1..MaxPairs) /\ pos = Len(pairs) + 1 /\ Behind
        /\ Len(pairs) \in Nat /\ options.merge \in BOOLEAN
    BY OptionsType DEF IInv, FInv, TypeOK, Positions
  <2>2. CASE options.merge
    <3>1. files[options.name[kind]] = Listing(kind, pairs) /\ Listing(kind, pairs) # Absent
      BY <2>1, <2>2, ListingType DEF Behind
    <3>2. Openable(kind)
      BY <2>2 DEF Openable, File
    <3> QED BY <2>2, <3>1, <3>2 DEF Stored, Entries
  <2>3. CASE ~options.merge
    <3> SUFFICES ASSUME NEW i \in DOMAIN pairs
                 PROVE  Entries(Path(OutputFolder, kind, i)) = Listing(kind, <<pairs[i]>>)
      BY <2>3 DEF Stored
    <3>1. i \in 1..(pos - 1)
      BY <2>1
    <3>2. files[Path(OutputFolder, kind, i)] = Listing(kind, <<pairs[i]>>)
      BY <2>1, <2>3, <3>1 DEF Behind
    <3>3. <<pairs[i]>> \in Seq(1..MaxPairs)
      <4>1. pairs[i] \in 1..MaxPairs
        BY <2>1, ConstantsAssumption
      <4> QED BY <4>1
    <3>4. Listing(kind, <<pairs[i]>>) # Absent
      BY <3>3, ListingType
    <3> QED BY <3>2, <3>4 DEF Entries
  <2> QED BY <2>1, <2>2, <2>3
<1> QED BY <1>1, RunInvariant, PTL

------------------------------------------------------------------------------
(* The programs beside it *)

\* What a program has in its buffer is in its file, as long as nothing emptied that.
KeptReads ==
  \A p \in Programs : kept[p] /\ at[p] \in {"sized", "read", "up"} =>
    \A i \in DOMAIN key[p] :
      i \in DOMAIN Entries(KeyPath(p)) /\ key[p][i] \subseteq Entries(KeyPath(p))[i]

ProgramsType ==
  /\ at \in [Programs -> {"off", "open", "sized", "read", "up"}]
  /\ key \in [Programs -> Seq(SUBSET Halves)]
  /\ kept \in [Programs -> BOOLEAN]
  /\ \A p \in Programs : at[p] = "up" =>
       key[p] # <<>> /\ \E half \in Head(key[p]) : half[1] = Needed(p)

DInv == IInv /\ ProgramsType /\ KeptReads

LEMMA EntriesType ==
  ASSUME TypeOK, NEW p \in Programs
  PROVE  /\ KeyPath(p) \in Paths
         /\ Entries(KeyPath(p)) \in Seq(SUBSET Halves)
<1>1. KeyPath(p) \in Paths
  BY PemAssumption DEF Programs, KeyPath, Paths
<1>2. files[KeyPath(p)] \in Seq(SUBSET Halves) \cup {Absent}
  BY <1>1 DEF TypeOK
<1>3. <<>> \in Seq(SUBSET Halves)
  OBVIOUS
<1> QED BY <1>1, <1>2, <1>3, Zenon DEF Entries

LEMMA DInit == DeploymentInit => DInv
<1> SUFFICES ASSUME DeploymentInit PROVE DInv
  OBVIOUS
<1>1. ProgramsType
  BY DEF DeploymentInit, ProgramsType
<1>2. KeptReads
  BY DEF DeploymentInit, KeptReads
<1> QED BY <1>1, <1>2, InitHolds DEF DeploymentInit, DInv

\* A step of keygen empties a file or leaves in it what is there.
LEMMA FilesGrow ==
  ASSUME IInv, Next, NEW p \in Paths
  PROVE  \/ Entries(p)' = <<>>
         \/ \A i \in DOMAIN Entries(p) :
              i \in DOMAIN Entries(p)' /\ Entries(p)[i] \subseteq Entries(p)'[i]
<1>1. CASE UNCHANGED files
  BY <1>1 DEF Entries
<1>2. CASE OpenPrivate \/ OpenPublic
  <2>1. PICK kind \in Kinds : /\ Open(kind, Other(kind)) /\ UNCHANGED <<before, options>>
                              /\ pc \in {"open", "openPublic"}
    BY <1>2 DEF OpenPrivate, OpenPublic, Other, Kinds
  <2>2. CASE Openable(kind)
    <3>1. files'[File(kind)] = <<>> /\ (p # File(kind) => files'[p] = files[p])
      BY <2>1, <2>2, OpenKeepsFiles
    <3> QED BY <3>1 DEF Entries
  <2>3. CASE ~Openable(kind)
    BY <1>1, <2>1, <2>3 DEF Open
  <2> QED BY <2>2, <2>3
<1>3. CASE WritePrivate \/ WritePublic
  <2>1. PICK kind \in Kinds : /\ Write(kind) /\ UNCHANGED <<before, options>> /\ Writing
                              /\ pc = IF kind = "private" THEN "write" ELSE "writePublic"
    BY <1>3 DEF WritePrivate, WritePublic, Kinds, Writing
  <2> QED BY <2>1, WriteKeepsFiles
<1>4. CASE GiveUp \/ (\E o \in Options : Start(o)) \/ Check \/ Exit \/ Crash
  BY <1>1, <1>4 DEF GiveUp, Start, Check, Exit, Crash, Ended
<1> QED BY <1>2, <1>3, <1>4 DEF Next

\* keygen leaves the programs alone, and does not empty a file unseen.
LEMMA KeygenStepKeeps ==
  ASSUME DInv, KeygenStep
  PROVE  DInv'
<1>1. IInv' /\ Next /\ IInv
  BY NextHolds DEF KeygenStep, DInv
<1>2. /\ UNCHANGED <<at, key>>
      /\ \A p \in Programs : kept'[p] =
           (kept[p] /\ (Entries(KeyPath(p)) # <<>> => Entries(KeyPath(p))' # <<>>))
  BY DEF KeygenStep, KeyPath
<1>3. ProgramsType'
  BY DEF KeygenStep, DInv, ProgramsType, Needed
<1>4. KeptReads'
  <2> SUFFICES ASSUME NEW p \in Programs, kept'[p], at[p] \in {"sized", "read", "up"},
                      NEW i \in DOMAIN key[p]
               PROVE  /\ i \in DOMAIN Entries(KeyPath(p))'
                      /\ key[p][i] \subseteq Entries(KeyPath(p))'[i]
    BY <1>2 DEF KeptReads, KeyPath
  <2>1. kept[p] /\ (Entries(KeyPath(p)) # <<>> => Entries(KeyPath(p))' # <<>>)
    BY <1>2, <1>3 DEF DInv, ProgramsType
  <2>2. i \in DOMAIN Entries(KeyPath(p)) /\ key[p][i] \subseteq Entries(KeyPath(p))[i]
    BY <2>1 DEF DInv, KeptReads
  <2>3. Entries(KeyPath(p))' # <<>>
    <3>1. Entries(KeyPath(p)) # <<>>
      BY <2>2
    <3> QED BY <2>1, <3>1
  <2>4. KeyPath(p) \in Paths
    BY <1>1, EntriesType DEF IInv, FInv
  <2>5. /\ i \in DOMAIN Entries(KeyPath(p))'
        /\ Entries(KeyPath(p))[i] \subseteq Entries(KeyPath(p))'[i]
    BY <1>1, <2>2, <2>3, <2>4, FilesGrow DEF KeyPath
  <2> QED BY <2>2, <2>5
<1> QED BY <1>1, <1>3, <1>4 DEF DInv

\* A step of a program changes no file and nothing of the other program.
LEMMA ProgramStepKeeps ==
  ASSUME DInv, NEW p \in Programs, OpenKey(p) \/ SizeKey(p) \/ ReadKey(p) \/ UseKey(p) \/ Stop(p)
  PROVE  DInv'
<1>1. UNCHANGED vars
  BY DEF OpenKey, SizeKey, ReadKey, UseKey, Stop
<1>2. IInv'
  BY <1>1, NextHolds DEF DInv
<1>3. \A q : Entries(KeyPath(q))' = Entries(KeyPath(q))
  BY <1>1 DEF vars, Entries, KeyPath
<1>4. Entries(KeyPath(p)) \in Seq(SUBSET Halves)
  BY EntriesType DEF DInv, IInv, FInv
<1> DEFINE E == Entries(KeyPath(p))
<1>6. ProgramsType /\ KeptReads
  BY DEF DInv
<1>7. CASE OpenKey(p)
  <2>1. /\ at' = [at EXCEPT ![p] = "open"] /\ key' = key
        /\ kept' = [kept EXCEPT ![p] = TRUE]
    BY <1>7 DEF OpenKey, GoTo
  <2>2. ProgramsType'
    BY <1>6, <2>1 DEF ProgramsType, Needed
  <2>3. KeptReads'
    BY <1>3, <1>6, <2>1 DEF KeptReads, ProgramsType
  <2> QED BY <1>2, <2>2, <2>3 DEF DInv
<1>8. CASE SizeKey(p)
  <2> DEFINE sized == [i \in DOMAIN E |-> Padding]
  <2>1. /\ at' = [at EXCEPT ![p] = "sized"] /\ key' = [key EXCEPT ![p] = sized]
        /\ kept' = kept
    BY <1>8 DEF SizeKey, GoTo
  <2>2. sized \in Seq(SUBSET Halves)
    BY <1>4 DEF Padding
  <2>3. \A i \in DOMAIN sized : i \in DOMAIN E /\ sized[i] \subseteq E[i]
    BY DEF Padding
  <2> HIDE DEF sized, E
  <2>4. \A q \in Programs : /\ q # p => at'[q] = at[q] /\ key'[q] = key[q]
                            /\ q = p => at'[q] = "sized" /\ key'[q] = sized
    BY <1>6, <2>1 DEF ProgramsType
  <2>5. ProgramsType'
    <3>1. /\ at' \in [Programs -> {"off", "open", "sized", "read", "up"}]
          /\ key' \in [Programs -> Seq(SUBSET Halves)]
      BY <1>6, <2>1, <2>2 DEF ProgramsType
    <3> QED BY <1>6, <2>1, <2>4, <3>1 DEF ProgramsType, Needed
  <2>6. KeptReads'
    BY <1>3, <1>6, <2>1, <2>3, <2>4 DEF KeptReads, E
  <2> QED BY <1>2, <2>5, <2>6 DEF DInv
<1>9. CASE ReadKey(p)
  <2> DEFINE got == [i \in DOMAIN key[p] |-> IF i \in DOMAIN E THEN E[i] ELSE key[p][i]]
  <2>1. /\ at[p] = "sized" /\ at' = [at EXCEPT ![p] = "read"]
        /\ key' = [key EXCEPT ![p] = got] /\ kept' = kept
    BY <1>6, <1>9 DEF ReadKey, GoTo, ProgramsType
  <2>2. got \in Seq(SUBSET Halves)
    <3>1. key[p] \in Seq(SUBSET Halves)
      BY <1>6 DEF ProgramsType
    <3>2. \A i \in DOMAIN key[p] : (IF i \in DOMAIN E THEN E[i] ELSE key[p][i]) \in SUBSET Halves
      BY <1>4, <3>1
    <3>3. DOMAIN key[p] = 1..Len(key[p]) /\ Len(key[p]) \in Nat
      BY <3>1
    <3>4. got \in [1..Len(key[p]) -> SUBSET Halves]
      BY <3>2, <3>3
    <3>5. \A S, n, t : n \in Nat /\ t \in [1..n -> S] => t \in Seq(S)
      OBVIOUS
    <3> QED BY <3>3, <3>4, <3>5, Zenon
  <2>3. kept[p] => \A i \in DOMAIN got : i \in DOMAIN E /\ got[i] \subseteq E[i]
    <3> SUFFICES ASSUME kept[p], NEW i \in DOMAIN key[p]
                 PROVE  i \in DOMAIN E /\ got[i] \subseteq E[i]
      OBVIOUS
    <3>1. i \in DOMAIN E
      BY <1>6, <2>1 DEF KeptReads
    <3> QED BY <3>1
  <2> HIDE DEF got, E
  <2>4. \A q \in Programs : /\ q # p => at'[q] = at[q] /\ key'[q] = key[q]
                            /\ q = p => at'[q] = "read" /\ key'[q] = got
    BY <1>6, <2>1 DEF ProgramsType
  <2>5. ProgramsType'
    <3>1. /\ at' \in [Programs -> {"off", "open", "sized", "read", "up"}]
          /\ key' \in [Programs -> Seq(SUBSET Halves)]
      BY <1>6, <2>1, <2>2 DEF ProgramsType
    <3> QED BY <1>6, <2>1, <2>4, <3>1 DEF ProgramsType, Needed
  <2>6. KeptReads'
    BY <1>3, <1>6, <2>1, <2>3, <2>4 DEF KeptReads, E
  <2> QED BY <1>2, <2>5, <2>6 DEF DInv
<1>10. CASE UseKey(p)
  <2>1. /\ at[p] = "read" /\ key[p] # <<>> /\ \E half \in Head(key[p]) : half[1] = Needed(p)
        /\ at' = [at EXCEPT ![p] = "up"] /\ UNCHANGED <<key, kept>>
    BY <1>10 DEF UseKey, GoTo
  <2>2. \A q \in Programs : /\ q # p => at'[q] = at[q]
                            /\ q = p => at'[q] = "up"
    BY <1>6, <2>1 DEF ProgramsType
  <2>3. ProgramsType'
    <3>1. at' \in [Programs -> {"off", "open", "sized", "read", "up"}]
      BY <1>6, <2>1 DEF ProgramsType
    <3> QED BY <1>6, <2>1, <2>2, <3>1 DEF ProgramsType, Needed
  <2>4. KeptReads'
    BY <1>3, <1>6, <2>1, <2>2 DEF KeptReads
  <2> QED BY <1>2, <2>3, <2>4 DEF DInv
<1>11. CASE Stop(p)
  <2>1. /\ at' = [at EXCEPT ![p] = "off"] /\ key' = [key EXCEPT ![p] = <<>>]
        /\ kept' = [kept EXCEPT ![p] = FALSE]
    BY <1>11 DEF Stop, GoTo
  <2>2. \A q \in Programs : /\ q # p => at'[q] = at[q] /\ key'[q] = key[q] /\ kept'[q] = kept[q]
                            /\ q = p => at'[q] = "off" /\ kept'[q] = FALSE
    BY <1>6, <2>1 DEF ProgramsType
  <2>3. ProgramsType'
    <3>1. <<>> \in Seq(SUBSET Halves)
      OBVIOUS
    <3>2. /\ at' \in [Programs -> {"off", "open", "sized", "read", "up"}]
          /\ key' \in [Programs -> Seq(SUBSET Halves)] /\ kept' \in [Programs -> BOOLEAN]
      BY <1>6, <2>1, <3>1 DEF ProgramsType
    <3>3. \A q \in Programs : at'[q] = "up" => q # p /\ at[q] = "up" /\ key'[q] = key[q]
      BY <2>2
    <3>4. \A q \in Programs : Needed(q)' = Needed(q)
      BY DEF Needed
    <3> QED BY <1>6, <3>2, <3>3, <3>4 DEF ProgramsType
  <2>4. KeptReads'
    BY <1>3, <1>6, <2>2 DEF KeptReads
  <2> QED BY <1>2, <2>3, <2>4 DEF DInv
<1> QED BY <1>7, <1>8, <1>9, <1>10, <1>11

LEMMA DStep == DInv /\ [DeploymentNext]_allVars => DInv'
<1> SUFFICES ASSUME DInv, [DeploymentNext]_allVars PROVE DInv'
  OBVIOUS
<1>1. CASE UNCHANGED allVars
  <2>1. IInv'
    BY <1>1, NextHolds DEF DInv, allVars
  <2>2. ProgramsType'
    BY <1>1 DEF DInv, ProgramsType, allVars, programs, Needed
  <2>3. KeptReads'
    BY <1>1 DEF DInv, KeptReads, allVars, programs, vars, Entries, KeyPath
  <2> QED BY <2>1, <2>2, <2>3 DEF DInv
<1> QED BY <1>1, KeygenStepKeeps, ProgramStepKeeps DEF DeploymentNext

\* Beside the programs, keygen does what it does alone.
THEOREM DeploymentRunsKeygen == DeploymentSpec => Spec
<1>1. DeploymentInit => Init
  BY DEF DeploymentInit
<1>2. [DeploymentNext]_allVars => [Next]_vars
  <2> SUFFICES ASSUME [DeploymentNext]_allVars PROVE [Next]_vars
    OBVIOUS
  <2>1. KeygenStep => Next
    BY DEF KeygenStep
  <2>2. ASSUME NEW p \in Programs, OpenKey(p) \/ SizeKey(p) \/ ReadKey(p) \/ UseKey(p) \/ Stop(p)
        PROVE  UNCHANGED vars
    BY <2>2 DEF OpenKey, SizeKey, ReadKey, UseKey, Stop
  <2>3. UNCHANGED allVars => UNCHANGED vars
    BY DEF allVars
  <2> QED BY <2>1, <2>2, <2>3 DEF DeploymentNext
<1> QED BY <1>1, <1>2, PTL DEF DeploymentSpec, Spec

\* So what is proved of keygen holds while programs start and read its files.
THEOREM DeploymentKeepsFiles ==
  DeploymentSpec => [](TypeOK /\ PairFilesMatch /\ NoForceKeepsFiles /\ DoneMeansWritten)
BY DeploymentRunsKeygen, TypeCorrect, HalvesMatch, NoForce, DoneWrites, PTL

\* Whatever runs of keygen were made, killed or under way, a server and a client that
\* are up hold the two halves of one pair, if their files were last opened for each
\* other and not emptied since they opened them.
THEOREM StartedHalvesFit == DeploymentSpec => []HalvesFit
<1>1. DInv => HalvesFit
  <2> SUFFICES ASSUME DInv, \A p \in Programs : at[p] = "up" /\ kept[p],
                      partner[PrivatePem] = PublicPem, partner[PublicPem] = PrivatePem
               PROVE  \E pair \in 1..MaxPairs : /\ Half("private", pair) \in Head(key["server"])
                                                /\ Half("public", pair) \in Head(key["client"])
    BY DEF HalvesFit
  <2>1. /\ "server" \in Programs /\ "client" \in Programs /\ PrivatePem # PublicPem
        /\ KeyPath("server") = PrivatePem /\ KeyPath("client") = PublicPem
        /\ Needed("server") = "private" /\ Needed("client") = "public"
    BY PemAssumption DEF Programs, KeyPath, Needed
  <2> DEFINE a == Entries(PrivatePem)
             b == Entries(PublicPem)
  <2>2. PrivatePem \in Paths /\ PublicPem \in Paths
    BY <2>1, EntriesType DEF DInv, IInv, FInv
  <2>3. \A p \in Programs :
          /\ Head(key[p]) \in SUBSET Halves /\ \E half \in Head(key[p]) : half[1] = Needed(p)
          /\ 1 \in DOMAIN Entries(KeyPath(p)) /\ Head(key[p]) \subseteq Entries(KeyPath(p))[1]
    <3> SUFFICES ASSUME NEW p \in Programs
                 PROVE  /\ Head(key[p]) \in SUBSET Halves
                        /\ \E half \in Head(key[p]) : half[1] = Needed(p)
                        /\ 1 \in DOMAIN Entries(KeyPath(p))
                        /\ Head(key[p]) \subseteq Entries(KeyPath(p))[1]
      OBVIOUS
    <3>1. /\ key[p] \in Seq(SUBSET Halves) /\ key[p] # <<>>
          /\ \E half \in Head(key[p]) : half[1] = Needed(p)
      BY DEF DInv, ProgramsType
    <3>2. 1 \in DOMAIN key[p] /\ Head(key[p]) = key[p][1] /\ key[p][1] \in SUBSET Halves
      BY <3>1
    <3>3. 1 \in DOMAIN Entries(KeyPath(p)) /\ key[p][1] \subseteq Entries(KeyPath(p))[1]
      BY <3>2 DEF DInv, KeptReads
    <3> QED BY <3>1, <3>2, <3>3
  <2>4. PICK pair \in 1..MaxPairs : a[1] \cup b[1] = Pair(pair)
    <3>1. 1 \in DOMAIN a \cap DOMAIN b
      BY <2>1, <2>3
    <3> QED BY <2>1, <2>2, <3>1 DEF DInv, IInv, PairFilesMatch
  <2>5. ASSUME NEW p \in Programs
        PROVE  Half(Needed(p), pair) \in Head(key[p])
    <3>1. PICK half \in Head(key[p]) : half[1] = Needed(p)
      BY <2>3
    <3>2. half \in Pair(pair)
      <4>1. half \in Entries(KeyPath(p))[1]
        BY <2>3
      <4>2. KeyPath(p) = PrivatePem \/ KeyPath(p) = PublicPem
        BY DEF KeyPath
      <4> QED BY <2>4, <4>1, <4>2
    <3>3. half = Half(Needed(p), pair)
      BY <3>1, <3>2 DEF Pair, Half
    <3> QED BY <3>3
  <2> QED BY <2>1, <2>5
<1> QED BY <1>1, DInit, DStep, PTL DEF DeploymentSpec
=============================================================================
