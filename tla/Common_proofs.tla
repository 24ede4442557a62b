---------------------------- MODULE Common_proofs -----------------------------
(* Theorems about what src/common/common.hpp does: KeyFile (read_key), and      *)
(* HexString (bytes_to_hex_str), for keys and bytes as many as there may be.    *)
EXTENDS KeyFile, SequenceFacts, FiniteSetTheorems

VARIABLES bytes_in, turn, digits_out

Hex == INSTANCE HexString WITH byte_view <- bytes_in, i <- turn, rv <- digits_out

------------------------------------------------------------------------------
(* Text mode: what is written is what is read *)

\* What a character becomes in the file.
Unit(c) == IF c = LF THEN <<CR, LF>> ELSE <<c>>

\* The file has what it had and the next character's bytes.
LEMMA WriteOne ==
  ASSUME Windows, NEW t \in Seq(Characters), NEW c \in Characters
  PROVE  /\ ToFile(t) \in Seq(Characters) /\ Unit(c) \in Seq(Characters)
         /\ ToFile(Append(t, c)) = ToFile(t) \o Unit(c)
<1> DEFINE U(s) == [k \in DOMAIN s |-> Unit(s[k])]
<1>1. \A e \in Characters : Unit(e) \in Seq(Characters)
  <2>1. CR \in Characters /\ LF \in Characters
    BY DEF Characters
  <2>2. \A e \in Characters : <<e>> \in Seq(Characters)
    OBVIOUS
  <2>3. <<CR, LF>> \in Seq(Characters)
    BY <2>1
  <2> QED BY <2>2, <2>3 DEF Unit
<1>2. ASSUME NEW s \in Seq(Characters)
      PROVE  U(s) \in Seq(Seq(Characters)) /\ Len(U(s)) = Len(s) /\ ToFile(s) = FlattenSeq(U(s))
  <2>1. U(s) = [k \in 1..Len(s) |-> Unit(s[k])] /\ Len(s) \in Nat
    OBVIOUS
  <2>2. \A k \in 1..Len(s) : Unit(s[k]) \in Seq(Characters)
    BY <1>1
  <2>3. U(s) \in Seq(Seq(Characters)) /\ Len(U(s)) = Len(s)
    <3> HIDE DEF Unit, U
    <3> QED BY <2>1, <2>2
  <2>4. ToFile(s) = FlattenSeq(U(s))
    BY DEF ToFile, Unit
  <2> QED BY <2>3, <2>4
<1>3. U(Append(t, c)) = Append(U(t), Unit(c))
  <2> HIDE DEF Unit
  <2>1. DOMAIN t = 1..Len(t) /\ DOMAIN Append(t, c) = 1..(Len(t) + 1) /\ Len(t) \in Nat
    OBVIOUS
  <2>2. \A k \in 1..(Len(t) + 1) : Append(t, c)[k] = IF k = Len(t) + 1 THEN c ELSE t[k]
    OBVIOUS
  <2> QED BY <2>1, <2>2, <1>1, <1>2
<1>4. Append(t, c) \in Seq(Characters)
  OBVIOUS
<1>5. FlattenSeq(Append(U(t), Unit(c))) = FlattenSeq(U(t)) \o Unit(c)
  BY <1>1, <1>2, FlattenAppend
<1>6. ToFile(t) \in Seq(Characters)
  BY <1>2, FlattenType
<1> HIDE DEF U, Unit
<1> QED BY <1>1, <1>2, <1>3, <1>4, <1>5, <1>6

\* The bytes of a file that are kept of it.
Kept(bytes) ==
  [k \in DOMAIN bytes |->
     IF k < Len(bytes) /\ bytes[k] = CR /\ bytes[k + 1] = LF THEN <<>> ELSE <<bytes[k]>>]

LEMMA KeptType ==
  ASSUME Windows, NEW b \in Seq(Characters)
  PROVE  /\ Kept(b) \in Seq(Seq(Characters)) /\ Len(Kept(b)) = Len(b)
         /\ FromFile(b) = FlattenSeq(Kept(b)) /\ FromFile(b) \in Seq(Characters)
<1>1. DOMAIN b = 1..Len(b) /\ Len(b) \in Nat /\ \A k \in 1..Len(b) : <<b[k]>> \in Seq(Characters)
  OBVIOUS
<1>2. <<>> \in Seq(Characters)
  OBVIOUS
<1>3. /\ Kept(b) \in Seq(Seq(Characters)) /\ Len(Kept(b)) = Len(b)
  BY <1>1, <1>2 DEF Kept
<1>4. FromFile(b) = FlattenSeq(Kept(b))
  BY DEF FromFile, Kept
<1> QED BY <1>3, <1>4, FlattenType

\* A byte that is not a "\n" leaves those before it as they are read.
LEMMA ReadOther ==
  ASSUME Windows, NEW b \in Seq(Characters), NEW c \in Characters, c # LF
  PROVE  /\ Kept(Append(b, c)) = Append(Kept(b), <<c>>)
         /\ FromFile(Append(b, c)) = Append(FromFile(b), c)
<1> DEFINE d == Append(b, c)
           n == Len(b)
<1>1. /\ d \in Seq(Characters) /\ Len(d) = n + 1 /\ n \in Nat /\ d[n + 1] = c
      /\ \A k \in 1..n : d[k] = b[k]
      /\ DOMAIN b = 1..n /\ DOMAIN d = 1..(n + 1)
  OBVIOUS
<1>2. /\ Kept(b) \in Seq(Seq(Characters)) /\ Len(Kept(b)) = n /\ FromFile(b) = FlattenSeq(Kept(b))
      /\ FromFile(b) \in Seq(Characters)
  BY KeptType
<1>3. FromFile(d) = FlattenSeq(Kept(d)) /\ Kept(d) \in Seq(Seq(Characters)) /\ Len(Kept(d)) = n + 1
  BY <1>1, KeptType
<1> HIDE DEF d, n
<1>4. <<c>> \in Seq(Characters)
  OBVIOUS
<1>5. Kept(d) = Append(Kept(b), <<c>>)
  <2>1. ASSUME NEW k \in 1..n PROVE Kept(d)[k] = Kept(b)[k]
    <3>1. k \in 1..(n + 1) /\ k < n + 1 /\ d[k] = b[k] /\ (k = n => d[k + 1] # LF)
          /\ (k # n => k < n /\ d[k + 1] = b[k + 1])
      BY <1>1
    <3>2. Kept(d)[k] = IF d[k] = CR /\ d[k + 1] = LF THEN <<>> ELSE <<d[k]>>
      BY <1>1, <3>1 DEF Kept
    <3>3. Kept(b)[k] = IF k < n /\ b[k] = CR /\ b[k + 1] = LF THEN <<>> ELSE <<b[k]>>
      BY <1>1 DEF Kept, n
    <3> QED BY <3>1, <3>2, <3>3
  <2>2. Kept(d)[n + 1] = <<c>>
    BY <1>1 DEF Kept
  <2> QED BY <1>2, <1>3, <1>4, <2>1, <2>2
<1>6. FlattenSeq(Append(Kept(b), <<c>>)) = FlattenSeq(Kept(b)) \o <<c>>
  BY <1>2, <1>4, FlattenAppend
<1>7. FromFile(b) \o <<c>> = Append(FromFile(b), c)
  BY <1>2
<1>8. FromFile(d) = Append(FromFile(b), c)
  BY <1>2, <1>3, <1>5, <1>6, <1>7
<1> QED BY <1>5, <1>8 DEF d

\* A "\n" takes the "\r" before it with it.
LEMMA ReadLineEnd ==
  ASSUME Windows, NEW b \in Seq(Characters)
  PROVE  FromFile(Append(Append(b, CR), LF)) = Append(FromFile(b), LF)
<1> DEFINE r == Append(b, CR)
           d == Append(r, LF)
           n == Len(b)
<1>1. CR \in Characters /\ LF \in Characters /\ CR # LF
  BY DEF Characters, CR, LF
<1>2. /\ r \in Seq(Characters) /\ Len(r) = n + 1 /\ n \in Nat /\ r[n + 1] = CR
      /\ d \in Seq(Characters) /\ Len(d) = n + 2 /\ d[n + 2] = LF /\ d[n + 1] = CR
      /\ \A k \in 1..(n + 1) : d[k] = r[k]
      /\ DOMAIN r = 1..(n + 1) /\ DOMAIN d = 1..(n + 2)
  BY <1>1
<1>3. /\ Kept(b) \in Seq(Seq(Characters)) /\ Len(Kept(b)) = n /\ FromFile(b) = FlattenSeq(Kept(b))
      /\ FromFile(b) \in Seq(Characters)
  BY KeptType
<1>4. FromFile(d) = FlattenSeq(Kept(d)) /\ Kept(d) \in Seq(Seq(Characters)) /\ Len(Kept(d)) = n + 2
  BY <1>2, KeptType
<1>5. Kept(r) = Append(Kept(b), <<CR>>)
  BY <1>1, ReadOther
<1> HIDE DEF d, r, n
<1> DEFINE e == Append(Kept(b), <<>>)
<1>6. /\ <<>> \in Seq(Characters) /\ <<LF>> \in Seq(Characters) /\ <<CR>> \in Seq(Characters)
  BY <1>1
<1>7. e \in Seq(Seq(Characters)) /\ Len(e) = n + 1 /\ e[n + 1] = <<>> /\ \A k \in 1..n : e[k] = Kept(b)[k]
  BY <1>3, <1>6
<1>8. \A k \in 1..n : Kept(r)[k] = Kept(b)[k]
  BY <1>3, <1>5, <1>6
<1>9. Kept(d) = Append(e, <<LF>>)
  <2>1. ASSUME NEW k \in 1..n PROVE Kept(d)[k] = e[k]
    <3>1. /\ k \in 1..(n + 2) /\ k < n + 2 /\ d[k] = r[k]
          /\ k \in 1..(n + 1) /\ k < n + 1 /\ d[k + 1] = r[k + 1]
      BY <1>2
    <3>2. Kept(d)[k] = Kept(r)[k]
      BY <1>2, <3>1 DEF Kept
    <3> QED BY <1>7, <1>8, <3>2
  <2>2. Kept(d)[n + 1] = <<>>
    <3>1. n + 1 \in 1..(n + 2) /\ n + 1 < n + 2 /\ (n + 1) + 1 = n + 2
      BY <1>2
    <3> QED BY <1>2, <3>1 DEF Kept
  <2>3. Kept(d)[n + 2] = <<LF>>
    <3>1. n + 2 \in 1..(n + 2) /\ ~(n + 2 < n + 2)
      BY <1>2
    <3> QED BY <1>2, <3>1 DEF Kept
  <2> HIDE DEF e
  <2>4. /\ Append(e, <<LF>>) \in Seq(Seq(Characters)) /\ Len(Append(e, <<LF>>)) = n + 2
        /\ Append(e, <<LF>>)[n + 2] = <<LF>> /\ \A k \in 1..(n + 1) : Append(e, <<LF>>)[k] = e[k]
    BY <1>2, <1>6, <1>7
  <2>5. \A k \in 1..(n + 2) : k \in 1..n \/ k = n + 1 \/ k = n + 2
    BY <1>2
  <2>6. \A k \in 1..n : k \in 1..(n + 1)
    BY <1>2
  <2>7. n + 1 \in 1..(n + 1)
    BY <1>2
  <2>8. ASSUME NEW k \in 1..(n + 2) PROVE Kept(d)[k] = Append(e, <<LF>>)[k]
    <3>1. CASE k \in 1..n
      BY <2>1, <2>4, <2>6, <3>1
    <3>2. CASE k = n + 1
      BY <1>7, <2>2, <2>4, <2>7, <3>2
    <3>3. CASE k = n + 2
      BY <2>3, <2>4, <3>3
    <3> QED BY <2>5, <3>1, <3>2, <3>3
  <2> QED BY <1>4, <2>4, <2>8
<1>10. FlattenSeq(e) = FlattenSeq(Kept(b)) \o <<>>
  BY <1>3, <1>6, FlattenAppend
<1>11. FlattenSeq(Kept(d)) = FlattenSeq(e) \o <<LF>>
  <2> HIDE DEF e
  <2> QED BY <1>6, <1>7, <1>9, FlattenAppend
<1>12. FromFile(b) \o <<>> = FromFile(b) /\ FromFile(b) \o <<LF>> = Append(FromFile(b), LF)
  BY <1>1, <1>3
<1>13. FromFile(d) = Append(FromFile(b), LF)
  BY <1>3, <1>4, <1>10, <1>11, <1>12
<1> QED BY <1>13 DEF d, r

\* What is read back after a character more has been written.
LEMMA ReadUnit ==
  ASSUME Windows, NEW b \in Seq(Characters), NEW c \in Characters
  PROVE  FromFile(b \o Unit(c)) = Append(FromFile(b), c)
<1>1. CR \in Characters /\ LF \in Characters
  BY DEF Characters
<1>2. CASE c = LF
  <2>1. b \o <<CR, LF>> = Append(Append(b, CR), LF)
    BY <1>1
  <2> QED BY <1>2, <2>1, ReadLineEnd DEF Unit
<1>3. CASE c # LF
  <2>1. b \o <<c>> = Append(b, c)
    OBVIOUS
  <2> QED BY <1>3, <2>1, ReadOther DEF Unit
<1> QED BY <1>2, <1>3

\* The empty text is the empty file.
LEMMA NoText ==
  ASSUME Windows
  PROVE  ToFile(<<>>) = <<>> /\ FromFile(<<>>) = <<>> /\ Len(<<>>) = 0
<1>1. <<>> \in Seq(Seq(Characters)) /\ Len(<<>>) = 0 /\ DOMAIN <<>> = {}
  OBVIOUS
<1>2. [k \in DOMAIN <<>> |-> IF <<>>[k] = LF THEN <<CR, LF>> ELSE <<(<<>>[k])>>] = <<>>
  BY <1>1
<1>3. Kept(<<>>) = <<>>
  BY <1>1 DEF Kept
<1>4. FromFile(<<>>) = FlattenSeq(Kept(<<>>))
  BY DEF FromFile, Kept
<1> QED BY <1>1, <1>2, <1>3, <1>4, FlattenType DEF ToFile

\* A line end more is one more.
LEMMA CountOne ==
  ASSUME NEW t \in Seq(Characters), NEW c \in Characters
  PROVE  /\ LineEnds(t) \in Nat
         /\ LineEnds(Append(t, c)) = LineEnds(t) + (IF c = LF THEN 1 ELSE 0)
<1> DEFINE L(s) == {k \in DOMAIN s : s[k] = LF}
           n == Len(t)
<1>1. /\ DOMAIN t = 1..n /\ DOMAIN Append(t, c) = 1..(n + 1) /\ n \in Nat
      /\ Append(t, c)[n + 1] = c /\ \A k \in 1..n : Append(t, c)[k] = t[k]
  OBVIOUS
<1>2. IsFiniteSet(L(t))
  <2>1. IsFiniteSet(1..n)
    BY <1>1, FS_Interval
  <2> QED BY <1>1, <2>1, FS_Subset
<1>3. Cardinality(L(t)) \in Nat
  BY <1>2, FS_CardinalityType
<1>4. n + 1 \notin L(t)
  BY <1>1
<1>5. L(Append(t, c)) = IF c = LF THEN L(t) \cup {n + 1} ELSE L(t)
  <2> HIDE DEF n
  <2> QED BY <1>1
<1>6. Cardinality(L(t) \cup {n + 1}) = Cardinality(L(t)) + 1
  BY <1>2, <1>4, FS_AddElement
<1>7. LineEnds(t) = Cardinality(L(t)) /\ LineEnds(Append(t, c)) = Cardinality(L(Append(t, c)))
  BY DEF LineEnds
<1> HIDE DEF L, n
<1> QED BY <1>3, <1>5, <1>6, <1>7

\* A text read from the file it was written to is the text, and the file is longer
\* by the text's line ends, for texts of any length.
LEMMA ThereAndBack ==
  ASSUME Windows, NEW text \in Seq(Characters)
  PROVE  /\ ToFile(text) \in Seq(Characters)
         /\ FromFile(ToFile(text)) = text
         /\ LineEnds(text) \in Nat
         /\ Len(ToFile(text)) = Len(text) + LineEnds(text)
<1> DEFINE Good(t) == /\ ToFile(t) \in Seq(Characters)
                      /\ FromFile(ToFile(t)) = t
                      /\ LineEnds(t) \in Nat
                      /\ Len(ToFile(t)) = Len(t) + LineEnds(t)
           T == {n \in Nat : \A t \in Seq(Characters) : Len(t) = n => Good(t)}
<1>1. 0 \in T
  <2>1. LineEnds(<<>>) = 0
    <3>1. {k \in DOMAIN <<>> : <<>>[k] = LF} = {}
      OBVIOUS
    <3> QED BY <3>1, FS_EmptySet DEF LineEnds
  <2>2. \A t \in Seq(Characters) : Len(t) = 0 => t = <<>>
    OBVIOUS
  <2>3. <<>> \in Seq(Characters)
    OBVIOUS
  <2>4. Good(<<>>)
    <3>1. ToFile(<<>>) = <<>> /\ FromFile(<<>>) = <<>> /\ Len(<<>>) = 0
      BY NoText
    <3>2. 0 \in Nat /\ 0 = 0 + 0
      OBVIOUS
    <3>3. FromFile(ToFile(<<>>)) = <<>> /\ Len(ToFile(<<>>)) = 0 /\ ToFile(<<>>) \in Seq(Characters)
      BY <2>3, <3>1
    <3> QED BY <2>1, <3>1, <3>2, <3>3
  <2> HIDE DEF Good
  <2> QED BY <2>2, <2>4
<1>2. ASSUME NEW n \in Nat, n \in T PROVE n + 1 \in T
  <2>1. ASSUME NEW t \in Seq(Characters), Len(t) = n + 1 PROVE Good(t)
    <3>1. PICK s \in Seq(Characters), c \in Characters : Len(s) = n /\ t = Append(s, c)
      BY <2>1, LastApart
    <3>2. Good(s)
      <4> HIDE DEF Good
      <4> QED BY <1>2, <3>1
    <3>3. Unit(c) \in Seq(Characters) /\ ToFile(t) = ToFile(s) \o Unit(c)
      BY <3>1, WriteOne
    <3>4. ToFile(t) \in Seq(Characters)
      BY <3>2, <3>3
    <3>5. FromFile(ToFile(t)) = t
      BY <3>1, <3>2, <3>3, ReadUnit
    <3>6. LineEnds(t) = LineEnds(s) + (IF c = LF THEN 1 ELSE 0)
      BY <3>1, CountOne
    <3>7. Len(Unit(c)) = 1 + (IF c = LF THEN 1 ELSE 0)
      BY DEF Unit
    <3>8. Len(ToFile(t)) = Len(ToFile(s)) + Len(Unit(c))
      BY <3>2, <3>3
    <3>9. Len(t) = Len(s) + 1 /\ Len(s) \in Nat
      BY <3>1
    <3> QED BY <3>2, <3>4, <3>5, <3>6, <3>7, <3>8, <3>9
  <2> HIDE DEF Good
  <2> QED BY <2>1
<1>3. Nat \subseteq T
  <2> HIDE DEF T
  <2> QED BY <1>1, <1>2, Induction
<1>4. Len(text) \in Nat
  OBVIOUS
<1>5. Good(text)
  <2> HIDE DEF Good
  <2> QED BY <1>3, <1>4
<1> QED BY <1>5

------------------------------------------------------------------------------
(* read_key *)

LEMMA ZerosType ==
  ASSUME NEW n \in Nat
  PROVE  /\ Zeros(n) \in Seq(Characters \cup {Zero})
         /\ Len(Zeros(n)) = n /\ DOMAIN Zeros(n) = 1..n /\ \A k \in 1..n : Zeros(n)[k] = Zero
BY DEF Zeros

LEMMA KeysAreTexts ==
  ASSUME NEW text \in Keys
  PROVE  text \in Seq(Characters)
BY ConstantsAssumption DEF Keys

LEMMA FileType ==
  ASSUME NEW text \in Seq(Characters)
  PROVE  ToFile(text) \in Seq(Characters) /\ FromFile(text) \in Seq(Characters)
<1>1. CASE Windows
  BY <1>1, ThereAndBack, KeptType
<1>2. CASE ~Windows
  BY <1>2 DEF ToFile, FromFile
<1> QED BY <1>1, <1>2

\* What read_key's buffer holds of what it can read: as much as fits, and zeros.
InBuffer(size, text) == [k \in DOMAIN Zeros(size) |-> IF k <= Len(text) THEN text[k] ELSE Zeros(size)[k]]

LEMMA BufferHolds ==
  ASSUME NEW text \in Seq(Characters), NEW extra \in Nat
  PROVE  InBuffer(Len(text) + extra, text) = text \o Zeros(extra)
<1> DEFINE n == Len(text)
           b == InBuffer(n + extra, text)
           c == text \o Zeros(extra)
<1>1. n \in Nat /\ n + extra \in Nat
  OBVIOUS
<1>2. DOMAIN b = 1..(n + extra) /\ \A k \in 1..(n + extra) : b[k] = IF k <= n THEN text[k] ELSE Zero
  BY <1>1, ZerosType DEF InBuffer
<1>3. text \in Seq(Characters \cup {Zero})
  BY SeqMonotone
<1>4. /\ c \in Seq(Characters \cup {Zero}) /\ Len(c) = n + extra
      /\ \A k \in 1..(n + extra) : c[k] = IF k <= n THEN text[k] ELSE Zeros(extra)[k - n]
  BY <1>3, ZerosType
<1>5. ASSUME NEW k \in 1..(n + extra), ~(k <= n) PROVE Zeros(extra)[k - n] = Zero
  <2>1. k - n \in 1..extra
    BY <1>1, <1>5
  <2> QED BY <2>1, ZerosType
<1>6. \A k \in 1..(n + extra) : b[k] = c[k]
  <2> HIDE DEF b, c, n
  <2> QED BY <1>2, <1>4, <1>5
<1>7. b = [k \in 1..(n + extra) |-> b[k]] /\ c = [k \in 1..(n + extra) |-> c[k]]
  <2>1. b = [k \in DOMAIN b |-> b[k]]
    BY DEF InBuffer
  <2> HIDE DEF b, c, n
  <2> QED BY <1>2, <1>4, <2>1
<1> HIDE DEF b, c, n
<1>8. b = c
  BY <1>6, <1>7
<1> QED BY <1>8 DEF b, c, n

\* What the file can hold, and what read_key has got of it.
Reading ==
  /\ file \in {Absent, <<>>, ToFile(written)}
  /\ at \in {"open", "sized", "returned"} => file \in {<<>>, ToFile(written)}
  /\ at = "sized" /\ ~rewritten => key = Zeros(Len(file))

KInv == TypeOK /\ Reading /\ KeyComesBack

LEMMA KInvInit == Init => KInv
<1> SUFFICES ASSUME Init PROVE KInv
  OBVIOUS
<1>1. <<>> \in Seq(Characters \cup {Zero})
  OBVIOUS
<1>2. TypeOK
  BY <1>1 DEF Init, TypeOK
<1>3. at = "out" /\ file = Absent
  BY DEF Init
<1>4. Reading /\ KeyComesBack
  BY <1>3 DEF Reading, KeyComesBack
<1> QED BY <1>2, <1>4 DEF KInv

LEMMA FileHolds ==
  ASSUME KInv
  PROVE  /\ written \in Seq(Characters) /\ ToFile(written) \in Seq(Characters) /\ <<>> \in Seq(Characters)
         /\ at \in {"open", "sized", "returned"} => file \in Seq(Characters)
<1>1. written \in Seq(Characters)
  BY KeysAreTexts DEF KInv, TypeOK
<1>2. ToFile(written) \in Seq(Characters)
  BY <1>1, FileType
<1>3. <<>> \in Seq(Characters)
  OBVIOUS
<1>4. at \in {"open", "sized", "returned"} => file \in {<<>>, ToFile(written)}
  BY DEF KInv, Reading
<1> QED BY <1>1, <1>2, <1>3, <1>4

\* What read_key returns.
LEMMA ReadReturns ==
  ASSUME KInv, ReadKey
  PROVE  /\ key' \in Seq(Characters \cup {Zero})
         /\ ~rewritten => key' = IF file = <<>> THEN <<>>
                                 ELSE written \o Zeros(IF Windows THEN LineEnds(written) ELSE 0)
<1> DEFINE text == FromFile(file)
<1>1. file \in Seq(Characters) /\ written \in Seq(Characters) /\ at = "sized"
  BY FileHolds DEF ReadKey
<1>2. text \in Seq(Characters) /\ key \in Seq(Characters \cup {Zero})
  BY <1>1, FileType DEF KInv, TypeOK
<1>3. key' = [k \in DOMAIN key |-> IF k <= Len(text) THEN text[k] ELSE key[k]]
  BY DEF ReadKey
<1>4. key' \in Seq(Characters \cup {Zero})
  <2> HIDE DEF text
  <2>1. DOMAIN key = 1..Len(key) /\ Len(key) \in Nat /\ \A k \in 1..Len(key) : key[k] \in Characters \cup {Zero}
    BY <1>2
  <2>2. \A k \in 1..Len(key) : k <= Len(text) => text[k] \in Characters
    BY <1>2
  <2> QED BY <1>3, <2>1, <2>2
<1>5. ASSUME ~rewritten
      PROVE  key' = IF file = <<>> THEN <<>>
                    ELSE written \o Zeros(IF Windows THEN LineEnds(written) ELSE 0)
  <2>1. key = Zeros(Len(file)) /\ Len(file) \in Nat
    BY <1>1, <1>5 DEF KInv, Reading
  <2>2. key' = InBuffer(Len(file), text)
    <3> HIDE DEF text
    <3> QED BY <1>3, <2>1 DEF InBuffer
  <2>3. CASE file = <<>>
    <3>1. DOMAIN key = {}
      BY <2>1, <2>3, ZerosType
    <3>2. key' = <<>>
      <4> HIDE DEF text
      <4> QED BY <1>3, <3>1
    <3> QED BY <2>3, <3>2
  <2>4. CASE file # <<>>
    <3> DEFINE extra == IF Windows THEN LineEnds(written) ELSE 0
    <3>1. file = ToFile(written)
      BY <1>1, <2>4 DEF KInv, Reading
    <3>2. text = written /\ extra \in Nat /\ Len(file) = Len(written) + extra
      <4>1. CASE Windows
        BY <1>1, <3>1, <4>1, ThereAndBack
      <4>2. CASE ~Windows
        <5>1. ToFile(written) = written /\ text = file
          BY <4>2 DEF ToFile, FromFile
        <5> QED BY <1>1, <3>1, <4>2, <5>1
      <4> QED BY <4>1, <4>2
    <3> HIDE DEF extra, text
    <3>3. key' = written \o Zeros(extra)
      BY <1>1, <2>2, <3>2, BufferHolds
    <3> QED BY <2>4, <3>3 DEF extra
  <2> QED BY <2>3, <2>4
<1> QED BY <1>4, <1>5

LEMMA KInvNext == KInv /\ [Next]_vars => KInv'
<1> SUFFICES ASSUME KInv, [Next]_vars PROVE KInv'
  OBVIOUS
<1> USE DEF KInv, TypeOK, Reading, KeyComesBack
<1>1. CASE Truncate
  <2>1. <<>> \in Seq(Characters)
    OBVIOUS
  <2> QED BY <1>1, <2>1 DEF Truncate
<1>2. CASE WriteKey
  <2>1. written' \in Keys /\ file' = ToFile(written')
    BY <1>2 DEF WriteKey
  <2>2. file' \in Seq(Characters)
    BY <2>1, KeysAreTexts, FileType
  <2> QED BY <1>2, <2>1, <2>2 DEF WriteKey
<1>3. CASE OpenKey
  BY <1>3 DEF OpenKey
<1>4. CASE Size
  <2>1. Len(file) \in Nat
    BY <1>4, FileHolds DEF Size
  <2>2. key' \in Seq(Characters \cup {Zero})
    BY <1>4, <2>1, ZerosType DEF Size
  <2> QED BY <1>4, <2>2 DEF Size
<1>5. CASE ReadKey
  <2>1. /\ at = "sized" /\ at' = "returned"
        /\ written' = written /\ file' = file /\ rewritten' = rewritten
    BY <1>5 DEF ReadKey
  <2>2. TypeOK' /\ Reading'
    BY <1>5, <2>1, ReadReturns
  <2>3. KeyComesBack'
    <3> HIDE DEF KInv
    <3> QED BY <1>5, <2>1, ReadReturns
  <2> QED BY <2>2, <2>3
<1>6. CASE Again
  <2>1. <<>> \in Seq(Characters \cup {Zero})
    OBVIOUS
  <2> QED BY <1>6, <2>1 DEF Again
<1>7. CASE UNCHANGED vars
  BY <1>7 DEF vars
<1> QED BY <1>1, <1>2, <1>3, <1>4, <1>5, <1>6, <1>7 DEF Next

\* read_key's file, buffer and step stay what they are declared to be, for keys of
\* any length and whether text mode translates or not.
THEOREM KeyFileTyped == Spec => []TypeOK
<1>1. KInv => TypeOK
  BY DEF KInv
<1> QED BY KInvInit, KInvNext, <1>1, PTL DEF Spec

\* A key read from a file at rest is the key as it was written, with a zero for each
\* of its line ends behind it on Windows, for keys of any length.
THEOREM KeyReadBack == Spec => []KeyComesBack
<1>1. KInv => KeyComesBack
  BY DEF KInv
<1> QED BY KInvInit, KInvNext, <1>1, PTL DEF Spec

------------------------------------------------------------------------------
(* bytes_to_hex_str *)

\* Both digits of a byte are digits, and the byte is what they say.
LEMMA TwoDigits ==
  ASSUME NEW b \in Hex!Bytes
  PROVE  /\ Hex!High(b) \in Hex!Digits /\ Hex!Low(b) \in Hex!Digits
         /\ 16 * Hex!High(b) + Hex!Low(b) = b
BY DEF Hex!Bytes, Hex!Digits, Hex!High, Hex!Low

\* What a sequence holds once two elements have been added to it.
LEMMA TwoMore ==
  ASSUME NEW S, NEW s \in Seq(S), NEW x \in S, NEW y \in S
  PROVE  /\ s \o <<x, y>> \in Seq(S)
         /\ Len(s \o <<x, y>>) = Len(s) + 2
         /\ \A k \in 1..Len(s) : (s \o <<x, y>>)[k] = s[k]
         /\ (s \o <<x, y>>)[Len(s) + 1] = x
         /\ (s \o <<x, y>>)[Len(s) + 2] = y
OBVIOUS

HInv == Hex!TypeOK /\ Hex!HexTellsBytes

LEMMA HInvInit == Hex!Init => HInv
<1> SUFFICES ASSUME Hex!Init PROVE HInv
  OBVIOUS
<1> QED BY DEF Hex!Init, HInv, Hex!TypeOK, Hex!HexTellsBytes

LEMMA HInvNext == HInv /\ [Hex!Loop]_Hex!vars => HInv'
<1> SUFFICES ASSUME HInv, [Hex!Loop]_Hex!vars PROVE HInv'
  OBVIOUS
<1>1. CASE Hex!Loop
  <2> DEFINE b == bytes_in[turn + 1]
  <2>1. /\ turn < Len(bytes_in) /\ turn \in Nat /\ turn' = turn + 1 /\ bytes_in' = bytes_in
        /\ bytes_in \in Seq(Hex!Bytes) /\ digits_out \in Seq(Hex!Digits)
        /\ digits_out' = digits_out \o <<Hex!High(b), Hex!Low(b)>>
    BY <1>1 DEF Hex!Loop, HInv, Hex!TypeOK
  <2>2. b \in Hex!Bytes
    BY <2>1
  <2>3. Hex!High(b) \in Hex!Digits /\ Hex!Low(b) \in Hex!Digits
    BY <2>2, TwoDigits
  <2>4. Len(digits_out) = 2 * turn
    BY DEF HInv, Hex!HexTellsBytes
  <2>5. /\ digits_out' \in Seq(Hex!Digits) /\ Len(digits_out') = 2 * turn'
        /\ \A k \in 1..(2 * turn) : digits_out'[k] = digits_out[k]
    <3>1. /\ digits_out' \in Seq(Hex!Digits) /\ Len(digits_out') = Len(digits_out) + 2
          /\ \A k \in 1..Len(digits_out) : digits_out'[k] = digits_out[k]
      BY <2>1, <2>3, TwoMore
    <3> HIDE DEF b
    <3> QED BY <2>1, <2>4, <3>1
  <2>6. digits_out'[2 * turn + 1] = Hex!High(b) /\ digits_out'[2 * turn + 2] = Hex!Low(b)
    BY <2>1, <2>3, <2>4, TwoMore
  <2>7. ASSUME NEW k \in 1..turn'
        PROVE  16 * digits_out'[2 * k - 1] + digits_out'[2 * k] = bytes_in'[k]
    <3>1. CASE k \in 1..turn
      <4>1. digits_out'[2 * k - 1] = digits_out[2 * k - 1] /\ digits_out'[2 * k] = digits_out[2 * k]
        BY <2>1, <2>5, <3>1
      <4> QED BY <2>1, <3>1, <4>1 DEF HInv, Hex!HexTellsBytes
    <3>2. CASE k = turn + 1
      <4>1. 2 * k - 1 = 2 * turn + 1 /\ 2 * k = 2 * turn + 2
        BY <2>1, <3>2
      <4>2. digits_out'[2 * k - 1] = Hex!High(b) /\ digits_out'[2 * k] = Hex!Low(b)
        BY <2>6, <4>1
      <4>3. bytes_in'[k] = b
        BY <2>1, <3>2
      <4> QED BY <2>2, <4>2, <4>3, TwoDigits
    <3>3. k \in 1..turn \/ k = turn + 1
      BY <2>1
    <3> QED BY <3>1, <3>2, <3>3
  <2> QED BY <2>1, <2>5, <2>7 DEF HInv, Hex!TypeOK, Hex!HexTellsBytes
<1>2. CASE UNCHANGED Hex!vars
  BY <1>2 DEF Hex!vars, HInv, Hex!TypeOK, Hex!HexTellsBytes
<1> QED BY <1>1, <1>2

\* The string is made of digits only, for every length of the input.
THEOREM HexTyped == Hex!Spec => []Hex!TypeOK
<1>1. HInv => Hex!TypeOK
  BY DEF HInv
<1> QED BY HInvInit, HInvNext, <1>1, PTL DEF Hex!Spec

\* The bytes can be read back from the string, for every length of the input.
THEOREM BytesReadBack == Hex!Spec => []Hex!HexTellsBytes
<1>1. HInv => Hex!HexTellsBytes
  BY DEF HInv
<1> QED BY HInvInit, HInvNext, <1>1, PTL DEF Hex!Spec
=============================================================================
