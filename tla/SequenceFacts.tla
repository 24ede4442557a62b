---------------------------- MODULE SequenceFacts -----------------------------
(* Facts about sequences, and about sets of naturals, that the proofs share.    *)
EXTENDS Integers, Sequences, SequencesExt, WellFoundedInduction, TLAPS

\* A longer sequence keeps the elements of its beginning.
LEMMA ConcatKeeps ==
  ASSUME NEW S, NEW s \in Seq(S), NEW t \in Seq(S)
  PROVE  ToSet(s) \subseteq ToSet(s \o t)
<1>1. ASSUME NEW k \in DOMAIN s PROVE k \in DOMAIN (s \o t) /\ (s \o t)[k] = s[k]
  OBVIOUS
<1> QED BY <1>1 DEF ToSet

\* So does a sequence with an element more.
LEMMA AppendKeeps ==
  ASSUME NEW S, NEW s \in Seq(S), NEW e \in S
  PROVE  /\ ToSet(s) \subseteq ToSet(Append(s, e))
         /\ e \in ToSet(Append(s, e))
<1>1. ASSUME NEW k \in DOMAIN s PROVE k \in DOMAIN Append(s, e) /\ Append(s, e)[k] = s[k]
  OBVIOUS
<1>2. Len(s) + 1 \in DOMAIN Append(s, e) /\ Append(s, e)[Len(s) + 1] = e
  OBVIOUS
<1> QED BY <1>1, <1>2 DEF ToSet

\* What is in a sequence.
LEMMA InSequence ==
  ASSUME NEW S, NEW s \in Seq(S)
  PROVE  /\ \A e : e \in ToSet(s) <=> \E i \in 1..Len(s) : s[i] = e
         /\ ToSet(s) \subseteq S
         /\ Len(s) = 0 => ToSet(s) = {}
BY DEF ToSet

\* A sequence that gets an element it does not have stays without repetition.
LEMMA AppendNew ==
  ASSUME NEW S, NEW s \in Seq(S), NEW e \in S, IsInjective(s), e \notin ToSet(s)
  PROVE  IsInjective(Append(s, e))
<1>1. DOMAIN s = 1..Len(s) /\ DOMAIN Append(s, e) = 1..(Len(s) + 1)
  OBVIOUS
<1>2. \A k \in 1..Len(s) : Append(s, e)[k] = s[k] /\ s[k] # e
  BY DEF ToSet
<1>3. Append(s, e)[Len(s) + 1] = e
  OBVIOUS
<1> QED BY <1>1, <1>2, <1>3 DEF IsInjective

\* What a sequence holds once it has got another element.
LEMMA AppendHolds ==
  ASSUME NEW S, NEW s \in Seq(S), NEW e \in S
  PROVE  ToSet(Append(s, e)) = ToSet(s) \cup {e}
<1>1. DOMAIN s = 1..Len(s) /\ DOMAIN Append(s, e) = 1..(Len(s) + 1)
  OBVIOUS
<1>2. \A k \in 1..Len(s) : Append(s, e)[k] = s[k]
  OBVIOUS
<1>3. Append(s, e)[Len(s) + 1] = e
  OBVIOUS
<1> QED BY <1>1, <1>2, <1>3 DEF ToSet

\* What two sequences hold together.
LEMMA ConcatHolds ==
  ASSUME NEW S, NEW s \in Seq(S), NEW t \in Seq(S)
  PROVE  ToSet(s \o t) = ToSet(s) \cup ToSet(t)
<1>1. DOMAIN (s \o t) = 1..(Len(s) + Len(t)) /\ DOMAIN s = 1..Len(s) /\ DOMAIN t = 1..Len(t)
  OBVIOUS
<1>2. \A k \in 1..(Len(s) + Len(t)) :
        (s \o t)[k] = IF k <= Len(s) THEN s[k] ELSE t[k - Len(s)]
  OBVIOUS
<1>3. ToSet(s \o t) \subseteq ToSet(s) \cup ToSet(t)
  <2> SUFFICES ASSUME NEW k \in 1..(Len(s) + Len(t))
               PROVE  (s \o t)[k] \in ToSet(s) \cup ToSet(t)
    BY <1>1 DEF ToSet
  <2>1. CASE k <= Len(s)
    BY <1>1, <1>2, <2>1 DEF ToSet
  <2>2. CASE ~(k <= Len(s))
    <3>1. k - Len(s) \in 1..Len(t)
      BY <2>2
    <3> QED BY <1>1, <1>2, <2>2, <3>1 DEF ToSet
  <2> QED BY <2>1, <2>2
<1>4. ASSUME NEW j \in 1..Len(t) PROVE t[j] \in ToSet(s \o t)
  <2>1. Len(s) + j \in 1..(Len(s) + Len(t)) /\ (s \o t)[Len(s) + j] = t[j]
    OBVIOUS
  <2> QED BY <1>1, <2>1 DEF ToSet
<1> QED BY <1>1, <1>3, <1>4, ConcatKeeps DEF ToSet

\* Two sequences without repetition that share nothing have none together.
LEMMA ConcatNew ==
  ASSUME NEW S, NEW s \in Seq(S), NEW t \in Seq(S), IsInjective(s), IsInjective(t),
         ToSet(s) \cap ToSet(t) = {}
  PROVE  IsInjective(s \o t)
<1>1. DOMAIN (s \o t) = 1..(Len(s) + Len(t)) /\ DOMAIN s = 1..Len(s) /\ DOMAIN t = 1..Len(t)
  OBVIOUS
<1>2. \A k \in 1..Len(s) : (s \o t)[k] = s[k] /\ s[k] \in ToSet(s)
  BY <1>1 DEF ToSet
<1>3. ASSUME NEW k \in 1..(Len(s) + Len(t)), ~(k <= Len(s))
      PROVE  /\ k - Len(s) \in 1..Len(t) /\ (s \o t)[k] = t[k - Len(s)]
             /\ t[k - Len(s)] \in ToSet(t)
  <2>1. k - Len(s) \in 1..Len(t) /\ (s \o t)[k] = t[k - Len(s)]
    BY <1>3
  <2> QED BY <1>1, <2>1 DEF ToSet
<1> SUFFICES ASSUME NEW a \in 1..(Len(s) + Len(t)), NEW b \in 1..(Len(s) + Len(t)),
                    (s \o t)[a] = (s \o t)[b]
             PROVE  a = b
  BY <1>1 DEF IsInjective
<1>4. CASE a <= Len(s) /\ b <= Len(s)
  BY <1>1, <1>2, <1>4 DEF IsInjective
<1>5. CASE ~(a <= Len(s)) /\ ~(b <= Len(s))
  <2>1. a - Len(s) = b - Len(s)
    BY <1>1, <1>3, <1>5 DEF IsInjective
  <2> QED BY <2>1
<1>6. CASE a <= Len(s) /\ ~(b <= Len(s))
  BY <1>2, <1>3, <1>6
<1>7. CASE ~(a <= Len(s)) /\ b <= Len(s)
  BY <1>2, <1>3, <1>7
<1> QED BY <1>4, <1>5, <1>6, <1>7

\* Elements of a larger set.
LEMMA SeqMonotone ==
  ASSUME NEW S, NEW T, S \subseteq T, NEW s \in Seq(S)
  PROVE  s \in Seq(T)
<1>1. s = [i \in 1..Len(s) |-> s[i]] /\ Len(s) \in Nat
  OBVIOUS
<1>2. \A i \in 1..Len(s) : s[i] \in T
  OBVIOUS
<1>3. [i \in 1..Len(s) |-> s[i]] \in Seq(T)
  BY <1>1, <1>2
<1> QED BY <1>1, <1>3

\* What a part of a sequence is.
LEMMA PartOf ==
  ASSUME NEW S, NEW s \in Seq(S), NEW a \in Nat \ {0}, NEW n \in Nat,
         a <= n + 1, n <= Len(s)
  PROVE  /\ SubSeq(s, a, n) \in Seq(S)
         /\ Len(SubSeq(s, a, n)) = n - a + 1
         /\ \A i \in 1..(n - a + 1) : SubSeq(s, a, n)[i] = s[a + i - 1]
OBVIOUS

\* A part grows by the element that follows it.
LEMMA PartGrows ==
  ASSUME NEW S, NEW s \in Seq(S), NEW a \in Nat \ {0}, NEW n \in Nat,
         a <= n + 1, n + 1 <= Len(s)
  PROVE  Append(SubSeq(s, a, n), s[n + 1]) = SubSeq(s, a, n + 1)
<1> DEFINE t == SubSeq(s, a, n)
           u == SubSeq(s, a, n + 1)
<1>1. /\ t \in Seq(S) /\ Len(t) = n - a + 1
      /\ \A i \in 1..(n - a + 1) : t[i] = s[a + i - 1]
  BY PartOf
<1>2. /\ u \in Seq(S) /\ Len(u) = n - a + 2
      /\ \A i \in 1..(n - a + 2) : u[i] = s[a + i - 1]
  BY PartOf
<1>3. s[n + 1] \in S
  OBVIOUS
<1> HIDE DEF t, u
<1>4. /\ Append(t, s[n + 1]) \in Seq(S) /\ Len(Append(t, s[n + 1])) = Len(u)
      /\ \A i \in 1..Len(u) : Append(t, s[n + 1])[i] = u[i]
  BY <1>1, <1>2, <1>3
<1>5. Append(t, s[n + 1]) = u
  BY <1>2, <1>4
<1> QED BY <1>5 DEF t, u

\* The whole of a sequence, and none of it.
LEMMA PartEnds ==
  ASSUME NEW S, NEW s \in Seq(S)
  PROVE  SubSeq(s, 1, Len(s)) = s /\ SubSeq(s, 1, 0) = <<>>
OBVIOUS

------------------------------------------------------------------------------
(* Induction over the naturals, stated of the set of those for which a fact holds *)

Less == {p \in Nat \X Nat : p[1] < p[2]}

LEMMA LessWellFounded == IsWellFoundedOn(Less, Nat)
BY NatLessThanWellFounded DEF OpToRel, Less

\* A set of naturals that is not empty has a least element.
LEMMA Smallest ==
  ASSUME NEW T, T \subseteq Nat, T # {}
  PROVE  \E x \in T : \A y \in T : x <= y
<1>1. PICK x \in T : \A y \in T : ~(<<y, x>> \in Less)
  BY LessWellFounded, WFMin
<1>2. ASSUME NEW y \in T PROVE x <= y
  <2>1. x \in Nat /\ y \in Nat
    OBVIOUS
  <2>2. <<y, x>> \notin Less
    BY <1>1
  <2> QED BY <2>1, <2>2 DEF Less
<1> QED BY <1>2

LEMMA Induction ==
  ASSUME NEW T, 0 \in T, \A n \in Nat : n \in T => n + 1 \in T
  PROVE  Nat \subseteq T
<1> DEFINE R == Nat \ T
<1>1. SUFFICES ASSUME R # {} PROVE FALSE
  OBVIOUS
<1>2. PICK x \in R : \A y \in R : x <= y
  BY <1>1, Smallest
<1>3. x # 0 /\ x - 1 \in Nat /\ ~(x <= x - 1)
  OBVIOUS
<1>4. x - 1 \in T
  BY <1>2, <1>3
<1> QED BY <1>3, <1>4

------------------------------------------------------------------------------
(* FlattenSeq *)

\* f is how the first n sequences of ss are put together, one by one.
Joins(f, ss, n) ==
  f[0] = <<>> /\ \A k \in 1..n : f[k] = f[k - 1] \o ss[k]

LEMMA JoinExists ==
  ASSUME NEW S, NEW ss \in Seq(Seq(S)), NEW n \in 0..Len(ss)
  PROVE  \E f \in [0..n -> Seq(S)] : Joins(f, ss, n)
<1> DEFINE T == {m \in Nat : m <= Len(ss) => \E f \in [0..m -> Seq(S)] : Joins(f, ss, m)}
<1>1. 0 \in T
  <2>1. <<>> \in Seq(S)
    OBVIOUS
  <2>2. [k \in 0..0 |-> <<>>] \in [0..0 -> Seq(S)] /\ Joins([k \in 0..0 |-> <<>>], ss, 0)
    BY <2>1 DEF Joins
  <2> QED BY <2>2
<1>2. ASSUME NEW m \in Nat, m \in T PROVE m + 1 \in T
  <2> SUFFICES ASSUME m + 1 <= Len(ss)
               PROVE  \E f \in [0..(m + 1) -> Seq(S)] : Joins(f, ss, m + 1)
    OBVIOUS
  <2>1. PICK f \in [0..m -> Seq(S)] : Joins(f, ss, m)
    BY <1>2
  <2>2. ss[m + 1] \in Seq(S)
    OBVIOUS
  <2>3. f[m] \in Seq(S)
    BY <2>1
  <2>4. f[m] \o ss[m + 1] \in Seq(S)
    BY <2>2, <2>3
  <2> DEFINE g == [k \in 0..(m + 1) |-> IF k = m + 1 THEN f[m] \o ss[m + 1] ELSE f[k]]
  <2>5. \A k \in 0..m : g[k] = f[k] /\ k # m + 1
    OBVIOUS
  <2>6. g[m + 1] = f[m] \o ss[m + 1]
    OBVIOUS
  <2>7. g \in [0..(m + 1) -> Seq(S)]
    <3>1. \A k \in 0..(m + 1) : k = m + 1 \/ k \in 0..m
      OBVIOUS
    <3> QED BY <2>1, <2>4, <3>1
  <2> HIDE DEF g
  <2>8. Joins(g, ss, m + 1)
    <3>1. g[0] = <<>>
      BY <2>1, <2>5 DEF Joins
    <3>2. ASSUME NEW k \in 1..(m + 1) PROVE g[k] = g[k - 1] \o ss[k]
      <4>1. CASE k = m + 1
        <5>1. k - 1 = m /\ m \in 0..m
          BY <4>1
        <5> QED BY <2>5, <2>6, <4>1, <5>1
      <4>2. CASE k # m + 1
        <5>1. k \in 1..m /\ k \in 0..m /\ k - 1 \in 0..m
          BY <4>2
        <5> QED BY <2>1, <2>5, <5>1 DEF Joins
      <4> QED BY <4>1, <4>2
    <3> QED BY <3>1, <3>2 DEF Joins
  <2> QED BY <2>7, <2>8
<1>3. Nat \subseteq T
  <2> HIDE DEF T
  <2> QED BY <1>1, <1>2, Induction
<1>4. n \in Nat /\ n <= Len(ss)
  OBVIOUS
<1> QED BY <1>3, <1>4

\* FlattenSeq puts the sequences together in their order.
LEMMA FlattenJoins ==
  ASSUME NEW S, NEW ss \in Seq(Seq(S))
  PROVE  \E f \in [0..Len(ss) -> Seq(S)] : Joins(f, ss, Len(ss)) /\ FlattenSeq(ss) = f[Len(ss)]
<1> DEFINE n == Len(ss)
<1>1. PICK f \in [0..n -> Seq(S)] : Joins(f, ss, n)
  BY JoinExists
<1>2. f[0] = <<>> /\ n \in Nat
  BY <1>1 DEF Joins
<1>3. ASSUME NEW k \in 1..n
      PROVE  ss[k] \in Seq(S) /\ f[k] = f[k - 1] \o ss[k]
  <2>1. ss[k] \in Seq(S)
    OBVIOUS
  <2> HIDE DEF n
  <2>2. \A i \in 1..n : f[i] = f[i - 1] \o ss[i]
    BY <1>1 DEF Joins
  <2> QED BY <2>1, <2>2
<1>4. \A s \in Seq(S) : <<>> \o s = s
  OBVIOUS
<1>5. CASE n = 0
  <2>1. FlattenSeq(ss) = <<>>
    BY <1>5 DEF FlattenSeq
  <2> QED BY <1>1, <1>2, <1>5, <2>1
<1>6. CASE n # 0
  <2> DEFINE E(g) == g = [i \in 1..n |-> IF i = 1 THEN ss[i] ELSE g[i - 1] \o ss[i]]
             c == CHOOSE g : E(g)
             h == [i \in 1..n |-> f[i]]
  <2>1. E(h)
    <3> HIDE DEF n
    <3>1. ASSUME NEW i \in 1..n
          PROVE  f[i] = IF i = 1 THEN ss[i] ELSE h[i - 1] \o ss[i]
      <4>1. CASE i = 1
        <5>1. f[1] = f[0] \o ss[1] /\ ss[1] \in Seq(S)
          <6>1. 1 \in 1..n /\ 1 - 1 = 0
            BY <4>1
          <6> QED BY <1>3, <6>1
        <5> QED BY <1>2, <1>4, <4>1, <5>1
      <4>2. CASE i # 1
        <5>1. i - 1 \in 1..n
          BY <1>2, <4>2
        <5>2. h[i - 1] = f[i - 1]
          BY <5>1
        <5> QED BY <1>3, <4>2, <5>2
      <4> QED BY <4>1, <4>2
    <3> QED BY <3>1
  <2>2. E(c)
    <3> HIDE DEF E
    <3> QED BY <2>1
  <2>3. FlattenSeq(ss) = c[n]
    BY <1>6 DEF FlattenSeq
  <2> DEFINE T == {m \in Nat : m + 1 <= n => c[m + 1] = f[m + 1]}
  <2> HIDE DEF c
  <2>4. 0 \in T
    <3> SUFFICES ASSUME 1 <= n PROVE c[1] = f[1]
      OBVIOUS
    <3>1. c[1] = ss[1]
      BY <2>2
    <3>2. 1 \in 1..n /\ 1 - 1 = 0
      BY <1>2
    <3>3. f[1] = f[0] \o ss[1] /\ ss[1] \in Seq(S)
      BY <1>3, <3>2
    <3> QED BY <1>2, <1>4, <3>1, <3>3
  <2>5. ASSUME NEW m \in Nat, m \in T PROVE m + 1 \in T
    <3> SUFFICES ASSUME m + 1 + 1 <= n PROVE c[m + 1 + 1] = f[m + 1 + 1]
      OBVIOUS
    <3>1. m + 1 + 1 \in 1..n /\ m + 1 + 1 # 1 /\ (m + 1 + 1) - 1 = m + 1 /\ m + 1 <= n
      OBVIOUS
    <3>2. c[m + 1] = f[m + 1]
      BY <2>5, <3>1
    <3>3. c[m + 1 + 1] = c[m + 1] \o ss[m + 1 + 1]
      BY <2>2, <3>1
    <3>4. f[m + 1 + 1] = f[m + 1] \o ss[m + 1 + 1]
      BY <1>3, <3>1
    <3> QED BY <3>2, <3>3, <3>4
  <2>6. n - 1 \in T
    <3>1. n - 1 \in Nat
      BY <1>2, <1>6
    <3> HIDE DEF T
    <3> QED BY <2>4, <2>5, <3>1, Induction
  <2>7. c[n] = f[n]
    BY <1>2, <1>6, <2>6
  <2> QED BY <1>1, <2>3, <2>7
<1> QED BY <1>5, <1>6
\* The sequences of a sequence put together make a sequence; none make none.
LEMMA FlattenType ==
  ASSUME NEW S, NEW ss \in Seq(Seq(S))
  PROVE  FlattenSeq(ss) \in Seq(S) /\ (ss = <<>> => FlattenSeq(ss) = <<>>)
<1>1. PICK f \in [0..Len(ss) -> Seq(S)] : Joins(f, ss, Len(ss)) /\ FlattenSeq(ss) = f[Len(ss)]
  BY FlattenJoins
<1>2. Len(ss) \in 0..Len(ss)
  OBVIOUS
<1>3. ss = <<>> => Len(ss) = 0
  OBVIOUS
<1> QED BY <1>1, <1>2, <1>3 DEF Joins

\* There is one way of putting sequences together.
LEMMA JoinUnique ==
  ASSUME NEW f, NEW g, NEW ss, NEW tt, NEW n \in Nat,
         Joins(f, ss, n), Joins(g, tt, n), \A k \in 1..n : ss[k] = tt[k]
  PROVE  f[n] = g[n]
<1> DEFINE T == {m \in Nat : m <= n => f[m] = g[m]}
<1>1. 0 \in T
  BY DEF Joins
<1>2. ASSUME NEW m \in Nat, m \in T PROVE m + 1 \in T
  <2> SUFFICES ASSUME m + 1 <= n PROVE f[m + 1] = g[m + 1]
    OBVIOUS
  <2>1. m + 1 \in 1..n /\ (m + 1) - 1 = m /\ f[m] = g[m]
    BY <1>2
  <2> QED BY <2>1 DEF Joins
<1>3. Nat \subseteq T
  <2> HIDE DEF T
  <2> QED BY <1>1, <1>2, Induction
<1> QED BY <1>3

\* A sequence more at the end is a sequence more in what they make together.
LEMMA FlattenAppend ==
  ASSUME NEW S, NEW ss \in Seq(Seq(S)), NEW s \in Seq(S)
  PROVE  FlattenSeq(Append(ss, s)) = FlattenSeq(ss) \o s
<1> DEFINE tt == Append(ss, s)
           n  == Len(ss)
<1>1. /\ tt \in Seq(Seq(S)) /\ n \in Nat /\ Len(tt) = n + 1 /\ tt[n + 1] = s
      /\ \A k \in 1..n : ss[k] = tt[k]
  OBVIOUS
<1>2. PICK f \in [0..n -> Seq(S)] : Joins(f, ss, n) /\ FlattenSeq(ss) = f[n]
  BY FlattenJoins
<1> HIDE DEF tt, n
<1>3. PICK g \in [0..Len(tt) -> Seq(S)] : Joins(g, tt, Len(tt)) /\ FlattenSeq(tt) = g[Len(tt)]
  BY <1>1, FlattenJoins
<1>4. Joins(g, tt, n)
  <2>1. \A k \in 1..n : k \in 1..Len(tt)
    BY <1>1
  <2> QED BY <1>3, <2>1 DEF Joins
<1>5. f[n] = g[n]
  BY <1>1, <1>2, <1>4, JoinUnique
<1>6. g[n + 1] = g[n] \o s
  <2>1. n + 1 \in 1..Len(tt) /\ (n + 1) - 1 = n
    BY <1>1
  <2> QED BY <1>1, <1>3, <2>1 DEF Joins
<1>7. FlattenSeq(tt) = FlattenSeq(ss) \o s
  BY <1>1, <1>2, <1>3, <1>5, <1>6
<1> QED BY <1>7 DEF tt

\* A sequence that is not empty is another one and its last element.
LEMMA LastApart ==
  ASSUME NEW S, NEW n \in Nat, NEW t \in Seq(S), Len(t) = n + 1
  PROVE  \E s \in Seq(S), e \in S : Len(s) = n /\ t = Append(s, e)
<1>1. SubSeq(t, 1, n) \in Seq(S) /\ Len(SubSeq(t, 1, n)) = n /\ t[n + 1] \in S
  OBVIOUS
<1>2. Append(SubSeq(t, 1, n), t[n + 1]) = SubSeq(t, 1, n + 1)
  BY PartGrows
<1>3. SubSeq(t, 1, n + 1) = t
  BY PartEnds
<1> QED BY <1>1, <1>2, <1>3
=============================================================================
