------------------------------ MODULE DataLemmas ------------------------------
(***************************************************************************)
(* Lemmas about the operators on numbers and sequences that the models are *)
(* built from: the least and the greatest element of a set, removal from a *)
(* sequence, what flattening a sequence of sequences returns and where it  *)
(* puts each of them, powers of two and the bits of a number, and the      *)
(* folds over sets and sequences.                                          *)
(*                                                                         *)
(* Induction is replaced by the least element: a non-empty set of natural  *)
(* numbers has one, and so has a non-empty set of finite sets, so that a   *)
(* property of all of them holds if the set of its counterexamples is      *)
(* empty.                                                                  *)
(***************************************************************************)
EXTENDS Integers, FiniteSetsExt, SequencesExt, SequenceTheorems,
        FiniteSetTheorems, FunctionTheorems, WellFoundedInduction, TLAPS

\* Every non-empty set of natural numbers has a least element.
LEMMA LeastNat ==
  ASSUME NEW S \in SUBSET Nat, S # {}
  PROVE  \E m \in S : \A k \in S : m <= k
<1>1. PICK m \in S : \A k \in S : ~ (<<k, m>> \in OpToRel(<, Nat))
  BY NatLessThanWellFounded, WFMin, Zenon
<1>2. \A k \in S : ~ (k < m)
  BY <1>1, Zenon DEF OpToRel
<1>. QED  BY <1>2

\* Min of a set of natural numbers is its least element.
LEMMA MinOfNats ==
  ASSUME NEW S \in SUBSET Nat, S # {}
  PROVE  Min(S) \in S /\ \A k \in S : Min(S) <= k
BY LeastNat DEF Min

\* Max of a bounded set of natural numbers is its greatest element.
LEMMA MaxOfNats ==
  ASSUME NEW b \in Nat, NEW S \in SUBSET (0..b), S # {}
  PROVE  Max(S) \in S /\ \A k \in S : k <= Max(S)
<1> DEFINE Mirror == {b - k : k \in S}
<1>0. \A k \in S : b - k \in Nat
  OBVIOUS
<1>1. Mirror \in SUBSET Nat /\ Mirror # {}
  BY <1>0, Zenon
<1>2. PICK m \in Mirror : \A k \in Mirror : m <= k
  BY <1>1, LeastNat
<1>3. PICK x \in S : m = b - x
  BY <1>2
<1>4. \A y \in S : x >= y
  BY <1>2, <1>3
<1>. QED  BY <1>4 DEF Max

-----------------------------------------------------------------------------
\* Removal of the entry at position i moves the later entries down by one.
LEMMA RemoveAtProperties ==
  ASSUME NEW T, NEW s \in Seq(T), NEW i \in 1..Len(s)
  PROVE  /\ RemoveAt(s, i) \in Seq(T)
         /\ Len(RemoveAt(s, i)) = Len(s) - 1
         /\ \A j \in 1..(Len(s) - 1) :
              RemoveAt(s, i)[j] = IF j < i THEN s[j] ELSE s[j + 1]
<1> DEFINE before == SubSeq(s, 1, i - 1)
           after == SubSeq(s, i + 1, Len(s))
<1>0. Len(s) \in Nat
  BY LenProperties
<1>1. /\ before \in Seq(T)
      /\ Len(before) = i - 1
      /\ \A j \in 1..(i - 1) : before[j] = s[j]
  BY <1>0, SubSeqProperties
<1>2. /\ after \in Seq(T)
      /\ Len(after) = Len(s) - i
      /\ \A j \in 1..(Len(s) - i) : after[j] = s[i + j]
  BY <1>0, SubSeqProperties
<1> HIDE DEF before, after
<1>3. /\ before \o after \in Seq(T)
      /\ Len(before \o after) = Len(s) - 1
      /\ \A j \in 1..(Len(s) - 1) :
           (before \o after)[j] = IF j <= i - 1 THEN before[j]
                                 ELSE after[j - (i - 1)]
  <2>1. Len(before) + Len(after) = Len(s) - 1
    BY <1>0, <1>1, <1>2
  <2>2. before \in Seq(T) /\ after \in Seq(T)
    BY <1>1, <1>2
  <2>3. /\ before \o after \in Seq(T)
        /\ Len(before \o after) = Len(before) + Len(after)
        /\ \A j \in 1..Len(before) + Len(after) :
             (before \o after)[j] = IF j <= Len(before) THEN before[j]
                                   ELSE after[j - Len(before)]
    BY <2>2, ConcatProperties, Zenon
  <2>. QED  BY <1>1, <2>1, <2>3
<1>4. \A j \in 1..(Len(s) - 1) :
        (before \o after)[j] = IF j < i THEN s[j] ELSE s[j + 1]
  <2> SUFFICES ASSUME NEW j \in 1..(Len(s) - 1)
               PROVE  (before \o after)[j] = IF j < i THEN s[j] ELSE s[j + 1]
    OBVIOUS
  <2>1. CASE j < i
    BY <1>0, <1>1, <1>3, <2>1
  <2>2. CASE ~ (j < i)
    <3>1. j - (i - 1) \in 1..(Len(s) - i) /\ i + (j - (i - 1)) = j + 1
      BY <1>0, <2>2
    <3>2. (before \o after)[j] = after[j - (i - 1)]
      BY <1>0, <1>3, <2>2
    <3>3. after[j - (i - 1)] = s[i + (j - (i - 1))]
      BY <1>2, <3>1, Zenon
    <3>. QED  BY <2>2, <3>1, <3>2, <3>3
  <2>. QED  BY <2>1, <2>2
<1>. QED  BY <1>3, <1>4 DEF RemoveAt, before, after

\* A prefix of a sequence.
LEMMA PrefixProperties ==
  ASSUME NEW T, NEW s \in Seq(T), NEW n \in 0..Len(s)
  PROVE  /\ SubSeq(s, 1, n) \in Seq(T)
         /\ Len(SubSeq(s, 1, n)) = n
         /\ \A j \in 1..n : SubSeq(s, 1, n)[j] = s[j]
<1>0. Len(s) \in Nat
  BY LenProperties
<1>. QED  BY <1>0, SubSeqProperties

\* Front drops the last entry.
LEMMA FrontProperties ==
  ASSUME NEW T, NEW s \in Seq(T), s # <<>>
  PROVE  /\ Front(s) \in Seq(T)
         /\ Len(Front(s)) = Len(s) - 1
         /\ \A j \in 1..(Len(s) - 1) : Front(s)[j] = s[j]
<1>1. Len(s) - 1 \in 0..Len(s)
  BY EmptySeq, LenProperties
<1>. QED  BY <1>1, PrefixProperties DEF Front

\* FlattenSeq appends the sequences one by one.  The recursive function that
\* defines it exists for every prefix, since no prefix is the shortest without
\* one, and no value of it is the first that is not a sequence over T.
LEMMA FlattenSeqSteps ==
  ASSUME NEW T, NEW s \in Seq(Seq(T)), Len(s) # 0
  PROVE  \E flat \in [1..Len(s) -> Seq(T)] :
           /\ FlattenSeq(s) = flat[Len(s)]
           /\ \A i \in 1..Len(s) :
                flat[i] = IF i = 1 THEN s[i] ELSE flat[i - 1] \o s[i]
<1>0. /\ Len(s) \in Nat
      /\ \A i \in 1..Len(s) : s[i] \in Seq(T)
  BY LenProperties, ElementOfSeq
<1> DEFINE IsFlat(f, n) ==
      f = [i \in 1..n |-> IF i = 1 THEN s[i] ELSE f[i - 1] \o s[i]]
    Lacking == {n \in 1..Len(s) : ~ \E f : IsFlat(f, n)}
<1>1. Lacking = {}
  <2>0. Lacking \in SUBSET Nat
    <3>1. Lacking \subseteq 1..Len(s)
      BY Zenon
    <3> HIDE DEF Lacking
    <3>. QED  BY <1>0, <3>1
  <2> SUFFICES ASSUME Lacking # {} PROVE FALSE
    OBVIOUS
  <2>1. PICK n \in Lacking : \A k \in Lacking : n <= k
    <3> HIDE DEF Lacking
    <3>. QED  BY <2>0, LeastNat
  <2>2. n \in 1..Len(s) /\ ~ \E f : IsFlat(f, n)
    BY <2>1, Zenon
  <2>3. \A k \in 1..Len(s) : k < n => \E f : IsFlat(f, k)
    <3>1. \A k \in 1..Len(s) : k \notin Lacking => \E f : IsFlat(f, k)
      BY Zenon
    <3> HIDE DEF Lacking
    <3>2. \A k \in 1..Len(s) : k < n => k \notin Lacking
      BY <1>0, <2>1, <2>2
    <3>. QED  BY <3>1, <3>2, Zenon
  <2> HIDE DEF Lacking
  <2>4. CASE n = 1
    <3>1. IsFlat([i \in 1..1 |-> s[1]], 1)
      OBVIOUS
    <3> HIDE DEF IsFlat
    <3>. QED  BY <2>2, <2>4, <3>1
  <2>5. CASE n # 1
    <3>1. n - 1 \in 1..Len(s) /\ n - 1 < n
      BY <1>0, <2>2, <2>5
    <3>2. PICK f : IsFlat(f, n - 1)
      BY <2>3, <3>1, Zenon
    <3> DEFINE g == [i \in 1..n |-> IF i = n THEN f[n - 1] \o s[n] ELSE f[i]]
    <3>3. \A i \in 1..n : i # 1 => g[i - 1] = f[i - 1]
      BY <1>0, <2>2
    <3>4. \A i \in 1..n : g[i] = IF i = 1 THEN s[i] ELSE g[i - 1] \o s[i]
      <4> SUFFICES ASSUME NEW i \in 1..n
                   PROVE  g[i] = IF i = 1 THEN s[i] ELSE f[i - 1] \o s[i]
        BY <3>3
      <4>1. CASE i = n
        BY <2>5, <4>1
      <4>2. CASE i # n
        <5>1. i \in 1..(n - 1)
          BY <1>0, <2>2, <4>2
        <5>2. f[i] = IF i = 1 THEN s[i] ELSE f[i - 1] \o s[i]
          BY <3>2, <5>1
        <5>. QED  BY <4>2, <5>2
      <4>. QED  BY <4>1, <4>2
    <3>5. IsFlat(g, n)
      BY <3>4
    <3> HIDE DEF IsFlat
    <3>. QED  BY <2>2, <3>5
  <2>. QED  BY <2>4, <2>5
<1>2. \E f : IsFlat(f, Len(s))
  <2>1. Len(s) \in 1..Len(s)
    BY <1>0
  <2>. QED  BY <1>1, <2>1, Zenon
<1> DEFINE flat == CHOOSE f : IsFlat(f, Len(s))
<1>3. IsFlat(flat, Len(s))
  BY <1>2, Zenon
<1>4. FlattenSeq(s) = flat[Len(s)]
  BY DEF FlattenSeq
<1> HIDE DEF flat, Lacking
<1>5. \A i \in 1..Len(s) :
        flat[i] = IF i = 1 THEN s[i] ELSE flat[i - 1] \o s[i]
  BY <1>3
<1> HIDE DEF IsFlat
<1> DEFINE Others == {i \in 1..Len(s) : flat[i] \notin Seq(T)}
<1>6. Others = {}
  <2>0. Others \in SUBSET Nat
    BY <1>0
  <2> SUFFICES ASSUME Others # {} PROVE FALSE
    OBVIOUS
  <2>1. PICK i \in Others : \A k \in Others : i <= k
    <3> HIDE DEF Others
    <3>. QED  BY <2>0, LeastNat
  <2>2. i \in 1..Len(s) /\ flat[i] \notin Seq(T)
    BY <2>1, Zenon
  <2>3. CASE i = 1
    BY <1>0, <1>5, <2>2, <2>3
  <2>4. CASE i # 1
    <3>1. i - 1 \in 1..Len(s)
      BY <1>0, <2>2, <2>4
    <3>2. i - 1 \notin Others
      <4>1. ~ (i <= i - 1)
        BY <1>0, <2>2
      <4>. QED  BY <2>1, <4>1, Zenon
    <3>3. flat[i - 1] \in Seq(T)
      BY <3>1, <3>2, Zenon
    <3>4. flat[i] = flat[i - 1] \o s[i]
      BY <1>5, <2>2, <2>4
    <3>. QED  BY <1>0, <2>2, <3>3, <3>4, ConcatProperties, ZenonT(40)
  <2>. QED  BY <2>3, <2>4
<1>7. \A i \in 1..Len(s) : flat[i] \in Seq(T)
  BY <1>6, Zenon
<1>8. flat \in [1..Len(s) -> Seq(T)]
  BY <1>3, <1>7 DEF IsFlat
<1>. QED  BY <1>4, <1>5, <1>8, Zenon

\* FlattenSeq of sequences over T is a sequence over T.
LEMMA FlattenSeqType ==
  ASSUME NEW T, NEW s \in Seq(Seq(T))
  PROVE  FlattenSeq(s) \in Seq(T)
<1>0. Len(s) \in Nat
  BY LenProperties
<1>1. CASE Len(s) = 0
  BY <1>1, EmptySeq DEF FlattenSeq
<1>2. CASE Len(s) # 0
  <2>1. PICK flat \in [1..Len(s) -> Seq(T)] : FlattenSeq(s) = flat[Len(s)]
    BY <1>2, FlattenSeqSteps, Zenon
  <2>2. Len(s) \in 1..Len(s)
    BY <1>0, <1>2
  <2>. QED  BY <2>1, <2>2
<1>. QED  BY <1>1, <1>2

\* Where FlattenSeq puts each of the sequences: after the ones before it.
LEMMA FlattenSeqPlaces ==
  ASSUME NEW T, NEW s \in Seq(Seq(T)), Len(s) # 0,
         NEW off \in [1..(Len(s) + 1) -> Nat], off[1] = 0,
         \A i \in 1..Len(s) : off[i + 1] = off[i] + Len(s[i])
  PROVE  /\ Len(FlattenSeq(s)) = off[Len(s) + 1]
         /\ \A i \in 1..Len(s) : \A x \in 1..Len(s[i]) :
              /\ off[i] + x <= off[Len(s) + 1]
              /\ FlattenSeq(s)[off[i] + x] = s[i][x]
<1>0. /\ Len(s) \in Nat
      /\ \A i \in 1..Len(s) : s[i] \in Seq(T) /\ Len(s[i]) \in Nat
  BY LenProperties, ElementOfSeq
<1>1. PICK flat \in [1..Len(s) -> Seq(T)] :
        /\ FlattenSeq(s) = flat[Len(s)]
        /\ \A i \in 1..Len(s) :
             flat[i] = IF i = 1 THEN s[i] ELSE flat[i - 1] \o s[i]
  BY FlattenSeqSteps
<1> DEFINE Holds(n) == \A i \in 1..n : \A x \in 1..Len(s[i]) :
                         /\ off[i] + x <= off[n + 1]
                         /\ flat[n][off[i] + x] = s[i][x]
           Good(n) == Len(flat[n]) = off[n + 1] /\ Holds(n)
           Bad == {n \in 1..Len(s) : ~ Good(n)}
<1>2. Bad = {}
  <2> SUFFICES ASSUME Bad # {} PROVE FALSE
    OBVIOUS
  <2>1. PICK n \in Bad : \A l \in Bad : n <= l
    <3>1. Bad \in SUBSET Nat
      <4>1. Bad \subseteq 1..Len(s)
        BY Zenon
      <4> HIDE DEF Bad
      <4>. QED  BY <1>0, <4>1
    <3> HIDE DEF Bad
    <3>. QED  BY <3>1, LeastNat
  <2>2. n \in 1..Len(s) /\ ~ Good(n)
    BY <2>1, Zenon
  <2> HIDE DEF Holds, Good, Bad
  <2>3. n \in Nat /\ n >= 1 /\ n <= Len(s)
    BY <1>0, <2>2
  <2>4. CASE n = 1
    <3>1. flat[1] = s[1]
      BY <1>1, <2>2, <2>4
    <3>2. off[1 + 1] = Len(s[1])
      BY <1>0, <2>2, <2>4
    <3>3. \A i \in 1..1 : i = 1
      OBVIOUS
    <3>4. Len(flat[1]) = off[1 + 1]
      BY <3>1, <3>2
    <3>5. Holds(1)
      <4> SUFFICES ASSUME NEW x \in 1..Len(s[1])
                   PROVE  off[1] + x <= off[1 + 1] /\ flat[1][off[1] + x] = s[1][x]
        BY <3>3 DEF Holds
      <4>1. x \in Nat /\ x <= Len(s[1]) /\ off[1] + x = x
        BY <1>0, <2>2, <2>4
      <4>. QED  BY <3>1, <3>2, <4>1
    <3>. QED  BY <2>2, <2>4, <3>4, <3>5 DEF Good
  <2>5. CASE n # 1
    <3> DEFINE k == n - 1
    <3>1. k \in 1..Len(s) /\ n = k + 1 /\ ~ (n <= k) /\ k \in Nat /\ k >= 1
      BY <1>0, <2>3, <2>5
    <3> HIDE DEF k
    <3>2. Good(k)
      <4>1. k \notin Bad
        BY <2>1, <3>1
      <4>. QED  BY <3>1, <4>1 DEF Bad
    <3>3. flat[n] = flat[k] \o s[n]
      <4>1. n - 1 = k
        BY <3>1
      <4>. QED  BY <1>1, <2>2, <2>5, <4>1
    <3>4. flat[k] \in Seq(T) /\ s[n] \in Seq(T) /\ Len(flat[k]) \in Nat /\ Len(s[n]) \in Nat
      BY <1>0, <1>1, <2>2, <3>1, LenProperties
    <3>5. /\ Len(flat[n]) = Len(flat[k]) + Len(s[n])
          /\ \A j \in 1..(Len(flat[k]) + Len(s[n])) :
               flat[n][j] = IF j <= Len(flat[k]) THEN flat[k][j] ELSE s[n][j - Len(flat[k])]
      <4>1. /\ Len(flat[k] \o s[n]) = Len(flat[k]) + Len(s[n])
            /\ \A j \in 1..(Len(flat[k]) + Len(s[n])) :
                 (flat[k] \o s[n])[j] = IF j <= Len(flat[k]) THEN flat[k][j] ELSE s[n][j - Len(flat[k])]
        BY <3>4, ConcatProperties, ZenonT(40)
      <4>. QED  BY <3>3, <4>1, Zenon
    <3>6. off[n + 1] = off[n] + Len(s[n]) /\ off[n] \in Nat /\ off[n] = Len(flat[k])
          /\ off[n + 1] \in Nat
      <4>1. n \in 1..(Len(s) + 1) /\ n + 1 \in 1..(Len(s) + 1)
        BY <1>0, <2>3
      <4>. QED  BY <2>2, <3>1, <3>2, <4>1 DEF Good
    <3>7. Holds(n)
      <4> SUFFICES ASSUME NEW i \in 1..n, NEW x \in 1..Len(s[i])
                   PROVE  off[i] + x <= off[n + 1] /\ flat[n][off[i] + x] = s[i][x]
        BY DEF Holds
      <4>1. i \in 1..Len(s) /\ i \in 1..(Len(s) + 1)
        BY <1>0, <2>3
      <4>2. x \in Nat /\ x >= 1 /\ x <= Len(s[i]) /\ off[i] \in Nat
        <5>1. Len(s[i]) \in Nat /\ off[i] \in Nat
          BY <1>0, <4>1
        <5> DEFINE l == Len(s[i])
        <5>2. l \in Nat /\ x \in 1..l
          BY <5>1
        <5> HIDE DEF l
        <5>3. x \in Nat /\ x >= 1 /\ x <= l
          BY <5>2
        <5>. QED  BY <5>1, <5>3 DEF l
      <4> DEFINE y == off[i] + x
                 a == Len(flat[k])
                 b == Len(s[n])
      <4>5. /\ y \in Nat /\ y >= 1
            /\ a \in Nat /\ b \in Nat /\ off[n] = a /\ off[n + 1] = a + b
        BY <3>4, <3>6, <4>2
      <4>3. CASE i = n
        <5>1. off[n] + x \in 1..(Len(flat[k]) + Len(s[n])) /\ ~ (off[n] + x <= Len(flat[k]))
              /\ (off[n] + x) - Len(flat[k]) = x /\ off[n] + x <= off[n] + Len(s[n])
          <6>1. x \in Nat /\ x >= 1 /\ x <= b
            BY <4>2, <4>3
          <6> HIDE DEF a, b, y
          <6>2. a + x \in 1..(a + b) /\ ~ (a + x <= a) /\ (a + x) - a = x /\ a + x <= a + b
            BY <4>5, <6>1
          <6>. QED  BY <4>5, <6>2 DEF a, b
        <5>2. flat[n][off[n] + x] = s[n][(off[n] + x) - Len(flat[k])]
          BY <3>5, <5>1
        <5>. QED  BY <3>6, <4>3, <5>1, <5>2
      <4>4. CASE i # n
        <5>1. i \in 1..k
          BY <2>3, <3>1, <4>4
        <5>2. off[i] + x <= off[k + 1] /\ flat[k][off[i] + x] = s[i][x]
          BY <3>2, <5>1 DEF Good, Holds
        <5>3. off[i] + x <= Len(flat[k])
          BY <3>1, <3>6, <5>2
        <5>4. off[i] + x \in 1..(Len(flat[k]) + Len(s[n]))
          <6>1. y <= a
            BY <5>3
          <6> HIDE DEF a, b, y
          <6>2. y \in 1..(a + b)
            BY <4>5, <6>1
          <6>. QED  BY <6>2 DEF a, b, y
        <5>5. flat[n][off[i] + x] = flat[k][off[i] + x]
          BY <3>5, <5>3, <5>4
        <5>6. off[i] + x <= off[n + 1]
          <6>1. y <= a
            BY <5>3
          <6> HIDE DEF a, b, y
          <6>2. y <= a + b
            BY <4>5, <6>1
          <6>. QED  BY <4>5, <6>2 DEF y
        <5>. QED  BY <5>2, <5>5, <5>6
      <4>. QED  BY <4>3, <4>4
    <3>8. Len(flat[n]) = off[n + 1]
      BY <3>5, <3>6
    <3>. QED  BY <2>2, <3>7, <3>8 DEF Good
  <2>. QED  BY <2>4, <2>5
<1>3. Good(Len(s))
  <2>1. Len(s) \in 1..Len(s)
    BY <1>0
  <2>2. Len(s) \notin Bad
    <3> HIDE DEF Bad
    <3>. QED  BY <1>2
  <2> HIDE DEF Good
  <2>. QED  BY <2>1, <2>2, Zenon
<1>. QED  BY <1>1, <1>3, Zenon

\* FlattenSeq has the entries of each of the sequences.
LEMMA FlattenSeqRange ==
  ASSUME NEW T, NEW s \in Seq(Seq(T)), NEW i \in DOMAIN s
  PROVE  Range(s[i]) \subseteq Range(FlattenSeq(s))
<1>0. /\ Len(s) \in Nat /\ DOMAIN s = 1..Len(s)
      /\ \A j \in 1..Len(s) : s[j] \in Seq(T)
  BY LenProperties, ElementOfSeq
<1>1. Len(s) # 0
  BY <1>0
<1>2. PICK flat \in [1..Len(s) -> Seq(T)] :
        /\ FlattenSeq(s) = flat[Len(s)]
        /\ \A j \in 1..Len(s) :
             flat[j] = IF j = 1 THEN s[j] ELSE flat[j - 1] \o s[j]
  BY <1>1, FlattenSeqSteps
<1> DEFINE Has(n) == Range(s[i]) \subseteq Range(flat[n])
           Lacking == {n \in i..Len(s) : ~ Has(n)}
<1>3. ASSUME NEW n \in 1..Len(s), n # 1
      PROVE  Range(flat[n - 1]) \cup Range(s[n]) \subseteq Range(flat[n])
  <2>1. n - 1 \in 1..Len(s)
    BY <1>0, <1>3
  <2>2. flat[n] = flat[n - 1] \o s[n] /\ flat[n - 1] \in Seq(T) /\ s[n] \in Seq(T)
    BY <1>0, <1>2, <1>3, <2>1
  <2>. QED  BY <2>2, RangeConcatenation
<1>4. Has(i)
  BY <1>0, <1>2, <1>3
<1>5. ASSUME NEW n \in i..Len(s), n # i, Has(n - 1)
      PROVE  Has(n)
  <2>1. n \in 1..Len(s) /\ n # 1
    BY <1>0, <1>5
  <2>. QED  BY <1>3, <1>5, <2>1
<1> HIDE DEF Has
<1>6. Lacking = {}
  <2> SUFFICES ASSUME Lacking # {} PROVE FALSE
    OBVIOUS
  <2>0. Lacking \in SUBSET Nat
    <3>1. Lacking \subseteq i..Len(s)
      OBVIOUS
    <3> HIDE DEF Lacking
    <3>. QED  BY <1>0, <3>1
  <2>1. PICK n \in Lacking : \A l \in Lacking : n <= l
    <3> HIDE DEF Lacking
    <3>. QED  BY <2>0, LeastNat
  <2>2. n \in i..Len(s) /\ ~ Has(n)
    BY <2>1
  <2>3. \A l \in i..Len(s) : l < n => Has(l)
    <3>1. \A l \in i..Len(s) : l \notin Lacking => Has(l)
      OBVIOUS
    <3> HIDE DEF Lacking
    <3>2. \A l \in i..Len(s) : l < n => l \notin Lacking
      BY <1>0, <2>1, <2>2
    <3>. QED  BY <3>1, <3>2
  <2>4. n # i => n - 1 \in i..Len(s) /\ n - 1 < n
    BY <1>0, <2>2
  <2>. QED  BY <1>4, <1>5, <2>2, <2>3, <2>4
<1>7. Has(Len(s))
  <2>1. Len(s) \in i..Len(s)
    BY <1>0
  <2>. QED  BY <1>6, <2>1
<1>. QED  BY <1>2, <1>7 DEF Has

\* An entry of a sequence that is not its first is one of the rest.
LEMMA RangeTail ==
  ASSUME NEW T, NEW s \in Seq(T), s # <<>>, NEW x \in Range(s), x # Head(s)
  PROVE  x \in Range(Tail(s))
<1>1. PICK i \in DOMAIN s : x = s[i]
  BY DEF Range
<1>2. /\ Len(s) \in Nat /\ DOMAIN s = 1..Len(s)
  BY LenProperties
<1>3. /\ Head(s) = s[1] /\ Tail(s) \in Seq(T) /\ Len(Tail(s)) = Len(s) - 1
      /\ \A k \in 1..Len(Tail(s)) : Tail(s)[k] = s[k + 1]
  BY HeadTailProperties
<1>4. DOMAIN Tail(s) = 1..Len(Tail(s))
  BY <1>3, LenProperties
<1>5. i - 1 \in DOMAIN Tail(s) /\ Tail(s)[i - 1] = s[i]
  <2>1. i # 1
    BY <1>1, <1>3
  <2>2. i - 1 \in 1..Len(Tail(s)) /\ (i - 1) + 1 = i
    BY <1>1, <1>2, <1>3, <2>1
  <2>. QED  BY <1>3, <1>4, <2>2
<1>. QED  BY <1>1, <1>5 DEF Range

-----------------------------------------------------------------------------
\* Powers of two: the number of subsets doubles with each element.
LEMMA PowersOfTwo ==
  /\ 2^0 = 1
  /\ \A n \in Nat : 2^n \in Nat /\ 2^n >= 1 /\ 2^(n + 1) = 2 * 2^n
<1>1. 2^0 = 1
  <2>1. SUBSET {} = {{}}
    OBVIOUS
  <2>2. Cardinality(SUBSET {}) = 2^Cardinality({})
    BY FS_EmptySet, FS_SUBSET
  <2>3. Cardinality(SUBSET {}) = 1
    BY <2>1, FS_Singleton
  <2>4. Cardinality({}) = 0
    BY FS_EmptySet
  <2>. QED  BY <2>2, <2>3, <2>4, Zenon
<1>2. ASSUME NEW n \in Nat
      PROVE  2^n \in Nat /\ 2^n >= 1 /\ 2^(n + 1) = 2 * 2^n
  <2> DEFINE S == 1..n
             x == n + 1
             old == SUBSET S
             new == {s \cup {x} : s \in SUBSET S}
  <2>1. IsFiniteSet(S) /\ Cardinality(S) = n
    BY FS_Interval
  <2>2. IsFiniteSet(old) /\ Cardinality(old) = 2^n
    BY <2>1, FS_SUBSET
  <2>3. IsFiniteSet(S \cup {x}) /\ Cardinality(S \cup {x}) = n + 1
    BY <2>1, FS_AddElement
  <2>4. Cardinality(SUBSET (S \cup {x})) = 2^(n + 1)
    <3> HIDE DEF S, x
    <3>. QED  BY <2>3, FS_SUBSET, Zenon
  <2>5. x \notin S
    OBVIOUS
  <2> HIDE DEF S, x
  <2>6. SUBSET (S \cup {x}) = old \cup new
    <3>1. ASSUME NEW t \in SUBSET (S \cup {x}), x \in t PROVE t \in new
      <4>1. t \ {x} \in SUBSET S /\ t = (t \ {x}) \cup {x}
        BY <3>1
      <4>. QED  BY <4>1, Zenon
    <3>2. ASSUME NEW t \in SUBSET (S \cup {x}), x \notin t PROVE t \in old
      BY <3>2
    <3>3. old \subseteq SUBSET (S \cup {x}) /\ new \subseteq SUBSET (S \cup {x})
      OBVIOUS
    <3> HIDE DEF old, new
    <3>. QED  BY <3>1, <3>2, <3>3
  <2>7. old \cap new = {}
    BY <2>5
  <2>8. IsFiniteSet(new) /\ Cardinality(new) = Cardinality(old)
    <3> DEFINE f == [s \in old |-> s \cup {x}]
    <3>1. f \in Bijection(old, new)
      <4>1. f \in [old -> new]
        BY Zenon
      <4>2. \A s, t \in old : f[s] = f[t] => s = t
        <5> SUFFICES ASSUME NEW s \in old, NEW t \in old, s \cup {x} = t \cup {x}
                     PROVE  s = t
          OBVIOUS
        <5>1. x \notin s /\ x \notin t
          BY <2>5
        <5>. QED  BY <5>1
      <4>3. \A t \in new : \E s \in old : f[s] = t
        BY Zenon
      <4> HIDE DEF f, old, new
      <4>. QED  BY <4>1, <4>2, <4>3, Fun_IsBij
    <3>2. ExistsBijection(old, new)
      <4> HIDE DEF f, old, new
      <4>. QED  BY <3>1, Zenon DEF ExistsBijection
    <3> HIDE DEF f, old, new
    <3>. QED  BY <2>2, <3>2, FS_Bijection, Zenon
  <2>9. Cardinality(old \cup new) = Cardinality(old) + Cardinality(new)
    <3> HIDE DEF old, new
    <3>1. Cardinality(old \cap new) = 0
      BY <2>7, FS_EmptySet
    <3>2. Cardinality(old \cup new) =
            Cardinality(old) + Cardinality(new) - Cardinality(old \cap new)
      BY <2>2, <2>8, FS_Union, Zenon
    <3>3. Cardinality(old) \in Nat /\ Cardinality(new) \in Nat
      BY <2>2, <2>8, FS_CardinalityType, Zenon
    <3>. QED  BY <3>1, <3>2, <3>3
  <2>10. 2^n \in Nat /\ 2^n # 0
    <3>1. {} \in old
      OBVIOUS
    <3> HIDE DEF old
    <3>. QED  BY <2>2, <3>1, FS_CardinalityType, FS_EmptySet
  <2> HIDE DEF old, new
  <2>11. 2^(n + 1) = 2^n + 2^n
    BY <2>2, <2>4, <2>6, <2>8, <2>9, Zenon
  <2>. QED  BY <2>10, <2>11
<1>. QED  BY <1>1, <1>2

-----------------------------------------------------------------------------
\* A non-empty set of subsets of a finite set has a smallest element.
LEMMA SmallestSubset ==
  ASSUME NEW S, IsFiniteSet(S), NEW X, \A s \in X : s \in SUBSET S, X # {}
  PROVE  \E s \in X : \A t \in X : t \subseteq s => t = s
<1> DEFINE sizes == {Cardinality(s) : s \in X}
<1>1. \A s \in X : IsFiniteSet(s) /\ Cardinality(s) \in Nat
  BY FS_Subset, FS_CardinalityType
<1>2. sizes \in SUBSET Nat /\ sizes # {}
  BY <1>1
<1>3. PICK m \in sizes : \A k \in sizes : m <= k
  <2> HIDE DEF sizes
  <2>. QED  BY <1>2, LeastNat
<1>4. PICK s \in X : m = Cardinality(s)
  BY <1>3
<1>5. ASSUME NEW t \in X, t \subseteq s PROVE t = s
  <2>1. Cardinality(s) <= Cardinality(t)
    BY <1>3, <1>4
  <2>2. /\ Cardinality(t) <= Cardinality(s)
        /\ Cardinality(s) = Cardinality(t) => s = t
    BY <1>1, <1>5, FS_Subset
  <2>. QED  BY <1>1, <2>1, <2>2
<1>. QED  BY <1>5

\* f folds the subsets of S: it takes from a set the element that pick names.
IsFold(f, S, base, pick, step) ==
  \A s \in SUBSET S :
    f[s] = IF s = {} THEN base ELSE step[<<pick[s], f[s \ {pick[s]}]>>]

\* A fold over a finite set exists, and its values are of the type of its steps.
LEMMA FoldExists ==
  ASSUME NEW S, IsFiniteSet(S), NEW T, NEW base \in T, NEW pick, NEW step,
         \A s \in SUBSET S : s # {} => pick[s] \in s,
         \A x \in S, t \in T : step[<<x, t>>] \in T
  PROVE  \E f \in [SUBSET S -> T] : IsFold(f, S, base, pick, step)
<1> DEFINE Sub(n) == {s \in SUBSET S : Cardinality(s) <= n}
           FoldsTo(f, n) ==
             /\ f \in [Sub(n) -> T]
             /\ \A s \in Sub(n) :
                  f[s] = IF s = {} THEN base
                         ELSE step[<<pick[s], f[s \ {pick[s]}]>>]
           Lacking == {n \in 0..Cardinality(S) : ~ \E f : FoldsTo(f, n)}
<1>1. /\ Cardinality(S) \in Nat
      /\ \A s \in SUBSET S :
           /\ IsFiniteSet(s) /\ Cardinality(s) \in 0..Cardinality(S)
           /\ Cardinality(s) = 0 <=> s = {}
  BY FS_Subset, FS_CardinalityType, FS_EmptySet
<1>2. \A s \in SUBSET S : s # {} =>
        /\ s \ {pick[s]} \in SUBSET S
        /\ Cardinality(s \ {pick[s]}) = Cardinality(s) - 1
  BY <1>1, FS_RemoveElement
<1>3. Lacking = {}
  <2>1. Lacking \in SUBSET Nat
    <3>1. Lacking \subseteq 0..Cardinality(S)
      BY Zenon
    <3> HIDE DEF Lacking
    <3>. QED  BY <1>1, <3>1
  <2> SUFFICES ASSUME Lacking # {} PROVE FALSE
    OBVIOUS
  <2>2. PICK n \in Lacking : \A k \in Lacking : n <= k
    <3> HIDE DEF Lacking
    <3>. QED  BY <2>1, LeastNat
  <2>3. n \in 0..Cardinality(S) /\ ~ \E f : FoldsTo(f, n)
    BY <2>2, Zenon
  <2>4. \A k \in 0..Cardinality(S) : k < n => \E f : FoldsTo(f, k)
    <3>1. \A k \in 0..Cardinality(S) : k \notin Lacking => \E f : FoldsTo(f, k)
      BY Zenon
    <3> HIDE DEF Lacking
    <3>2. \A k \in 0..Cardinality(S) : k < n => k \notin Lacking
      BY <1>1, <2>2, <2>3
    <3>. QED  BY <3>1, <3>2, Zenon
  <2> HIDE DEF Lacking
  <2>5. CASE n = 0
    <3>1. \A s \in Sub(0) : s = {}
      BY <1>1
    <3>2. FoldsTo([s \in Sub(0) |-> base], 0)
      BY <3>1
    <3> HIDE DEF FoldsTo
    <3>. QED  BY <2>3, <2>5, <3>2
  <2>6. CASE n # 0
    <3>1. n - 1 \in 0..Cardinality(S) /\ n - 1 < n
      BY <1>1, <2>3, <2>6
    <3>2. PICK f : FoldsTo(f, n - 1)
      BY <2>4, <3>1, Zenon
    <3> DEFINE g == [s \in Sub(n) |->
                       IF s = {} THEN base
                       ELSE step[<<pick[s], f[s \ {pick[s]}]>>]]
    <3>3. \A s \in Sub(n) : s # {} => s \ {pick[s]} \in Sub(n - 1)
      BY <1>1, <1>2, <2>3
    <3>4. Sub(n - 1) \subseteq Sub(n)
      BY <1>1, <2>3
    <3>5. \A s \in Sub(n - 1) : g[s] = f[s] /\ f[s] \in T
      BY <3>2, <3>4
    <3>6. \A s \in Sub(n) : s \in SUBSET S
      OBVIOUS
    <3>7. g \in [Sub(n) -> T]
      <4>1. \A s \in Sub(n) : s # {} => pick[s] \in S
        BY <3>6
      <4> HIDE DEF Sub, FoldsTo
      <4>2. \A s \in Sub(n) : s # {} => step[<<pick[s], f[s \ {pick[s]}]>>] \in T
        BY <3>3, <3>5, <4>1
      <4>. QED  BY <4>2
    <3>8. \A s \in Sub(n) :
            g[s] = IF s = {} THEN base
                   ELSE step[<<pick[s], g[s \ {pick[s]}]>>]
      <4> HIDE DEF Sub, FoldsTo
      <4>1. \A s \in Sub(n) : s # {} => g[s \ {pick[s]}] = f[s \ {pick[s]}]
        BY <3>3, <3>5
      <4> DEFINE h(s) == IF s = {} THEN base
                         ELSE step[<<pick[s], f[s \ {pick[s]}]>>]
      <4>2. \A s \in Sub(n) : g[s] = h(s)
        OBVIOUS
      <4> HIDE DEF g
      <4>. QED  BY <4>1, <4>2
    <3>9. FoldsTo(g, n)
      <4> HIDE DEF Sub, g
      <4>. QED  BY <3>7, <3>8
    <3> HIDE DEF FoldsTo
    <3>. QED  BY <2>3, <3>9
  <2>. QED  BY <2>5, <2>6
<1>4. PICK f : FoldsTo(f, Cardinality(S))
  <2>1. Cardinality(S) \in 0..Cardinality(S)
    BY <1>1
  <2>. QED  BY <1>3, <2>1, Zenon
<1>5. Sub(Cardinality(S)) = SUBSET S
  BY <1>1
<1> HIDE DEF Sub, Lacking
<1>. QED  BY <1>4, <1>5 DEF IsFold

\* What SumSet computes: the fold that takes any element first.
LEMMA SumSetFold ==
  ASSUME NEW S, S \subseteq Nat, IsFiniteSet(S)
  PROVE  \E f \in [SUBSET S -> Nat] :
           /\ SumSet(S) = f[S]
           /\ f[{}] = 0
           /\ \A s \in SUBSET S : \A y \in s : f[s] = y + f[s \ {y}]
<1> DEFINE any(s) == CHOOSE x \in s : TRUE
           IsSum(f) == f = [s \in SUBSET S |->
                              IF s = {} THEN 0 ELSE any(s) + f[s \ {any(s)}]]
<1>1. \E f : IsSum(f)
  <2> DEFINE pick == [s \in SUBSET S |-> any(s)]
             step == [p \in S \X Nat |-> p[1] + p[2]]
  <2>1. \A s \in SUBSET S : s # {} => pick[s] \in s
    OBVIOUS
  <2>2. \A x \in S, t \in Nat : step[<<x, t>>] = x + t /\ x + t \in Nat
    OBVIOUS
  <2>3. PICK f \in [SUBSET S -> Nat] : IsFold(f, S, 0, pick, step)
    <3> HIDE DEF pick, step
    <3>1. 0 \in Nat /\ \A x \in S, t \in Nat : step[<<x, t>>] \in Nat
      BY <2>2
    <3>. QED  BY <2>1, <3>1, FoldExists
  <2>4. \A s \in SUBSET S : pick[s] = any(s)
    OBVIOUS
  <2> HIDE DEF pick, step, any
  <2>5. \A s \in SUBSET S : f[s] = IF s = {} THEN 0 ELSE any(s) + f[s \ {any(s)}]
    <3> SUFFICES ASSUME NEW s \in SUBSET S, s # {}
                 PROVE  f[s] = any(s) + f[s \ {any(s)}]
      BY <2>3 DEF IsFold
    <3>1. any(s) \in S /\ s \ {any(s)} \in SUBSET S
      BY <2>1, <2>4
    <3>2. f[s] = step[<<any(s), f[s \ {any(s)}]>>]
      BY <2>3, <2>4 DEF IsFold
    <3>. QED  BY <2>2, <2>3, <3>1, <3>2
  <2>6. IsSum(f)
    BY <2>3, <2>5
  <2> HIDE DEF IsSum
  <2>. QED  BY <2>6
<1> DEFINE f == CHOOSE f : IsSum(f)
<1>2. IsSum(f)
  BY <1>1, Zenon
<1>3. SumSet(S) = f[S]
  BY DEF SumSet, FoldSet, MapThenFoldSet
<1>4. \A s \in SUBSET S : s # {} => any(s) \in s
  OBVIOUS
<1> HIDE DEF f, any
<1>5. /\ f[{}] = 0
      /\ \A s \in SUBSET S : s # {} => f[s] = any(s) + f[s \ {any(s)}]
  BY <1>2
<1> DEFINE Others == {s \in SUBSET S : f[s] \notin Nat}
<1>6. Others = {}
  <2>0. SUFFICES ASSUME Others # {} PROVE FALSE
    OBVIOUS
  <2>1. PICK s \in Others : \A t \in Others : t \subseteq s => t = s
    <3>1. \A t \in Others : t \in SUBSET S
      OBVIOUS
    <3> HIDE DEF Others
    <3>. QED  BY <2>0, <3>1, SmallestSubset
  <2>2. s # {}
    <3>1. f[s] \notin Nat
      OBVIOUS
    <3> HIDE DEF Others, IsSum
    <3>. QED  BY <1>5, <3>1
  <2>3. any(s) \in s /\ s \ {any(s)} \notin Others
    BY <1>4, <2>1, <2>2
  <2>4. any(s) \in Nat /\ f[s \ {any(s)}] \in Nat
    BY <2>3
  <2>. QED  BY <1>5, <2>2, <2>4
<1>7. \A s \in SUBSET S : f[s] \in Nat
  BY <1>6, Zenon
<1>8. f \in [SUBSET S -> Nat]
  BY <1>2, <1>7
<1> HIDE DEF IsSum
\* Any element may come first: no set is the smallest that says otherwise.
<1> DEFINE Uneven == {s \in SUBSET S : ~ \A y \in s : f[s] = y + f[s \ {y}]}
<1>9. Uneven = {}
  <2>0. SUFFICES ASSUME Uneven # {} PROVE FALSE
    OBVIOUS
  <2>1. PICK s \in Uneven : \A t \in Uneven : t \subseteq s => t = s
    <3>1. \A t \in Uneven : t \in SUBSET S
      OBVIOUS
    <3> HIDE DEF Uneven
    <3>. QED  BY <2>0, <3>1, SmallestSubset
  <2>2. PICK y \in s : f[s] # y + f[s \ {y}]
    OBVIOUS
  <2> DEFINE x == any(s)
  <2>3. /\ x \in s /\ x \in Nat /\ y \in Nat
        /\ f[s] = x + f[s \ {x}]
    BY <1>4, <1>5, <2>2
  <2>4. x # y
    BY <2>2, <2>3
  <2> HIDE DEF x
  <2>5. /\ s \ {x} \in SUBSET S /\ s \ {y} \in SUBSET S
        /\ s \ {x} \notin Uneven /\ s \ {y} \notin Uneven
        /\ y \in s \ {x} /\ x \in s \ {y}
        /\ (s \ {x}) \ {y} = (s \ {y}) \ {x}
        /\ (s \ {x}) \ {y} \in SUBSET S
    BY <2>1, <2>2, <2>3, <2>4
  <2>6. /\ f[s \ {x}] = y + f[(s \ {x}) \ {y}]
        /\ f[s \ {y}] = x + f[(s \ {x}) \ {y}]
    BY <2>5
  <2>. QED  BY <1>7, <2>2, <2>3, <2>5, <2>6
<1>10. \A s \in SUBSET S : \A y \in s : f[s] = y + f[s \ {y}]
  BY <1>9, Zenon
<1> HIDE DEF Others, Uneven
<1>. QED  BY <1>3, <1>5, <1>8, <1>10

\* A sum of different powers of two, all below the n-th, is below the n-th and
\* at least each of them.
LEMMA SumOfPowers ==
  ASSUME NEW n \in Nat, NEW D \in SUBSET (0..(n - 1))
  PROVE  /\ SumSet({2^i : i \in D}) \in 0..(2^n - 1)
         /\ \A k \in D : SumSet({2^i : i \in D}) >= 2^k
<1> DEFINE S == {2^i : i \in D}
           Upto(k) == {2^i : i \in 0..(k - 1)}
<1>1. \A k \in Nat : 2^k \in Nat /\ 2^k >= 1 /\ 2^(k + 1) = 2 * 2^k
  BY PowersOfTwo
<1>2. S \in SUBSET Nat /\ S \subseteq Upto(n)
  <2>1. \A i \in D : i \in Nat
    OBVIOUS
  <2>. QED  BY <1>1, <2>1
<1>3. IsFiniteSet(S)
  <2> DEFINE g == [i \in D |-> 2^i]
  <2>1. IsFiniteSet(D)
    <3>1. IsFiniteSet(0..(n - 1))
      BY FS_Interval
    <3>. QED  BY <3>1, FS_Subset
  <2>2. g \in Surjection(D, S)
    BY Zenon DEF Surjection
  <2> HIDE DEF g, S
  <2>. QED  BY <2>1, <2>2, FS_Surjection
<1>4. PICK f \in [SUBSET S -> Nat] :
        /\ SumSet(S) = f[S]
        /\ f[{}] = 0
        /\ \A s \in SUBSET S : \A y \in s : f[s] = y + f[s \ {y}]
  <2> HIDE DEF S
  <2>. QED  BY <1>2, <1>3, SumSetFold
<1> DEFINE High == {k \in Nat : ~ \A s \in SUBSET S :
                                   s \subseteq Upto(k) => f[s] < 2^k}
<1>5. High = {}
  <2> SUFFICES ASSUME High # {} PROVE FALSE
    OBVIOUS
  <2>1. PICK k \in High : \A l \in High : k <= l
    <3>1. High \in SUBSET Nat
      BY Zenon
    <3> HIDE DEF High
    <3>. QED  BY <3>1, LeastNat
  <2>2. k \in Nat /\ ~ \A s \in SUBSET S : s \subseteq Upto(k) => f[s] < 2^k
    BY <2>1, Zenon
  <2>3. PICK s \in SUBSET S : s \subseteq Upto(k) /\ ~ (f[s] < 2^k)
    BY <2>2, Zenon
  <2>4. k # 0
    <3> SUFFICES ASSUME k = 0 PROVE FALSE
      OBVIOUS
    <3>1. 2^k >= 1 /\ 2^k \in Nat
      BY <1>1
    <3>2. s = {}
      BY <2>3
    <3> HIDE DEF S
    <3>. QED  BY <1>4, <2>3, <3>1, <3>2
  <2> DEFINE j == k - 1
  <2>5. j \in Nat /\ j < k /\ k = j + 1
    BY <2>2, <2>4
  <2>6. j \notin High
    <3> HIDE DEF High, j
    <3>. QED  BY <2>1, <2>2, <2>5
  <2>7. \A t \in SUBSET S : t \subseteq Upto(j) => f[t] < 2^j
    <3> HIDE DEF j
    <3>. QED  BY <2>5, <2>6, Zenon
  <2> HIDE DEF High, j, S
  <2>8. \A x \in Upto(k) : x \in Upto(j) \/ x = 2^j
    <3>1. \A i \in 0..(k - 1) : i \in 0..(j - 1) \/ i = j
      BY <2>5
    <3>. QED  BY <3>1, Zenon
  <2>9. 2^j \in Nat /\ 2^k = 2 * 2^j
    BY <1>1, <2>5
  <2> DEFINE t == s \ {2^j}
  <2>10. t \in SUBSET S /\ t \subseteq Upto(j) /\ f[t] \in Nat
    <3> HIDE DEF Upto
    <3>. QED  BY <2>3, <2>8, <1>4
  <2>11. f[t] < 2^j
    BY <2>7, <2>10
  <2>12. f[s] = f[t] \/ f[s] = 2^j + f[t]
    <3> HIDE DEF Upto
    <3>1. 2^j \notin s => t = s
      OBVIOUS
    <3>. QED  BY <1>4, <3>1
  <2>13. f[s] \in Nat
    BY <1>4
  <2> HIDE DEF t, Upto
  <2>. QED  BY <2>3, <2>9, <2>10, <2>11, <2>12, <2>13
<1>6. \A s \in SUBSET S : s \subseteq Upto(n) => f[s] < 2^n
  BY <1>5, Zenon
<1> HIDE DEF High, Upto
<1>7. f[S] \in Nat /\ f[S] < 2^n /\ 2^n \in Nat
  <2> HIDE DEF S
  <2>. QED  BY <1>1, <1>2, <1>4, <1>6
<1> HIDE DEF S
<1>8. SumSet(S) \in 0..(2^n - 1)
  BY <1>4, <1>7
<1>9. \A y \in S : SumSet(S) >= y
  <2> SUFFICES ASSUME NEW y \in S PROVE f[S] >= y
    BY <1>4
  <2>1. S \in SUBSET S /\ S \ {y} \in SUBSET S /\ y \in Nat
    BY <1>2
  <2>2. f[S] = y + f[S \ {y}] /\ f[S \ {y}] \in Nat
    BY <1>4, <2>1
  <2>. QED  BY <2>1, <2>2
<1>10. \A i \in D : 2^i \in S
  BY DEF S
<1>. QED  BY <1>8, <1>9, <1>10 DEF S

-----------------------------------------------------------------------------
(* Bits of numbers.                                                        *)

\* Division with remainder has one result.
LEMMA DivUnique ==
  ASSUME NEW P \in Nat \ {0}, NEW q \in Nat, NEW r \in 0..(P - 1)
  PROVE  (P * q + r) \div P = q
<1> DEFINE n == P * q + r
<1>0. n \in Nat /\ P * q \in Nat
  OBVIOUS
<1> HIDE DEF n
<1> DEFINE d == n \div P
<1>1. d \in Int /\ n = P * d + (n % P) /\ n % P \in 0..(P - 1)
  BY <1>0
<1> HIDE DEF d
<1>2. ~ (d >= q + 1)
  <2> SUFFICES ASSUME d >= q + 1 PROVE FALSE
    OBVIOUS
  <2>1. P * d >= P * (q + 1) /\ P * (q + 1) = P * q + P
    BY <1>1
  <2>. QED  BY <1>0, <1>1, <2>1 DEF n
<1>3. ~ (d + 1 <= q)
  <2> SUFFICES ASSUME d + 1 <= q PROVE FALSE
    OBVIOUS
  <2>1. P * (d + 1) <= P * q /\ P * (d + 1) = P * d + P
    BY <1>1
  <2>. QED  BY <1>0, <1>1, <2>1 DEF n
<1>. QED  BY <1>1, <1>2, <1>3 DEF n, d

\* A higher power of two is an even multiple of a lower one.
LEMMA HigherPower ==
  ASSUME NEW i \in Nat, NEW k \in Nat, i < k
  PROVE  /\ \E c \in Nat : 2^k = 2^i * (2 * c)
         /\ 2^i < 2^k
<1> DEFINE Good(n) == \E c \in Nat : c >= 1 /\ 2^n = 2^i * (2 * c)
           Bad == {n \in Nat : i < n /\ ~ Good(n)}
<1>0. \A n \in Nat : 2^n \in Nat /\ 2^n >= 1 /\ 2^(n + 1) = 2 * 2^n
  BY PowersOfTwo
<1>1. Bad = {}
  <2> SUFFICES ASSUME Bad # {} PROVE FALSE
    OBVIOUS
  <2>1. PICK n \in Bad : \A l \in Bad : n <= l
    <3>1. Bad \in SUBSET Nat
      BY Zenon
    <3> HIDE DEF Bad
    <3>. QED  BY <3>1, LeastNat
  <2>2. n \in Nat /\ i < n /\ ~ Good(n)
    BY <2>1, Zenon
  <2> DEFINE j == n - 1
  <2>3. j \in Nat /\ n = j + 1 /\ i <= j /\ ~ (n <= j)
    BY <2>2
  <2> HIDE DEF j
  <2>4. 2^n = 2 * 2^j /\ 2^j \in Nat /\ 2^i \in Nat /\ 2^i >= 1
    BY <1>0, <2>3
  <2>5. CASE i = j
    <3>1. 2^n = 2^i * (2 * 1)
      BY <2>4, <2>5
    <3>2. 1 \in Nat /\ 1 >= 1
      OBVIOUS
    <3>. QED  BY <2>2, <3>1, <3>2, Zenon
  <2>6. CASE i # j
    <3>1. j \notin Bad
      <4> HIDE DEF Bad
      <4>. QED  BY <2>1, <2>3
    <3>2. i < j
      BY <2>3, <2>6
    <3>3. Good(j)
      <4> HIDE DEF Good
      <4>. QED  BY <2>3, <3>1, <3>2
    <3>4. PICK c \in Nat : c >= 1 /\ 2^j = 2^i * (2 * c)
      BY <3>3
    <3> DEFINE x == 2^i
               y == 2^j
    <3>5. 2 * (x * (2 * c)) = x * (2 * (2 * c))
      <4>1. x \in Nat
        BY <2>4
      <4> HIDE DEF x
      <4>. QED  BY <4>1
    <3>6. 2^n = 2^i * (2 * (2 * c))
      BY <2>4, <3>4, <3>5
    <3>7. 2 * c \in Nat /\ 2 * c >= 1
      BY <3>4
    <3>. QED  BY <2>2, <3>6, <3>7, Zenon
  <2>. QED  BY <2>5, <2>6
<1>2. Good(k)
  <2>1. k \notin Bad
    BY <1>1
  <2> HIDE DEF Good
  <2>. QED  BY <2>1
<1>3. PICK c \in Nat : c >= 1 /\ 2^k = 2^i * (2 * c)
  BY <1>2
<1> DEFINE x == 2^i
<1>4. x \in Nat /\ x >= 1
  BY <1>0
<1>5. x < x * (2 * c)
  <2> HIDE DEF x
  <2>1. x * (2 * c) = 2 * (x * c) /\ x * c \in Nat /\ x * c >= x
    BY <1>3, <1>4
  <2>. QED  BY <1>4, <2>1
<1>. QED  BY <1>3, <1>5

\* Any element of a set may be added last.
LEMMA SumSetAdd ==
  ASSUME NEW S, S \subseteq Nat, IsFiniteSet(S), NEW y \in S
  PROVE  SumSet(S \ {y}) \in Nat /\ SumSet(S) = y + SumSet(S \ {y})
<1> DEFINE R == S \ {y}
<1>1. PICK f \in [SUBSET S -> Nat] :
        /\ SumSet(S) = f[S]
        /\ f[{}] = 0
        /\ \A s \in SUBSET S : \A x \in s : f[s] = x + f[s \ {x}]
  BY SumSetFold
<1>2. R \subseteq Nat /\ IsFiniteSet(R) /\ R \in SUBSET S
  BY FS_Subset
<1> HIDE DEF R
<1>3. PICK g \in [SUBSET R -> Nat] :
        /\ SumSet(R) = g[R]
        /\ g[{}] = 0
        /\ \A s \in SUBSET R : \A x \in s : g[s] = x + g[s \ {x}]
  BY <1>2, SumSetFold
<1> DEFINE Differ == {s \in SUBSET R : f[s] # g[s]}
<1>4. Differ = {}
  <2> SUFFICES ASSUME Differ # {} PROVE FALSE
    OBVIOUS
  <2>1. PICK s \in Differ : \A t \in Differ : t \subseteq s => t = s
    <3>1. \A t \in Differ : t \in SUBSET R
      OBVIOUS
    <3> HIDE DEF Differ
    <3>. QED  BY <1>2, <3>1, SmallestSubset
  <2>2. s \in SUBSET R /\ f[s] # g[s] /\ s \in SUBSET S
    BY <1>2
  <2>3. PICK x \in s : TRUE
    BY <1>1, <1>3, <2>2
  <2>4. f[s \ {x}] = g[s \ {x}]
    <3>1. s \ {x} \notin Differ /\ s \ {x} \in SUBSET R
      BY <2>1, <2>2, <2>3
    <3>. QED  BY <3>1, Zenon
  <2>. QED  BY <1>1, <1>3, <2>2, <2>3, <2>4
<1>5. f[R] = g[R]
  BY <1>4, Zenon
<1>6. f[S] = y + f[R]
  <2>1. S \in SUBSET S
    OBVIOUS
  <2>. QED  BY <1>1, <2>1 DEF R
<1>7. g[R] \in Nat
  <2>1. R \in SUBSET R
    OBVIOUS
  <2>. QED  BY <1>3, <2>1
<1>. QED  BY <1>1, <1>3, <1>5, <1>6, <1>7 DEF R

LEMMA SumSetEmpty == SumSet({}) = 0
<1>1. IsFiniteSet({}) /\ {} \subseteq Nat
  BY FS_EmptySet
<1>. QED  BY <1>1, SumSetFold

\* Whether bit i of n is set.
IsOne(n, i) == (n \div 2^i) % 2 = 1

\* The bits of n below bit w.
OnesOf(n, w) == {i \in 0..(w - 1) : IsOne(n, i)}

\* The bits of numbers below a power of two, without the bit of that power and
\* with it.
LEMMA BitsBelow ==
  ASSUME NEW w \in Nat, NEW m \in Nat, m < 2^w
  PROVE  /\ \A i \in Nat : i >= w => (m \div 2^i) % 2 = 0
         /\ ((m + 2^w) \div 2^w) % 2 = 1
         /\ \A i \in Nat : i > w => ((m + 2^w) \div 2^i) % 2 = 0
         /\ \A i \in 0..(w - 1) : ((m + 2^w) \div 2^i) % 2 = (m \div 2^i) % 2
<1>0. \A n \in Nat : 2^n \in Nat /\ 2^n >= 1 /\ 2^(n + 1) = 2 * 2^n
  BY PowersOfTwo
<1>p. 0 % 2 = 0 /\ 1 % 2 = 1
  OBVIOUS
<1>1. ASSUME NEW i \in Nat, NEW n \in Nat, n < 2^i PROVE n \div 2^i = 0
  <2> DEFINE P == 2^i
  <2>1. P \in Nat \ {0} /\ n \in 0..(P - 1)
    BY <1>0, <1>1
  <2> HIDE DEF P
  <2>2. (P * 0 + n) \div P = 0 /\ P * 0 + n = n
    BY <2>1, DivUnique
  <2>. QED  BY <2>2 DEF P
<1>2. ASSUME NEW i \in Nat, i >= w PROVE (m \div 2^i) % 2 = 0
  <2>1. 2^w <= 2^i
    BY <1>0, <1>2, HigherPower
  <2>2. m < 2^i
    BY <1>0, <2>1
  <2>. QED  BY <1>1, <1>p, <2>2
<1>3. ((m + 2^w) \div 2^w) % 2 = 1
  <2> DEFINE P == 2^w
  <2>1. P \in Nat \ {0} /\ m \in 0..(P - 1)
    BY <1>0
  <2> HIDE DEF P
  <2>2. (P * 1 + m) \div P = 1 /\ P * 1 + m = m + P
    BY <2>1, DivUnique
  <2>. QED  BY <1>p, <2>2 DEF P
<1>4. ASSUME NEW i \in Nat, i > w PROVE ((m + 2^w) \div 2^i) % 2 = 0
  <2>1. 2^(w + 1) <= 2^i
    BY <1>0, <1>4, HigherPower
  <2>2. m + 2^w \in Nat /\ m + 2^w < 2^i
    BY <1>0, <2>1
  <2>. QED  BY <1>1, <1>p, <2>2
<1>5. ASSUME NEW i \in 0..(w - 1) PROVE ((m + 2^w) \div 2^i) % 2 = (m \div 2^i) % 2
  <2> DEFINE P == 2^i
             q == m \div P
             r == m % P
  <2>1. PICK c \in Nat : 2^w = P * (2 * c)
    <3>1. i \in Nat /\ i < w
      OBVIOUS
    <3>. QED  BY <3>1, HigherPower
  <2>2. P \in Nat \ {0}
    BY <1>0
  <2> HIDE DEF P
  <2>3. q \in Nat /\ r \in 0..(P - 1) /\ m = P * q + r
    <3>1. q \in Int /\ r \in 0..(P - 1) /\ m = P * q + r
      BY <2>2
    <3>2. q >= 0
      <4> HIDE DEF q, r
      <4> SUFFICES ASSUME q <= -1 PROVE FALSE
        BY <3>1
      <4>1. P * q <= -P
        BY <2>2, <3>1
      <4>. QED  BY <2>2, <3>1, <4>1
    <3>. QED  BY <3>1, <3>2
  <2> HIDE DEF q, r
  <2>4. m + P * (2 * c) = P * (q + 2 * c) + r
    <3>1. P * (q + 2 * c) = P * q + P * (2 * c)
      BY <2>2, <2>3
    <3>. QED  BY <2>2, <2>3, <3>1
  <2>5. (P * (q + 2 * c) + r) \div P = q + 2 * c
    BY <2>2, <2>3, DivUnique
  <2>6. (q + 2 * c) % 2 = q % 2
    BY <2>3
  <2>. QED  BY <2>1, <2>4, <2>5, <2>6 DEF P, q
<1>. QED  BY <1>2, <1>3, <1>4, <1>5

\* Adding a power of two keeps the bits below it.
LEMMA BitKept ==
  ASSUME NEW w \in Nat, NEW m \in Nat, m < 2^w, NEW i \in 0..(w - 1)
  PROVE  ((m + 2^w) \div 2^i) % 2 = (m \div 2^i) % 2
<1>1. \A j \in 0..(w - 1) : ((m + 2^w) \div 2^j) % 2 = (m \div 2^j) % 2
  BY BitsBelow, Zenon
<1>. QED  BY <1>1, Zenon

LEMMA BitKeptFor ==
  \A w \in Nat : \A m \in Nat : m < 2^w =>
    \A i \in 0..(w - 1) : ((m + 2^w) \div 2^i) % 2 = (m \div 2^i) % 2
<1> SUFFICES ASSUME NEW w \in Nat, NEW m \in Nat, m < 2^w, NEW i \in 0..(w - 1)
             PROVE  ((m + 2^w) \div 2^i) % 2 = (m \div 2^i) % 2
  OBVIOUS
<1>. QED  BY BitKept, Zenon

\* A number is the sum of the powers of two of its bits.
LEMMA SumOfBits ==
  ASSUME NEW w \in Nat, NEW n \in Nat, n < 2^w
  PROVE  SumSet({2^i : i \in OnesOf(n, w)}) = n
<1> DEFINE S(x, v) == {2^i : i \in OnesOf(x, v)}
           Good(v) == \A x \in Nat : x < 2^v => SumSet(S(x, v)) = x
           Bad == {v \in Nat : ~ Good(v)}
<1>0. \A v \in Nat : 2^v \in Nat /\ 2^v >= 1 /\ 2^(v + 1) = 2 * 2^v
  BY PowersOfTwo
<1>1. Bad = {}
  <2> SUFFICES ASSUME Bad # {} PROVE FALSE
    OBVIOUS
  <2>1. PICK v \in Bad : \A l \in Bad : v <= l
    <3>1. Bad \in SUBSET Nat
      BY Zenon
    <3> HIDE DEF Bad
    <3>. QED  BY <3>1, LeastNat
  <2>2. v \in Nat /\ ~ Good(v)
    BY <2>1, Zenon
  <2>3. PICK x \in Nat : x < 2^v /\ SumSet(S(x, v)) # x
    BY <2>2, Zenon
  <2>4. v # 0
    <3> SUFFICES ASSUME v = 0 PROVE FALSE
      OBVIOUS
    <3>1. 2^v = 1
      BY PowersOfTwo
    <3>2. x = 0
      BY <2>3, <3>1
    <3>3. S(x, v) = {}
      BY DEF OnesOf
    <3> HIDE DEF S
    <3>. QED  BY <2>3, <3>2, <3>3, SumSetEmpty
  <2> DEFINE k == v - 1
  <2>5. k \in Nat /\ v = k + 1 /\ ~ (v <= k)
    BY <2>2, <2>4
  <2> HIDE DEF k
  <2>6. Good(k)
    <3>1. k \notin Bad
      <4> HIDE DEF Bad
      <4>. QED  BY <2>1, <2>5
    <3> HIDE DEF Good
    <3>. QED  BY <2>5, <3>1
  <2>7. 2^k \in Nat /\ 2^v = 2 * 2^k
    BY <1>0, <2>5
  <2>8. CASE x < 2^k
    <3>1. (x \div 2^k) % 2 = 0
      BY <2>5, <2>8, BitsBelow
    <3>2. OnesOf(x, v) = OnesOf(x, k)
      <4>1. ~ IsOne(x, k)
        BY <3>1 DEF IsOne
      <4>2. 0..(v - 1) = 0..(k - 1) \cup {k} /\ k \notin 0..(k - 1)
        BY <2>5
      <4>. QED  BY <4>1, <4>2 DEF OnesOf
    <3>3. SumSet(S(x, k)) = x
      <4> HIDE DEF S
      <4>. QED  BY <2>6, <2>8
    <3>. QED  BY <2>3, <3>2, <3>3
  <2>9. CASE ~ (x < 2^k)
    <3> DEFINE m == x - 2^k
    <3>1. m \in Nat /\ m < 2^k /\ x = m + 2^k
      BY <2>3, <2>7, <2>9
    <3> HIDE DEF m
    <3>2. /\ ((m + 2^k) \div 2^k) % 2 = 1
          /\ \A i \in 0..(k - 1) : ((m + 2^k) \div 2^i) % 2 = (m \div 2^i) % 2
      <4>1. k \in Nat /\ m \in Nat /\ m < 2^k
        BY <2>5, <3>1
      <4>2. ((m + 2^k) \div 2^k) % 2 = 1
        BY <4>1, BitsBelow
      <4>3. \A i \in 0..(k - 1) : ((m + 2^k) \div 2^i) % 2 = (m \div 2^i) % 2
        BY <4>1, BitKeptFor, Zenon
      <4>. QED  BY <4>2, <4>3
    <3>3. OnesOf(x, v) = OnesOf(m, k) \cup {k}
      <4>1. \A i \in 0..(k - 1) : IsOne(x, i) <=> IsOne(m, i)
        BY <3>1, <3>2 DEF IsOne
      <4>2. IsOne(x, k)
        BY <3>1, <3>2 DEF IsOne
      <4>3. 0..(v - 1) = 0..(k - 1) \cup {k}
        BY <2>5
      <4>. QED  BY <4>1, <4>2, <4>3 DEF OnesOf
    <3>4. S(x, v) = S(m, k) \cup {2^k}
      BY <3>3
    <3>5. 2^k \notin S(m, k)
      <4>1. \A i \in OnesOf(m, k) : i \in Nat /\ i < k /\ 2^i < 2^k
        BY <2>5, HigherPower DEF OnesOf
      <4>2. \A i \in OnesOf(m, k) : 2^i # 2^k
        <5>1. \A i \in OnesOf(m, k) : 2^i \in Nat
          BY <1>0, <4>1
        <5>. QED  BY <2>7, <4>1, <5>1
      <4>. QED  BY <4>2
    <3>6. S(x, v) \subseteq Nat /\ IsFiniteSet(S(x, v))
      <4>1. OnesOf(x, v) \in SUBSET (0..(v - 1))
        BY DEF OnesOf
      <4>2. IsFiniteSet(OnesOf(x, v))
        <5>1. IsFiniteSet(0..(v - 1))
          BY <2>2, FS_Interval
        <5>. QED  BY <4>1, <5>1, FS_Subset
      <4> DEFINE D == OnesOf(x, v)
                 T == {2^i : i \in D}
                 g == [i \in D |-> 2^i]
      <4>3. g \in Surjection(D, T)
        BY Zenon DEF Surjection
      <4>4. \A i \in D : 2^i \in Nat
        BY <1>0, <4>1
      <4>5. T \subseteq Nat
        BY <4>4
      <4>6. IsFiniteSet(T)
        <5> HIDE DEF g, D, T
        <5>1. IsFiniteSet(D)
          BY <4>2 DEF D
        <5>. QED  BY <4>3, <5>1, FS_Surjection
      <4>. QED  BY <4>5, <4>6
    <3>7. SumSet(S(m, k)) = m
      <4> HIDE DEF S
      <4>. QED  BY <2>6, <3>1
    <3> HIDE DEF S
    <3>8. S(x, v) \ {2^k} = S(m, k) /\ 2^k \in S(x, v)
      BY <3>4, <3>5
    <3>9. SumSet(S(x, v)) = 2^k + m
      BY <3>6, <3>7, <3>8, SumSetAdd
    <3>. QED  BY <2>3, <2>7, <3>1, <3>9
  <2>. QED  BY <2>8, <2>9
<1>2. Good(w)
  <2>1. w \notin Bad
    BY <1>1
  <2> HIDE DEF Good
  <2>. QED  BY <2>1
<1> HIDE DEF S
<1>3. SumSet(S(n, w)) = n
  BY <1>2
<1>. QED  BY <1>3 DEF S

-----------------------------------------------------------------------------
\* FoldLeft with a function on pairs.
FoldOf(F, base, s) == FoldLeft(LAMBDA a, b : F[<<a, b>>], base, s)

\* FoldLeft with a function on T returns an element of T.
LEMMA FoldLeftType ==
  ASSUME NEW T, NEW base \in T, NEW s \in Seq(T), NEW F \in [T \X T -> T]
  PROVE  FoldOf(F, base, s) \in T
<1> DEFINE D == DOMAIN s
           IsResult(f) ==
             f = [u \in SUBSET D |-> IF u = {} THEN base
                                     ELSE F[<<f[u \ {Max(u)}], s[Max(u)]>>]]
<1>1. /\ D = 1..Len(s) /\ Len(s) \in Nat
      /\ \A i \in D : s[i] \in T
  BY LenProperties, ElementOfSeq
<1>2. IsFiniteSet(D)
  BY <1>1, FS_Interval
<1>3. \A u \in SUBSET D : u # {} => Max(u) \in u
  <2> SUFFICES ASSUME NEW u \in SUBSET D, u # {} PROVE Max(u) \in u
    OBVIOUS
  <2>1. u \in SUBSET (0..Len(s))
    BY <1>1
  <2>. QED  BY <1>1, <2>1, MaxOfNats
<1> HIDE DEF D
<1>4. \E f : IsResult(f)
  <2> DEFINE pick == [u \in SUBSET D |-> Max(u)]
             step == [p \in D \X T |-> F[<<p[2], s[p[1]]>>]]
  <2>1. \A u \in SUBSET D : u # {} => pick[u] \in u
    BY <1>3
  <2>2. \A x \in D, t \in T : step[<<x, t>>] = F[<<t, s[x]>>] /\ F[<<t, s[x]>>] \in T
    BY <1>1
  <2>3. \A x \in D, t \in T : step[<<x, t>>] \in T
    BY <2>2
  <2>4. \A u \in SUBSET D : pick[u] = Max(u)
    OBVIOUS
  <2> HIDE DEF pick, step
  <2>5. PICK f \in [SUBSET D -> T] : IsFold(f, D, base, pick, step)
    BY <1>2, <2>1, <2>3, FoldExists
  <2>6. \A u \in SUBSET D :
          f[u] = IF u = {} THEN base ELSE F[<<f[u \ {Max(u)}], s[Max(u)]>>]
    <3> SUFFICES ASSUME NEW u \in SUBSET D, u # {}
                 PROVE  f[u] = F[<<f[u \ {Max(u)}], s[Max(u)]>>]
      BY <2>5 DEF IsFold
    <3>1. Max(u) \in D /\ u \ {Max(u)} \in SUBSET D
      BY <1>3
    <3>2. f[u] = step[<<Max(u), f[u \ {Max(u)}]>>]
      BY <2>4, <2>5 DEF IsFold
    <3>. QED  BY <2>2, <2>5, <3>1, <3>2
  <2>7. IsResult(f)
    BY <2>5, <2>6
  <2> HIDE DEF IsResult
  <2>. QED  BY <2>7
<1> DEFINE f == CHOOSE f : IsResult(f)
<1>5. IsResult(f)
  BY <1>4, Zenon
<1>6. FoldOf(F, base, s) = f[D]
  BY DEF FoldOf, FoldLeft, MapThenFoldSet, D
<1> HIDE DEF f
<1>7. /\ f[{}] = base
      /\ \A u \in SUBSET D : u # {} => f[u] = F[<<f[u \ {Max(u)}], s[Max(u)]>>]
  BY <1>5
<1> DEFINE Others == {u \in SUBSET D : f[u] \notin T}
<1>8. Others = {}
  <2>0. SUFFICES ASSUME Others # {} PROVE FALSE
    OBVIOUS
  <2>1. PICK u \in Others : \A t \in Others : t \subseteq u => t = u
    <3>1. \A t \in Others : t \in SUBSET D
      OBVIOUS
    <3> HIDE DEF Others
    <3>. QED  BY <1>2, <2>0, <3>1, SmallestSubset
  <2>2. u \in SUBSET D /\ f[u] \notin T
    BY <2>1
  <2>3. u # {}
    BY <1>7, <2>2
  <2>4. Max(u) \in u /\ u \ {Max(u)} \notin Others
    BY <1>3, <2>1, <2>2, <2>3
  <2>5. Max(u) \in D /\ f[u \ {Max(u)}] \in T
    BY <2>2, <2>4
  <2>. QED  BY <1>1, <1>7, <2>2, <2>3, <2>5
<1>9. \A u \in SUBSET D : f[u] \in T
  BY <1>8, Zenon
<1>. QED  BY <1>6, <1>9
=============================================================================
