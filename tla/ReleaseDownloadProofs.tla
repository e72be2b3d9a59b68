------------------------ MODULE ReleaseDownloadProofs ------------------------
(***************************************************************************)
(* Theorems about ReleaseDownload and the request and the extraction it is *)
(* made of.  Clean and Parsed are recursive functions: what they compute   *)
(* for every name and every manifest is shown by induction on the parts    *)
(* and the lines, which SetInduction reduces to the well-foundedness of    *)
(* the natural numbers.  The rest is one inductive invariant, DownloadInv, *)
(* and the steps of the refinement under it.                               *)
(***************************************************************************)
EXTENDS ReleaseDownload, FiniteSetTheorems, SequenceTheorems, WellFoundedInduction, TLAPS

-------------------------------------------------------------------------------
(* Induction.                                                                *)

\* A set of numbers that is not empty has a least one.
LEMMA Least ==
    ASSUME NEW T, T \subseteq Nat, T # {}
    PROVE  \E n \in T : \A m \in T : ~(m < n)
<1>1. IsWellFoundedOn(OpToRel(<, Nat), Nat)
  BY NatLessThanWellFounded
<1>2. \E x \in T : \A y \in T : ~(<<y, x>> \in OpToRel(<, Nat))
  BY <1>1, WFMin
<1>3. QED  BY <1>2 DEF OpToRel

\* Induction on a set of numbers.
LEMMA SetInduction ==
    ASSUME NEW T, T \subseteq Nat, 0 \in T, \A n \in T : n + 1 \in T
    PROVE  T = Nat
<1>1. SUFFICES ASSUME Nat \ T # {} PROVE FALSE
  OBVIOUS
<1>2. PICK n \in Nat \ T : \A m \in Nat \ T : ~(m < n)
  BY <1>1, Least
<1>3. n # 0 /\ n - 1 \in Nat
  BY <1>2
<1>4. n - 1 \in T
  BY <1>2, <1>3
<1>5. QED  BY <1>2, <1>4

\* The recursive function is what its definition says.
LEMMA CleanedDef ==
    ASSUME NEW W, NEW name, name.parts \in Seq(W)
    PROVE  Cleaned(name) =
              [k \in 0..Len(name.parts) |->
                  IF k = 0 THEN <<>>
                  ELSE CleanPart(name.absolute, Cleaned(name)[k - 1], name.parts[k])]
<1> DEFINE L == Len(name.parts)
           Is(n, f) == f = [k \in 0..n |->
                  IF k = 0 THEN <<>>
                  ELSE CleanPart(name.absolute, f[k - 1], name.parts[k])]
           T == {n \in Nat : \E f : Is(n, f)}
<1>1. 0 \in T
  <2>1. Is(0, [k \in 0..0 |-> <<>>])
    OBVIOUS
  <2>2. QED  BY <2>1
<1>2. ASSUME NEW n \in T PROVE n + 1 \in T
  <2>1. PICK f : Is(n, f)
    OBVIOUS
  <2> DEFINE g == [k \in 0..n + 1 |->
                     IF k = n + 1 THEN CleanPart(name.absolute, f[n], name.parts[n + 1])
                     ELSE f[k]]
  <2>2. \A k \in 0..n : g[k] = f[k]
    OBVIOUS
  <2>3. \A k \in 1..n : f[k] = CleanPart(name.absolute, f[k - 1], name.parts[k])
    BY <2>1
  <2>4. f[0] = <<>>
    BY <2>1
  <2> HIDE DEF g
  <2>5. Is(n + 1, g)
    BY <2>2, <2>3, <2>4 DEF g
  <2>6. \E h : Is(n + 1, h)
    BY <2>5
  <2>7. n + 1 \in Nat
    OBVIOUS
  <2> HIDE DEF Is
  <2>8. QED  BY <2>6, <2>7
<1>3. T = Nat
  <2> HIDE DEF T
  <2>1. T \subseteq Nat
    BY DEF T
  <2>2. QED  BY <1>1, <1>2, <2>1, SetInduction
<1>4. L \in Nat
  OBVIOUS
<1>5. \E f : Is(L, f)
  BY <1>3, <1>4
<1>6. Cleaned(name) = CHOOSE f : Is(L, f)
  BY DEF Cleaned
<1>7. QED  BY <1>5, <1>6

-------------------------------------------------------------------------------
\* A name is put at the end, and taken from there.
LEMMA Appended ==
    ASSUME NEW S, NEW s \in Seq(S), NEW e \in S
    PROVE  /\ Append(s, e) \in Seq(S)
           /\ Len(Append(s, e)) = Len(s) + 1
           /\ \A j \in 1..Len(s) : Append(s, e)[j] = s[j]
           /\ Append(s, e)[Len(s) + 1] = e
  BY AppendProperties

\* What is left without the last.
LEMMA Fronted ==
    ASSUME NEW S, NEW s \in Seq(S), NEW n \in Nat, Len(s) = n + 1
    PROVE  /\ Front(s) \in Seq(S)
           /\ Len(Front(s)) = n
           /\ \A j \in 1..n : Front(s)[j] = s[j]
<1>1. Front(s) = SubSeq(s, 1, n)
  BY DEF Front
<1>2. QED  BY <1>1

-------------------------------------------------------------------------------
\* One more part is counted, or is not.
LEMMA CountUps ==
    ASSUME NEW parts, NEW i \in Nat, NEW k \in Nat
    PROVE  /\ Ups(parts, i, k) \in Nat
           /\ k < i => Ups(parts, i, k) = 0
           /\ i <= k + 1 /\ parts[k + 1] = ".." =>
                 Ups(parts, i, k + 1) = Ups(parts, i, k) + 1
           /\ i <= k + 1 /\ parts[k + 1] # ".." => Ups(parts, i, k + 1) = Ups(parts, i, k)
<1> DEFINE S(n) == {j \in i..n : parts[j] = ".."}
<1>1. IsFiniteSet(S(k)) /\ Cardinality(S(k)) \in Nat
  <2>1. IsFiniteSet(i..k) /\ S(k) \in SUBSET (i..k)
    BY FS_Interval
  <2>2. QED  BY <2>1, FS_Subset, FS_CardinalityType
<1>2. k < i => S(k) = {}
  OBVIOUS
<1>3. i <= k + 1 => S(k + 1) = IF parts[k + 1] = ".." THEN S(k) \cup {k + 1} ELSE S(k)
  OBVIOUS
<1>4. k + 1 \notin S(k)
  OBVIOUS
<1>5. Cardinality(S(k) \cup {k + 1}) = Cardinality(S(k)) + 1
  <2> HIDE DEF S
  <2>1. QED  BY <1>1, <1>4, FS_AddElement
<1>6. QED
  BY <1>1, <1>2, <1>3, <1>5, FS_EmptySet DEF Ups

\* So are the names.
LEMMA CountDowns ==
    ASSUME NEW parts, NEW i \in Nat, NEW k \in Nat
    PROVE  /\ Downs(parts, i, k) \in Nat
           /\ k < i => Downs(parts, i, k) = 0
           /\ i <= k + 1 /\ parts[k + 1] \notin {".", ".."} =>
                 Downs(parts, i, k + 1) = Downs(parts, i, k) + 1
           /\ i <= k + 1 /\ parts[k + 1] \in {".", ".."} =>
                 Downs(parts, i, k + 1) = Downs(parts, i, k)
<1> DEFINE S(n) == {j \in i..n : parts[j] \notin {".", ".."}}
<1>1. IsFiniteSet(S(k)) /\ Cardinality(S(k)) \in Nat
  <2>1. IsFiniteSet(i..k) /\ S(k) \in SUBSET (i..k)
    BY FS_Interval
  <2>2. QED  BY <2>1, FS_Subset, FS_CardinalityType
<1>2. k < i => S(k) = {}
  OBVIOUS
<1>3. i <= k + 1 =>
        S(k + 1) = IF parts[k + 1] \notin {".", ".."} THEN S(k) \cup {k + 1} ELSE S(k)
  OBVIOUS
<1>4. k + 1 \notin S(k)
  OBVIOUS
<1>5. Cardinality(S(k) \cup {k + 1}) = Cardinality(S(k)) + 1
  <2> HIDE DEF S
  <2>1. QED  BY <1>1, <1>4, FS_AddElement
<1>6. \A n : Downs(parts, i, n) = Cardinality(S(n))
  BY DEF Downs
<1>7. CASE parts[k + 1] \in {".", ".."}
  <2>1. i <= k + 1 => S(k + 1) = S(k)
    BY <1>3, <1>7
  <2> HIDE DEF S
  <2>2. QED  BY <1>1, <1>2, <1>6, <1>7, <2>1, FS_EmptySet
<1>8. CASE parts[k + 1] \notin {".", ".."}
  <2>1. i <= k + 1 => S(k + 1) = S(k) \cup {k + 1}
    BY <1>3, <1>8
  <2> HIDE DEF S
  <2>2. QED  BY <1>1, <1>2, <1>5, <1>6, <1>8, <2>1, FS_EmptySet
<1>9. QED  BY <1>7, <1>8

-------------------------------------------------------------------------------
\* No part leaves nothing.
LEMMA CleanedStart ==
    ASSUME NEW W, NEW name, name.parts \in Seq(W)
    PROVE  Cleaned(name)[0] = <<>>
<1>1. 0 \in 0..Len(name.parts)
  OBVIOUS
<1>2. QED  BY <1>1, CleanedDef

\* One more part is one more step of clean_name.
LEMMA CleanedStep ==
    ASSUME NEW W, NEW name, name.parts \in Seq(W), NEW k \in Nat, k < Len(name.parts)
    PROVE  Cleaned(name)[k + 1] =
              CleanPart(name.absolute, Cleaned(name)[k], name.parts[k + 1])
<1>1. k + 1 \in 0..Len(name.parts) /\ k + 1 # 0 /\ k + 1 - 1 = k
  OBVIOUS
<1>2. QED  BY <1>1, CleanedDef

\* What is left is always a sequence of names.
LEMMA CleanedType ==
    ASSUME NEW W, NEW name, name.parts \in Seq(W), NEW k \in 0..Len(name.parts)
    PROVE  Cleaned(name)[k] \in Seq(W)
<1> DEFINE left == Cleaned(name)
           T == {n \in Nat : n <= Len(name.parts) => left[n] \in Seq(W)}
<1>0. Len(name.parts) \in Nat
  OBVIOUS
<1>1. 0 \in T
  <2>1. left[0] = <<>> /\ <<>> \in Seq(W)
    BY CleanedStart
  <2> HIDE DEF left
  <2>2. QED  BY <2>1, <1>0
<1>2. ASSUME NEW n \in T PROVE n + 1 \in T
  <2>1. CASE n + 1 <= Len(name.parts)
    <3>1. left[n] \in Seq(W) /\ name.parts[n + 1] \in W
      BY <2>1
    <3>2. left[n + 1] = CleanPart(name.absolute, left[n], name.parts[n + 1])
      BY <2>1, CleanedStep
    <3> HIDE DEF left
    <3>3. \A c \in Seq(W) : c # <<>> => Front(c) \in Seq(W)
      BY DEF Front
    <3>4. \A c \in Seq(W), part \in W :
             CleanPart(name.absolute, c, part) \in Seq(W)
      <4>1. SUFFICES ASSUME NEW c \in Seq(W), NEW part \in W
                     PROVE  CleanPart(name.absolute, c, part) \in Seq(W)
        OBVIOUS
      <4>2. Append(c, part) \in Seq(W)
        OBVIOUS
      <4>3. QED  BY <3>3, <4>2 DEF CleanPart
    <3>5. left[n + 1] \in Seq(W)
      BY <3>1, <3>2, <3>4
    <3>6. QED  BY <3>5
  <2>2. QED  BY <2>1, <1>0
<1>3. T = Nat
  <2> HIDE DEF T
  <2>1. T \subseteq Nat
    BY DEF T
  <2>2. QED  BY <1>1, <1>2, <2>1, SetInduction
<1>4. QED  BY <1>3

\* What was once taken outside stays there: no later part takes a ".." back.
LEMMA UpStays ==
    ASSUME NEW W, NEW name, name.parts \in Seq(W),
           ".." \notin ToSet(Cleaned(name)[Len(name.parts)]),
           NEW k \in 0..Len(name.parts)
    PROVE  ".." \notin ToSet(Cleaned(name)[k])
<1> DEFINE left == Cleaned(name)
           L == Len(name.parts)
           T == {n \in Nat : n <= L => ".." \notin ToSet(left[L - n])}
<1>0. L \in Nat
  OBVIOUS
<1>1. 0 \in T
  BY <1>0
<1>2. ASSUME NEW n \in T PROVE n + 1 \in T
  <2>1. CASE n + 1 <= L
    <3> DEFINE j == L - (n + 1)
               c == left[j]
               d == left[j + 1]
    <3>1. j \in Nat /\ j < L /\ j + 1 = L - n
      BY <1>0, <2>1
    <3>2. ".." \notin ToSet(d)
      BY <3>1, <2>1
    <3>3. d = CleanPart(name.absolute, c, name.parts[j + 1])
      BY <3>1, CleanedStep
    <3>4. c \in Seq(W)
      BY <3>1, CleanedType
    <3> HIDE DEF c, d
    <3>5. ASSUME NEW i \in 1..Len(c), c[i] = ".."
          PROVE  ".." \in ToSet(d)
      <4>1. CASE d = c
        BY <3>4, <3>5, <4>1 DEF ToSet
      <4>2. ASSUME NEW part, d = Append(c, part)
            PROVE  ".." \in ToSet(d)
        <5>1. i \in DOMAIN d /\ d[i] = ".."
          BY <3>4, <3>5, <4>2
        <5>2. QED  BY <5>1 DEF ToSet
      <4>3. CASE c # <<>> /\ Last(c) # ".." /\ d = Front(c)
        <5>1. i # Len(c)
          BY <3>5, <4>3 DEF Last
        <5>2. i \in DOMAIN d /\ d[i] = ".."
          BY <3>4, <3>5, <4>3, <5>1 DEF Front
        <5>3. QED  BY <5>2 DEF ToSet
      <4>4. QED  BY <3>3, <4>1, <4>2, <4>3 DEF CleanPart
    <3>6. ".." \notin ToSet(c)
      BY <3>2, <3>4, <3>5 DEF ToSet
    <3>7. QED  BY <3>6 DEF c
  <2>2. QED  BY <2>1, <1>0
<1>3. T = Nat
  <2> HIDE DEF T
  <2>1. T \subseteq Nat
    BY DEF T
  <2>2. QED  BY <1>1, <1>2, <2>1, SetInduction
<1>4. L - k \in Nat /\ L - k <= L /\ L - (L - k) = k
  BY <1>0
<1>5. QED  BY <1>3, <1>4

\* A name that comes last is one, and no ".." follows it.
LEMMA CountLast ==
    ASSUME NEW parts, NEW k \in Nat, parts[k + 1] \notin {".", ".."}
    PROVE  Ups(parts, k + 1, k + 1) = 0 /\ Downs(parts, k + 1, k + 1) = 1
<1>1. (k + 1)..(k + 1) = {k + 1}
  OBVIOUS
<1>2. {j \in (k + 1)..(k + 1) : parts[j] = ".."} = {}
  BY <1>1
<1>3. {j \in (k + 1)..(k + 1) : parts[j] \notin {".", ".."}} = {k + 1}
  BY <1>1
<1>4. QED  BY <1>2, <1>3, FS_EmptySet, FS_Singleton DEF Ups, Downs

-------------------------------------------------------------------------------
\* The parts that survive the first k, and where the names that are left were.
Kept(parts, k) ==
    {i \in 1..k : /\ parts[i] \notin {".", ".."}
                  /\ \A q \in i..k : Ups(parts, i, q) < Downs(parts, i, q)}

Located(parts, k, left, at) ==
    /\ at \in [1..Len(left) -> 1..k]
    /\ \A j \in 1..Len(left) : left[j] = parts[at[j]]
    /\ \A j, h \in 1..Len(left) : j < h => at[j] < at[h]
    /\ \A j \in 1..Len(left) : at[j] \in Kept(parts, k)
    /\ \A i \in Kept(parts, k) : \E j \in 1..Len(left) : at[j] = i
    /\ \A j \in 1..Len(left) :
          Downs(parts, at[j], k) = Ups(parts, at[j], k) + (Len(left) - j) + 1

\* Whether a part survives one more.
LEMMA KeptStep ==
    ASSUME NEW parts, NEW k \in Nat
    PROVE  /\ \A i \in 1..k :
                 i \in Kept(parts, k + 1) <=>
                    i \in Kept(parts, k) /\ Ups(parts, i, k + 1) < Downs(parts, i, k + 1)
           /\ k + 1 \in Kept(parts, k + 1) <=> parts[k + 1] \notin {".", ".."}
<1>1. ASSUME NEW i \in 1..k
      PROVE  i \in Kept(parts, k + 1) <=>
                i \in Kept(parts, k) /\ Ups(parts, i, k + 1) < Downs(parts, i, k + 1)
  <2>1. i..k + 1 = (i..k) \cup {k + 1}
    OBVIOUS
  <2>2. QED  BY <2>1 DEF Kept
<1>2. ASSUME parts[k + 1] \notin {".", ".."}
      PROVE  k + 1 \in Kept(parts, k + 1)
  <2>1. Ups(parts, k + 1, k + 1) = 0 /\ Downs(parts, k + 1, k + 1) = 1
    BY <1>2, CountLast
  <2>2. QED  BY <1>2, <2>1 DEF Kept
<1>3. k + 1 \in Kept(parts, k + 1) => parts[k + 1] \notin {".", ".."}
  BY DEF Kept
<1>4. QED  BY <1>1, <1>2, <1>3

\* The names that are left are those that survive.
LEMMA LocatedStep ==
    ASSUME NEW W, NEW parts \in Seq(W), NEW k \in Nat, k < Len(parts),
           NEW left \in Seq(W), ".." \notin ToSet(left),
           NEW at, Located(parts, k, left, at),
           NEW next, next = CleanPart(FALSE, left, parts[k + 1]),
           ".." \notin ToSet(next)
    PROVE  \E to : Located(parts, k + 1, next, to)
<1> DEFINE part == parts[k + 1]
<1>0. Len(left) \in Nat /\ part \in W
  OBVIOUS
<1>1. ASSUME NEW i \in 1..k
      PROVE  /\ Ups(parts, i, k) \in Nat /\ Downs(parts, i, k) \in Nat
             /\ part = ".." => /\ Ups(parts, i, k + 1) = Ups(parts, i, k) + 1
                              /\ Downs(parts, i, k + 1) = Downs(parts, i, k)
             /\ part = "." => /\ Ups(parts, i, k + 1) = Ups(parts, i, k)
                             /\ Downs(parts, i, k + 1) = Downs(parts, i, k)
             /\ part \notin {".", ".."} =>
                   /\ Ups(parts, i, k + 1) = Ups(parts, i, k)
                   /\ Downs(parts, i, k + 1) = Downs(parts, i, k) + 1
  <2>1. i \in Nat /\ i <= k + 1
    OBVIOUS
  <2>2. QED  BY <2>1, CountUps, CountDowns
<1>2. \A i \in Kept(parts, k) :
         i \in 1..k /\ Ups(parts, i, k) < Downs(parts, i, k)
  BY DEF Kept
<1>3. Kept(parts, k + 1) \subseteq 1..k + 1
  BY DEF Kept
<1>4. \A j \in 1..Len(left) : at[j] \in 1..k
  BY DEF Located
<1>5. CASE part = "."
  <2>1. next = left
    BY <1>5 DEF CleanPart
  <2>2. Kept(parts, k + 1) = Kept(parts, k)
    <3>1. ASSUME NEW i \in 1..k
          PROVE  i \in Kept(parts, k + 1) <=> i \in Kept(parts, k)
      BY <1>1, <1>2, <1>5, KeptStep
    <3>2. k + 1 \notin Kept(parts, k + 1)
      BY <1>5, KeptStep
    <3>3. \A i \in 1..k + 1 : i \in 1..k \/ i = k + 1
      OBVIOUS
    <3>4. QED  BY <1>2, <1>3, <3>1, <3>2, <3>3
  <2>3. at \in [1..Len(left) -> 1..k + 1]
    BY DEF Located
  <2>4. \A j \in 1..Len(left) :
           Downs(parts, at[j], k + 1) = Ups(parts, at[j], k + 1) + (Len(left) - j) + 1
    BY <1>1, <1>4, <1>5 DEF Located
  <2>5. Located(parts, k + 1, left, at)
    BY <2>2, <2>3, <2>4 DEF Located
  <2>6. QED  BY <2>1, <2>5
<1>6. CASE part \notin {".", ".."}
  <2> DEFINE m == Len(left) + 1
             longer == Append(left, part)
             to == [j \in 1..m |-> IF j = m THEN k + 1 ELSE at[j]]
  <2>1. next = longer
    BY <1>6 DEF CleanPart
  <2>2. Kept(parts, k + 1) = Kept(parts, k) \cup {k + 1}
    <3>1. ASSUME NEW i \in 1..k
          PROVE  i \in Kept(parts, k + 1) <=> i \in Kept(parts, k)
      <4>1. Ups(parts, i, k) < Downs(parts, i, k) =>
               Ups(parts, i, k + 1) < Downs(parts, i, k + 1)
        BY <1>1, <1>6
      <4>2. QED  BY <1>2, <4>1, KeptStep
    <3>2. k + 1 \in Kept(parts, k + 1)
      BY <1>6, KeptStep
    <3>3. \A i \in 1..k + 1 : i \in 1..k \/ i = k + 1
      OBVIOUS
    <3>4. QED  BY <1>2, <1>3, <3>1, <3>2, <3>3
  <2>3. /\ Len(longer) = m /\ longer[m] = part
        /\ \A j \in 1..Len(left) : longer[j] = left[j]
    BY <1>0, Appended
  <2>4. m \in Nat /\ Len(left) = m - 1 /\ 1..m = (1..Len(left)) \cup {m}
    BY <1>0
  <2> HIDE DEF m, longer
  <2>5. to[m] = k + 1 /\ \A j \in 1..Len(left) : to[j] = at[j] /\ j \in 1..m /\ j < m
    BY <2>4
  <2>6. to \in [1..m -> 1..k + 1]
    BY <1>4, <2>4
  <2> HIDE DEF to
  <2>7. \A j \in 1..m : longer[j] = parts[to[j]]
    BY <2>3, <2>4, <2>5 DEF Located
  <2>8. ASSUME NEW j \in 1..m, NEW h \in 1..m, j < h
        PROVE  to[j] < to[h]
    <3>1. j \in 1..Len(left)
      BY <2>4, <2>8
    <3>2. to[j] = at[j] /\ at[j] \in 1..k
      BY <1>4, <2>5, <3>1
    <3>3. CASE h = m
      BY <2>5, <3>2, <3>3
    <3>4. CASE h \in 1..Len(left)
      BY <2>5, <2>8, <3>1, <3>2, <3>4 DEF Located
    <3>5. QED  BY <2>4, <3>3, <3>4
  <2>9. /\ \A j \in 1..m : to[j] \in Kept(parts, k + 1)
        /\ \A i \in Kept(parts, k + 1) : \E j \in 1..m : to[j] = i
    BY <2>2, <2>4, <2>5 DEF Located
  <2>10. ASSUME NEW j \in 1..m
         PROVE  Downs(parts, to[j], k + 1) = Ups(parts, to[j], k + 1) + (m - j) + 1
    <3>1. CASE j = m
      BY <1>6, <2>4, <2>5, <3>1, CountLast
    <3>2. CASE j \in 1..Len(left)
      <4>1. Downs(parts, at[j], k) = Ups(parts, at[j], k) + (m - 1 - j) + 1
        BY <2>4, <3>2 DEF Located
      <4>2. /\ Ups(parts, at[j], k) \in Nat /\ Downs(parts, at[j], k) \in Nat
            /\ Ups(parts, at[j], k + 1) = Ups(parts, at[j], k)
            /\ Downs(parts, at[j], k + 1) = Downs(parts, at[j], k) + 1
        BY <1>1, <1>4, <1>6, <3>2
      <4>3. Downs(parts, at[j], k + 1) = Ups(parts, at[j], k + 1) + (m - j) + 1
        BY <2>4, <4>1, <4>2
      <4>4. QED  BY <2>5, <3>2, <4>3
    <3>3. QED  BY <2>4, <3>1, <3>2
  <2>11. Located(parts, k + 1, longer, to)
    BY <2>3, <2>6, <2>7, <2>8, <2>9, <2>10 DEF Located
  <2>12. QED  BY <2>1, <2>11
<1>7. CASE part = ".."
  <2> DEFINE n == Len(left) - 1
             to == [j \in 1..n |-> at[j]]
  <2>1. left # <<>>
    <3>1. SUFFICES ASSUME left = <<>> PROVE FALSE
      OBVIOUS
    <3>2. next = Append(left, "..") /\ Len(left) = 0
      BY <1>7, <3>1 DEF CleanPart
    <3>3. /\ Len(Append(left, part)) = 1 /\ Append(left, part)[1] = part
          /\ Append(left, part) \in Seq(W)
      BY <1>0, <3>2, Appended
    <3>4. 1 \in DOMAIN Append(left, part) /\ Append(left, part)[1] = ".."
      BY <1>7, <3>3
    <3>5. ".." \in ToSet(Append(left, part))
      BY <3>4 DEF ToSet
    <3>6. QED  BY <1>7, <3>2, <3>5
  <2>2. n \in Nat /\ Len(left) = n + 1
    BY <1>0, <2>1
  <2>3. Last(left) # ".."
    BY <2>1, <2>2 DEF Last, ToSet
  <2>4. next = Front(left)
    BY <1>7, <2>1, <2>3 DEF CleanPart
  <2>5. Len(next) = n /\ \A j \in 1..n : next[j] = left[j]
    <3> HIDE DEF n
    <3>1. QED  BY <2>2, <2>4, Fronted
  <2>6. at[n + 1] \in 1..k
    BY <1>4, <2>2
  <2>7. \A j \in 1..n + 1 :
           Downs(parts, at[j], k + 1) = Ups(parts, at[j], k + 1) + (n - j) + 1
    <3>1. ASSUME NEW j \in 1..n + 1
          PROVE  Downs(parts, at[j], k + 1) = Ups(parts, at[j], k + 1) + (n - j) + 1
      <4> HIDE DEF n
      <4>1. j \in 1..Len(left) /\ at[j] \in 1..k
        BY <1>4, <2>2
      <4>2. Downs(parts, at[j], k) = Ups(parts, at[j], k) + (Len(left) - j) + 1
        BY <4>1 DEF Located
      <4>3. QED  BY <1>1, <1>7, <2>2, <4>1, <4>2
    <3>2. QED  BY <3>1
  <2>8. \A j \in 1..n : at[j] \in Kept(parts, k + 1)
    <3>1. ASSUME NEW j \in 1..n
          PROVE  at[j] \in Kept(parts, k + 1)
      <4>1. at[j] \in Kept(parts, k) /\ at[j] \in 1..k
        BY <1>4, <2>2 DEF Located
      <4>2. Ups(parts, at[j], k + 1) \in Nat
        <5>1. Ups(parts, at[j], k) \in Nat
          BY <1>1, <4>1
        <5>2. Ups(parts, at[j], k + 1) = Ups(parts, at[j], k) + 1
          BY <1>1, <1>7, <4>1
        <5>3. QED  BY <5>1, <5>2
      <4>3. Ups(parts, at[j], k + 1) < Downs(parts, at[j], k + 1)
        BY <2>2, <2>7, <4>2
      <4>4. QED  BY <4>1, <4>3, KeptStep
    <3>2. QED  BY <3>1
  <2>9. at[n + 1] \notin Kept(parts, k + 1)
    <3>1. Ups(parts, at[n + 1], k + 1) \in Nat
      BY <1>1, <1>7, <2>6
    <3>2. ~(Ups(parts, at[n + 1], k + 1) < Downs(parts, at[n + 1], k + 1))
      BY <2>2, <2>7, <3>1
    <3>3. QED  BY <2>6, <3>2, KeptStep
  <2>10. ASSUME NEW i \in Kept(parts, k + 1)
         PROVE  \E j \in 1..n : at[j] = i
    <3>1. i \in Kept(parts, k)
      BY <1>3, <1>7, KeptStep
    <3>2. PICK j \in 1..n + 1 : at[j] = i
      BY <2>2, <3>1 DEF Located
    <3>3. j # n + 1
      BY <2>9, <3>2
    <3>4. j \in 1..n
      <4> HIDE DEF n
      <4>1. QED  BY <2>2, <3>3
    <3>5. QED  BY <3>2, <3>4
  <2>11. \A j \in 1..n : to[j] = at[j] /\ j \in 1..Len(left) /\ j \in 1..n + 1
    BY <2>2
  <2>12. to \in [1..n -> 1..k + 1]
    BY <1>4, <2>11
  <2> HIDE DEF n, to
  <2>13. /\ \A j \in 1..n : next[j] = parts[to[j]]
         /\ \A j, h \in 1..n : j < h => to[j] < to[h]
    <3>1. ASSUME NEW j \in 1..n
          PROVE  next[j] = parts[to[j]]
      <4>1. left[j] = parts[at[j]]
        BY <2>11 DEF Located
      <4>2. QED  BY <2>5, <2>11, <4>1
    <3>2. ASSUME NEW j \in 1..n, NEW h \in 1..n, j < h
          PROVE  to[j] < to[h]
      <4>1. j \in 1..Len(left) /\ h \in 1..Len(left) /\ to[j] = at[j] /\ to[h] = at[h]
        BY <2>11
      <4>2. at[j] < at[h]
        BY <3>2, <4>1 DEF Located
      <4>3. QED  BY <4>1, <4>2
    <3>3. QED  BY <3>1, <3>2
  <2>14. /\ \A j \in 1..n : to[j] \in Kept(parts, k + 1)
         /\ \A i \in Kept(parts, k + 1) : \E j \in 1..n : to[j] = i
         /\ \A j \in 1..n :
               Downs(parts, to[j], k + 1) = Ups(parts, to[j], k + 1) + (n - j) + 1
    BY <2>7, <2>8, <2>10, <2>11
  <2>15. Located(parts, k + 1, next, to)
    BY <2>5, <2>12, <2>13, <2>14 DEF Located
  <2>16. QED  BY <2>15
<1>8. QED  BY <1>5, <1>6, <1>7

\* As many names are left as there are more of them than "..".
LEMMA DepthStep ==
    ASSUME NEW W, NEW parts \in Seq(W), NEW k \in Nat, k < Len(parts),
           NEW left \in Seq(W), ".." \notin ToSet(left),
           Downs(parts, 1, k) = Ups(parts, 1, k) + Len(left),
           NEW next, next = CleanPart(FALSE, left, parts[k + 1]),
           ".." \notin ToSet(next)
    PROVE  Downs(parts, 1, k + 1) = Ups(parts, 1, k + 1) + Len(next)
<1> DEFINE part == parts[k + 1]
<1>0. /\ Len(left) \in Nat /\ part \in W /\ 1 \in Nat /\ 1 <= k + 1
      /\ Ups(parts, 1, k) \in Nat /\ Downs(parts, 1, k) \in Nat
  <2>1. 1 \in Nat /\ 1 <= k + 1
    OBVIOUS
  <2>2. Ups(parts, 1, k) \in Nat /\ Downs(parts, 1, k) \in Nat
    BY <2>1, CountUps, CountDowns
  <2>3. Len(left) \in Nat /\ part \in W
    OBVIOUS
  <2>4. QED  BY <2>1, <2>2, <2>3
<1>1. CASE part = "."
  <2>1. next = left
    BY <1>1 DEF CleanPart
  <2>2. /\ Ups(parts, 1, k + 1) = Ups(parts, 1, k)
        /\ Downs(parts, 1, k + 1) = Downs(parts, 1, k)
    BY <1>0, <1>1, CountUps, CountDowns
  <2>3. QED  BY <2>1, <2>2
<1>2. CASE part \notin {".", ".."}
  <2> DEFINE longer == Append(left, part)
  <2>1. next = longer
    BY <1>2 DEF CleanPart
  <2>2. Len(longer) = Len(left) + 1
    BY <1>0, Appended
  <2>3. /\ Ups(parts, 1, k + 1) = Ups(parts, 1, k)
        /\ Downs(parts, 1, k + 1) = Downs(parts, 1, k) + 1
    BY <1>0, <1>2, CountUps, CountDowns
  <2> HIDE DEF longer
  <2>4. Downs(parts, 1, k + 1) = Ups(parts, 1, k + 1) + Len(longer)
    BY <1>0, <2>2, <2>3
  <2>5. QED  BY <2>1, <2>4
<1>3. CASE part = ".."
  <2> DEFINE n == Len(left) - 1
             shorter == Front(left)
  <2>1. left # <<>>
    <3>1. SUFFICES ASSUME left = <<>> PROVE FALSE
      OBVIOUS
    <3>2. next = Append(left, part) /\ Len(left) = 0
      BY <1>3, <3>1 DEF CleanPart
    <3>3. /\ Len(Append(left, part)) = 1 /\ Append(left, part)[1] = part
          /\ Append(left, part) \in Seq(W)
      BY <1>0, <3>2, Appended
    <3>4. 1 \in DOMAIN Append(left, part) /\ Append(left, part)[1] = ".."
      BY <1>3, <3>3
    <3>5. ".." \in ToSet(Append(left, part))
      BY <3>4 DEF ToSet
    <3>6. QED  BY <1>3, <3>2, <3>5
  <2>2. n \in Nat /\ Len(left) = n + 1
    BY <1>0, <2>1
  <2>3. Last(left) # ".."
    BY <2>1, <2>2 DEF Last, ToSet
  <2>4. next = shorter
    BY <1>3, <2>1, <2>3 DEF CleanPart
  <2>5. /\ Ups(parts, 1, k + 1) = Ups(parts, 1, k) + 1
        /\ Downs(parts, 1, k + 1) = Downs(parts, 1, k)
    BY <1>0, <1>3, CountUps, CountDowns
  <2> HIDE DEF n
  <2>6. Len(shorter) = n
    BY <2>2, Fronted
  <2> HIDE DEF shorter
  <2>7. Downs(parts, 1, k + 1) = Ups(parts, 1, k + 1) + Len(shorter)
    BY <1>0, <2>2, <2>5, <2>6
  <2>8. QED  BY <2>4, <2>7
<1>4. QED  BY <1>1, <1>2, <1>3

\* What is left of a relative name whose cleaning ends inside is, after each of
\* its parts, what survives of them.
LEMMA LeftSurvives ==
    ASSUME NEW W, NEW name, name.parts \in Seq(W), name.absolute = FALSE,
           ".." \notin ToSet(Cleaned(name)[Len(name.parts)]),
           NEW k \in 0..Len(name.parts)
    PROVE  /\ \E at : Located(name.parts, k, Cleaned(name)[k], at)
           /\ Downs(name.parts, 1, k) = Ups(name.parts, 1, k) + Len(Cleaned(name)[k])
<1> DEFINE parts == name.parts
           left(n) == Cleaned(name)[n]
           Good(n) == /\ \E at : Located(parts, n, left(n), at)
                      /\ Downs(parts, 1, n) = Ups(parts, 1, n) + Len(left(n))
           T == {n \in Nat : n <= Len(parts) => Good(n)}
<1>0. Len(parts) \in Nat
  OBVIOUS
<1>1. Good(0)
  <2>1. left(0) = <<>> /\ Len(left(0)) = 0
    BY CleanedStart
  <2>2. Ups(parts, 1, 0) = 0 /\ Downs(parts, 1, 0) = 0
    <3>1. 0 \in Nat /\ 1 \in Nat /\ 0 < 1
      OBVIOUS
    <3>2. QED  BY <3>1, CountUps, CountDowns
  <2>3. Kept(parts, 0) = {}
    BY DEF Kept
  <2> DEFINE at == [j \in 1..0 |-> j]
  <2>4. at \in [1..0 -> 1..0]
    OBVIOUS
  <2>5. Located(parts, 0, <<>>, at)
    BY <2>3, <2>4 DEF Located
  <2>6. QED  BY <2>1, <2>2, <2>5
<1>2. ASSUME NEW n \in Nat, n < Len(parts), Good(n)
      PROVE  Good(n + 1)
  <2>1. n \in 0..Len(parts) /\ n + 1 \in 0..Len(parts)
    BY <1>2
  <2>2. ".." \notin ToSet(left(n)) /\ ".." \notin ToSet(left(n + 1))
    BY <2>1, UpStays
  <2>3. left(n) \in Seq(W)
    BY <2>1, CleanedType
  <2>4. left(n + 1) = CleanPart(FALSE, left(n), parts[n + 1])
    BY <1>2, CleanedStep
  <2> HIDE DEF left, parts
  <2>5. parts \in Seq(W)
    BY DEF parts
  <2>6. PICK at : Located(parts, n, left(n), at)
    BY <1>2
  <2>7. \E to : Located(parts, n + 1, left(n + 1), to)
    BY <1>2, <2>2, <2>3, <2>4, <2>5, <2>6, LocatedStep
  <2>8. Downs(parts, 1, n + 1) = Ups(parts, 1, n + 1) + Len(left(n + 1))
    BY <1>2, <2>2, <2>3, <2>4, <2>5, DepthStep
  <2>9. QED  BY <2>7, <2>8
<1>3. T = Nat
  <2> HIDE DEF Good
  <2>1. 0 \in T
    BY <1>1
  <2>2. \A n \in T : n + 1 \in T
    BY <1>0, <1>2
  <2>3. T \subseteq Nat
    OBVIOUS
  <2> HIDE DEF T
  <2>4. QED  BY <2>1, <2>2, <2>3, SetInduction
<1>4. QED  BY <1>0, <1>3

-------------------------------------------------------------------------------
\* The places are the surviving parts in their order: the j-th has j - 1 before
\* it, and no other one has.
LEMMA InOrder ==
    ASSUME NEW parts, NEW k \in Nat, NEW W, NEW left \in Seq(W), NEW at,
           Located(parts, k, left, at), NEW kept, kept = Kept(parts, k)
    PROVE  /\ Cardinality(kept) = Len(left)
           /\ \A j \in 1..Len(left) : at[j] = Nth(kept, j)
<1> DEFINE m == Len(left)
           Before(i) == {h \in kept : h < i}
<1>0. m \in Nat /\ kept \subseteq Nat
  BY DEF Kept
<1>1. /\ at \in [1..m -> kept]
      /\ \A j, h \in 1..m : j < h => at[j] < at[h]
      /\ \A i \in kept : \E j \in 1..m : at[j] = i
  BY DEF Located
<1> HIDE DEF m
<1>2. ASSUME NEW j \in 1..m, NEW h \in 1..m
      PROVE  /\ at[j] < at[h] => j < h
             /\ at[j] = at[h] => j = h
  <2>1. at[j] \in Nat /\ at[h] \in Nat /\ j \in Nat /\ h \in Nat
    BY <1>0, <1>1
  <2>2. h < j => at[h] < at[j]
    BY <1>1
  <2>3. j < h => at[j] < at[h]
    BY <1>1
  <2>4. QED  BY <2>1, <2>2, <2>3
<1>3. ASSUME NEW j \in 1..m
      PROVE  Cardinality(Before(at[j])) = j - 1
  <2> DEFINE f == [h \in 1..j - 1 |-> at[h]]
  <2>1. j - 1 \in Nat /\ \A h \in 1..j - 1 : h \in 1..m /\ h < j /\ f[h] = at[h]
    BY <1>0
  <2>2. f \in [1..j - 1 -> Before(at[j])]
    BY <1>1, <2>1
  <2>3. \A a, b \in 1..j - 1 : f[a] = f[b] => a = b
    BY <1>2, <2>1
  <2>4. ASSUME NEW i \in Before(at[j])
        PROVE  \E h \in 1..j - 1 : f[h] = i
    <3>1. PICK h \in 1..m : at[h] = i
      BY <1>1
    <3>2. h < j
      BY <1>2, <3>1
    <3>3. h \in 1..j - 1
      BY <1>0, <3>2
    <3>4. QED  BY <2>1, <3>1, <3>3
  <2> HIDE DEF f, Before
  <2>5. f \in Bijection(1..j - 1, Before(at[j]))
    BY <2>2, <2>3, <2>4 DEF Bijection, Injection, Surjection, IsInjective
  <2>6. ExistsBijection(1..j - 1, Before(at[j]))
    BY <2>5 DEF ExistsBijection
  <2>7. QED  BY <2>1, <2>6, FS_CountingElements
<1>4. Cardinality(kept) = m
  <2>1. \A a, b \in 1..m : at[a] = at[b] => a = b
    BY <1>2
  <2>2. at \in Bijection(1..m, kept)
    BY <1>1, <2>1 DEF Bijection, Injection, Surjection, IsInjective
  <2>3. ExistsBijection(1..m, kept)
    BY <2>2 DEF ExistsBijection
  <2>4. QED  BY <1>0, <2>3, FS_CountingElements
<1>5. ASSUME NEW j \in 1..m
      PROVE  at[j] = Nth(kept, j)
  <2>1. ASSUME NEW i \in kept, Cardinality(Before(i)) = j - 1
        PROVE  i = at[j]
    <3>1. PICK h \in 1..m : at[h] = i
      BY <1>1
    <3> HIDE DEF Before
    <3>2. h - 1 = j - 1
      BY <1>3, <2>1, <3>1
    <3>3. QED  BY <1>0, <3>1, <3>2
  <2>2. at[j] \in kept /\ Cardinality(Before(at[j])) = j - 1
    BY <1>1, <1>3
  <2>3. Nth(kept, j) = CHOOSE i \in kept : Cardinality(Before(i)) = j - 1
    BY DEF Nth
  <2> HIDE DEF Before
  <2>4. QED  BY <2>1, <2>2, <2>3
<1>6. QED  BY <1>4, <1>5 DEF m

\* clean_name of a name that is accepted is what the name means, and the name does
\* not lead outside.
LEMMA CleanIsMeant ==
    ASSUME NEW name \in RawNames, Valid(name)
    PROVE  /\ name \notin Outside
           /\ Clean[name] = Meant[name]
           /\ Clean[name] \in Seq(STRING)
<1> DEFINE parts == name.parts
           L == Len(parts)
           left(n) == Cleaned(name)[n]
<1>1. parts \in Seq(STRING) /\ name.absolute \in BOOLEAN
  BY NamesAssumption
<1>2. name.absolute = FALSE /\ Clean[name] = left(L)
  BY <1>1 DEF Valid, Clean
<1>3. ".." \notin ToSet(left(L))
  BY <1>2 DEF Valid
<1>4. \A k \in 0..L :
         /\ left(k) \in Seq(STRING)
         /\ \E at : Located(parts, k, left(k), at)
         /\ Downs(parts, 1, k) = Ups(parts, 1, k) + Len(left(k))
  BY <1>1, <1>2, <1>3, LeftSurvives, CleanedType
<1>5. L \in Nat /\ L \in 0..L /\ DOMAIN parts = 1..L
  BY <1>1
<1>6. name \notin Outside
  <2>1. SUFFICES ASSUME NEW k \in 1..L, Ups(parts, 1, k) > Downs(parts, 1, k)
                 PROVE  FALSE
    BY <1>2, <1>5 DEF Outside
  <2>2. Len(left(k)) \in Nat /\ Downs(parts, 1, k) = Ups(parts, 1, k) + Len(left(k))
    BY <1>4
  <2>3. k \in Nat /\ 1 \in Nat
    OBVIOUS
  <2>4. Ups(parts, 1, k) \in Nat
    BY <2>3, CountUps
  <2> HIDE DEF left
  <2>5. QED  BY <2>1, <2>2, <2>4
<1>7. Clean[name] = Meant[name]
  <2> DEFINE kept == {i \in DOMAIN parts : Survives(parts, i)}
  <2>1. PICK at : Located(parts, L, left(L), at)
    BY <1>4, <1>5
  <2>2. kept = Kept(parts, L)
    BY <1>5 DEF Survives, Kept
  <2>3. Meant[name] = [n \in 1..Cardinality(kept) |-> parts[Nth(kept, n)]]
    BY DEF Meant
  <2> HIDE DEF kept, left
  <2>4. left(L) \in Seq(STRING)
    BY <1>4, <1>5
  <2>5. /\ Cardinality(kept) = Len(left(L))
        /\ \A j \in 1..Len(left(L)) : at[j] = Nth(kept, j)
    BY <1>5, <2>1, <2>2, <2>4, InOrder
  <2>6. \A j \in 1..Len(left(L)) : left(L)[j] = parts[at[j]]
    BY <2>1 DEF Located
  <2>7. left(L) = [n \in 1..Len(left(L)) |-> left(L)[n]]
    BY <2>4
  <2>8. \A n \in 1..Len(left(L)) : left(L)[n] = parts[Nth(kept, n)]
    BY <2>5, <2>6
  <2>9. left(L) = [n \in 1..Len(left(L)) |-> parts[Nth(kept, n)]]
    BY <2>7, <2>8
  <2>10. QED  BY <1>2, <2>3, <2>5, <2>9
<1>8. QED  BY <1>2, <1>4, <1>5, <1>6, <1>7

-------------------------------------------------------------------------------
(* The manifest.                                                             *)

\* The recursive function is what its definition says.
LEMMA InsertedDef ==
    ASSUME NEW W, NEW lines \in Seq(W)
    PROVE  Inserted(lines) =
              [k \in 0..Len(lines) |->
                  IF k = 0 THEN <<>> ELSE InsertLine(Inserted(lines)[k - 1], lines[k])]
<1> DEFINE L == Len(lines)
           Is(n, f) == f = [k \in 0..n |->
                  IF k = 0 THEN <<>> ELSE InsertLine(f[k - 1], lines[k])]
           T == {n \in Nat : \E f : Is(n, f)}
<1>1. 0 \in T
  <2>1. Is(0, [k \in 0..0 |-> <<>>])
    OBVIOUS
  <2>2. QED  BY <2>1
<1>2. ASSUME NEW n \in T PROVE n + 1 \in T
  <2>1. PICK f : Is(n, f)
    OBVIOUS
  <2> DEFINE g == [k \in 0..n + 1 |->
                     IF k = n + 1 THEN InsertLine(f[n], lines[n + 1]) ELSE f[k]]
  <2>2. \A k \in 0..n : g[k] = f[k]
    OBVIOUS
  <2>3. \A k \in 1..n : f[k] = InsertLine(f[k - 1], lines[k])
    BY <2>1
  <2>4. f[0] = <<>>
    BY <2>1
  <2> HIDE DEF g
  <2>5. Is(n + 1, g)
    BY <2>2, <2>3, <2>4 DEF g
  <2>6. \E h : Is(n + 1, h)
    BY <2>5
  <2>7. n + 1 \in Nat
    OBVIOUS
  <2> HIDE DEF Is
  <2>8. QED  BY <2>6, <2>7
<1>3. T = Nat
  <2> HIDE DEF T
  <2>1. T \subseteq Nat
    BY DEF T
  <2>2. QED  BY <1>1, <1>2, <2>1, SetInduction
<1>4. L \in Nat
  OBVIOUS
<1>5. \E f : Is(L, f)
  BY <1>3, <1>4
<1>6. Inserted(lines) = CHOOSE f : Is(L, f)
  BY DEF Inserted
<1>7. QED  BY <1>5, <1>6

\* A sum is that of the last line about its name.
IsLast(lines, k, name, sum) ==
    \E i \in 1..k :
        /\ lines[i] # NoLine /\ lines[i] = [name |-> name, sum |-> sum]
        /\ \A j \in i + 1..k : lines[j] # NoLine => lines[j].name # name

\* One more line is one more sum, or a later one.
LEMMA InsertStep ==
    ASSUME NEW lines \in Seq([name : Assets, sum : Sums] \cup {NoLine}),
           NEW k \in Nat, k < Len(lines), NEW sums,
           \A a \in DOMAIN sums : IsLast(lines, k, a, sums[a]),
           NEW next, next = InsertLine(sums, lines[k + 1]), NEW a \in DOMAIN next
    PROVE  IsLast(lines, k + 1, a, next[a])
<1> DEFINE line == lines[k + 1]
<1>0. line \in [name : Assets, sum : Sums] \cup {NoLine}
  OBVIOUS
<1>1. \A i \in 1..k : i \in 1..k + 1 /\ i # k + 1
  OBVIOUS
<1>2. \A i \in 1..k : \A j \in i + 1..k + 1 : j \in i + 1..k \/ j = k + 1
  OBVIOUS
<1>3. CASE a \in DOMAIN sums /\ next[a] = sums[a] /\ (line # NoLine => line.name # a)
  BY <1>1, <1>2, <1>3 DEF IsLast
<1>4. CASE line # NoLine /\ line.name = a /\ next[a] = line.sum
  <2>1. line = [name |-> a, sum |-> next[a]]
    BY <1>0, <1>4
  <2> DEFINE i == k + 1
  <2>2. i \in 1..i /\ i + 1..i = {}
    OBVIOUS
  <2>3. lines[i] # NoLine /\ lines[i] = [name |-> a, sum |-> next[a]]
    BY <1>4, <2>1
  <2> HIDE DEF i
  <2>4. IsLast(lines, i, a, next[a])
    BY <2>2, <2>3 DEF IsLast
  <2>5. QED  BY <2>4 DEF i
<1>5. QED
  BY <1>3, <1>4 DEF InsertLine

\* parse_checksums keeps, of each name, the sum of its last line.
LEMMA LastLineWins ==
    ASSUME NEW lines \in Seq([name : Assets, sum : Sums] \cup {NoLine}),
           NEW a \in DOMAIN Inserted(lines)[Len(lines)]
    PROVE  IsLast(lines, Len(lines), a, Inserted(lines)[Len(lines)][a])
<1> DEFINE sums(n) == Inserted(lines)[n]
           Good(n) == \A b \in DOMAIN sums(n) : IsLast(lines, n, b, sums(n)[b])
           T == {n \in Nat : n <= Len(lines) => Good(n)}
<1>0. Len(lines) \in Nat
  OBVIOUS
<1>1. Good(0)
  <2>1. 0 \in 0..Len(lines)
    BY <1>0
  <2>2. sums(0) = <<>>
    BY <2>1, InsertedDef
  <2>3. QED  BY <2>2
<1>2. ASSUME NEW n \in Nat, n < Len(lines), Good(n)
      PROVE  Good(n + 1)
  <2>1. n + 1 \in 0..Len(lines) /\ n + 1 # 0 /\ n + 1 - 1 = n
    BY <1>2
  <2>2. sums(n + 1) = InsertLine(sums(n), lines[n + 1])
    BY <2>1, InsertedDef
  <2> HIDE DEF sums
  <2>3. QED  BY <1>2, <2>2, InsertStep
<1>3. T = Nat
  <2> HIDE DEF Good
  <2>1. 0 \in T
    BY <1>1
  <2>2. \A n \in T : n + 1 \in T
    BY <1>0, <1>2
  <2>3. T \subseteq Nat
    OBVIOUS
  <2> HIDE DEF T
  <2>4. QED  BY <2>1, <2>2, <2>3, SetInduction
<1>4. QED  BY <1>0, <1>3

\* The sum that is wanted is that of the last line of the manifest about the first
\* asset that matches, and there is no more than one.
LEMMA WantedIsLast ==
    ASSUME manifest \in Manifests \cup {<<>>}, assets \in Catalogues \cup {<<>>},
           NEW sum, IsWanted(sum)
    PROVE  /\ sum \in Sums
           /\ \E i \in DOMAIN assets :
                 /\ Matches(assets[i]) /\ \A j \in 1..i - 1 : ~Matches(assets[j])
                 /\ \E k \in DOMAIN manifest :
                       /\ manifest[k] = [name |-> assets[i], sum |-> sum]
                       /\ \A l \in k + 1..Len(manifest) :
                             manifest[l] # NoLine => manifest[l].name # assets[i]
<1>1. manifest \in Seq([name : Assets, sum : Sums] \cup {NoLine})
  <2>1. <<>> \in Seq([name : Assets, sum : Sums] \cup {NoLine})
    OBVIOUS
  <2>2. QED  BY <2>1, ReleaseAssumption
<1>2. PICK a \in Selected : a \in DOMAIN Checksums /\ Checksums[a] = sum
  BY DEF IsWanted
<1>3. Checksums = Inserted(manifest)[Len(manifest)]
  BY DEF Checksums, Parsed
<1>4. IsLast(manifest, Len(manifest), a, sum)
  BY <1>1, <1>2, <1>3, LastLineWins
<1>5. DOMAIN manifest = 1..Len(manifest)
  BY <1>1
<1>6. PICK k \in DOMAIN manifest :
         /\ manifest[k] # NoLine /\ manifest[k] = [name |-> a, sum |-> sum]
         /\ \A l \in k + 1..Len(manifest) : manifest[l] # NoLine => manifest[l].name # a
  BY <1>4, <1>5 DEF IsLast
<1>7. sum \in Sums
  <2>1. manifest[k] \in [name : Assets, sum : Sums] \cup {NoLine}
    BY <1>1, <1>6
  <2>2. QED  BY <1>6, <2>1
<1>8. PICK i \in DOMAIN assets :
         /\ a = assets[i]
         /\ Matches(assets[i]) /\ \A j \in 1..i - 1 : ~Matches(assets[j])
  BY <1>2 DEF Selected
<1>9. QED  BY <1>6, <1>7, <1>8

\* One asset is selected, and one sum wanted.
LEMMA WantedIsOne ==
    ASSUME assets \in Catalogues \cup {<<>>}, NEW s, NEW t, IsWanted(s), IsWanted(t)
    PROVE  s = t
<1>1. assets \in Seq(Assets)
  <2>1. <<>> \in Seq(Assets)
    OBVIOUS
  <2>2. QED  BY <2>1, ReleaseAssumption
<1>2. \A a, b \in Selected : a = b
  BY <1>1 DEF Selected
<1>3. QED  BY <1>2 DEF IsWanted

-------------------------------------------------------------------------------
(* The request.                                                              *)

\* No request has been made at first.
LEMMA RequestStarts ==
    ASSUME RequestOff
    PROVE  RequestInv
<1>1. RequestTypeOK
  <2>1. <<>> \in Seq(Places) /\ Len(<<>>) = 0
    OBVIOUS
  <2>2. visited \in Seq(Places) /\ Len(visited) <= Cap + 1
    BY <2>1, LimitsAssumption DEF RequestOff
  <2>3. declared \in 0..MaxSent /\ sent \in 0..MaxSent /\ got \in 0..MaxSent
    BY LimitsAssumption DEF RequestOff
  <2>4. QED
    BY <2>2, <2>3 DEF RequestOff, RequestTypeOK, Purposes, Outcomes
<1>2. TrustedHops /\ BodyIsTrue
  BY LimitsAssumption DEF RequestOff, TrustedHops, BodyIsTrue
<1>3. QED  BY <1>1, <1>2, LimitsAssumption DEF RequestInv, RequestOff

\* One that is over is forgotten.
LEMMA RequestForgotten ==
    ASSUME RequestInv, NoRequest, token' \in BOOLEAN
    PROVE  RequestInv'
<1>1. RequestTypeOK'
  BY LimitsAssumption DEF RequestInv, NoRequest, RequestTypeOK, Outcomes
<1>2. TrustedHops' /\ BodyIsTrue'
  BY LimitsAssumption DEF NoRequest, TrustedHops, BodyIsTrue
<1>3. QED  BY <1>1, <1>2, LimitsAssumption DEF RequestInv, NoRequest

\* A new one starts as if there had been none.
LEMMA NextRequest ==
    ASSUME RequestInv, NEW p \in Purposes, StartRequest(p)
    PROVE  RequestInv'
<1>1. PICK place \in Places : visited' = <<place>>
  BY DEF StartRequest
<1>2. RequestTypeOK'
  BY <1>1, LimitsAssumption DEF RequestInv, StartRequest, RequestTypeOK, Outcomes
<1>3. TrustedHops' /\ BodyIsTrue'
  BY <1>1, LimitsAssumption DEF StartRequest, TrustedHops, BodyIsTrue
<1>4. QED  BY <1>2, <1>3, LimitsAssumption DEF RequestInv, StartRequest

\* A redirect that is followed leads to a trusted address, within the cap.
LEMMA HopAdded ==
    ASSUME RequestInv, NEW p \in Trusted, visited' = Append(visited, p),
           purpose' = purpose,
           Len(visited) < (IF purpose = "metadata" THEN Cap + 1 ELSE Cap)
    PROVE  TrustedHops' /\ visited' \in Seq(Places) /\ Len(visited') <= Cap + 1
<1>1. visited \in Seq(Places) /\ Len(visited) \in Nat /\ p \in Places
  BY DEF RequestInv, RequestTypeOK, Trusted, Places
<1>2. /\ visited' \in Seq(Places) /\ Len(visited') = Len(visited) + 1
      /\ \A j \in 1..Len(visited) : visited'[j] = visited[j]
      /\ visited'[Len(visited) + 1] = p
  BY <1>1, AppendProperties
<1>3. \A i \in 2..Len(visited') : visited'[i] \in Trusted
  <2>1. \A i \in 2..Len(visited') : i \in 2..Len(visited) \/ i = Len(visited) + 1
    BY <1>1, <1>2
  <2>2. \A i \in 2..Len(visited) : visited[i] \in Trusted /\ i \in 1..Len(visited)
    BY DEF RequestInv, TrustedHops
  <2>3. QED  BY <1>2, <2>1, <2>2
<1>4. QED  BY <1>1, <1>2, <1>3, LimitsAssumption DEF TrustedHops

\* Every step of a request keeps its invariant.
LEMMA RequestGoes ==
    ASSUME RequestInv, RequestNext
    PROVE  RequestInv'
<1> USE DEF RequestInv
<1>1. CASE /\ Over("cancelled") /\ ~Running
           /\ UNCHANGED <<purpose, cancellable, token, visited, declared, sent, ended,
                          got>>
  BY <1>1 DEF Over, Running, RequestTypeOK, Outcomes, TrustedHops, BodyIsTrue
<1>2. ASSUME NEW o \in Outcomes \ {"none", "ok", "tooLong", "cancelled"}, Over(o),
             UNCHANGED <<purpose, cancellable, token, visited, declared, sent, ended,
                         got>>
      PROVE  RequestInv'
  BY <1>2 DEF Over, RequestTypeOK, Outcomes, TrustedHops, BodyIsTrue
<1>3. CASE CancelToken
  BY <1>3 DEF CancelToken, RequestTypeOK, TrustedHops, BodyIsTrue
<1>4. CASE Send
  <2>1. CASE Over("refused")
    BY <1>2, <1>4, <2>1 DEF Send, Outcomes
  <2>2. CASE Continue("wait")
    BY <1>4, <2>2 DEF Send, Continue, RequestTypeOK, TrustedHops, BodyIsTrue
  <2>3. QED  BY <1>4, <2>1, <2>2 DEF Send
<1>5. CASE Redirected
  <2>1. CASE UNCHANGED visited /\ \E o \in {"cap", "refused"} : Over(o)
    BY <1>2, <1>5, <2>1 DEF Redirected, Outcomes
  <2>2. ASSUME NEW p \in Trusted, visited' = Append(visited, p), Continue("send"),
               Len(visited) < (IF purpose = "metadata" THEN Cap + 1 ELSE Cap)
        PROVE  RequestInv'
    <3>1. TrustedHops' /\ visited' \in Seq(Places) /\ Len(visited') <= Cap + 1
      BY <1>5, <2>2, HopAdded DEF Redirected
    <3>2. RequestTypeOK'
      BY <1>5, <2>2, <3>1 DEF Redirected, Continue, RequestTypeOK
    <3>3. BodyIsTrue'
      BY <1>5, <2>2 DEF Redirected, Continue, BodyIsTrue
    <3>4. QED  BY <1>5, <2>2, <3>1, <3>2, <3>3 DEF Redirected, Continue
  <2>3. Len(visited) \in Nat
    BY DEF RequestTypeOK
  <2>4. PICK p \in Places :
           IF purpose = "metadata" THEN RedirectMetadata(p) ELSE RedirectDownload(p)
    BY <1>5 DEF Redirected
  <2>5. CASE purpose = "metadata"
    BY <2>1, <2>2, <2>3, <2>4, <2>5, LimitsAssumption DEF RedirectMetadata
  <2>6. CASE purpose # "metadata"
    BY <2>1, <2>2, <2>3, <2>4, <2>6, LimitsAssumption DEF RedirectDownload
  <2>7. QED  BY <2>5, <2>6
<1>6. CASE RedirectedNowhere
  BY <1>2, <1>6 DEF RedirectedNowhere, Outcomes
<1>7. CASE Answered
  BY <1>7, LimitsAssumption DEF Answered, Continue, RequestTypeOK, TrustedHops, BodyIsTrue
<1>8. CASE ServerSends
  BY <1>8, LimitsAssumption DEF ServerSends, RequestTypeOK, TrustedHops, BodyIsTrue
<1>9. CASE ServerEnds
  BY <1>9 DEF ServerEnds, RequestTypeOK, TrustedHops, BodyIsTrue
<1>10. CASE ReadChunk
  <2>1. PICK n \in got + 1..sent :
          IF n <= MaxBody THEN got' = n /\ Continue("body")
          ELSE IF purpose = "metadata" THEN got' = MaxBody /\ Continue("body")
          ELSE UNCHANGED got /\ Over("tooLong")
    BY <1>10 DEF ReadChunk
  <2>2. n \in Nat /\ n <= sent /\ n <= MaxSent
    BY <2>1, LimitsAssumption DEF RequestTypeOK
  <2>3. CASE got' \in 0..MaxSent /\ got' <= MaxBody /\ Continue("body")
    BY <1>10, <2>3 DEF ReadChunk, Continue, RequestTypeOK, TrustedHops, BodyIsTrue
  <2>4. CASE n > MaxBody /\ purpose # "metadata" /\ UNCHANGED got /\ Over("tooLong")
    BY <1>10, <2>2, <2>4, LimitsAssumption
       DEF ReadChunk, Over, RequestTypeOK, Outcomes, TrustedHops, BodyIsTrue
  <2>5. QED  BY <2>1, <2>2, <2>3, <2>4, LimitsAssumption
<1>11. CASE ReadEnd
  <2>1. CASE \E o \in {"incomplete", "timeout"} : Over(o)
    BY <1>2, <1>11, <2>1 DEF ReadEnd, Outcomes
  <2>2. CASE Over("ok") /\ (purpose = "asset" /\ declared > 0 => got = declared)
    BY <1>11, <2>2 DEF ReadEnd, Over, RequestTypeOK, Outcomes, TrustedHops, BodyIsTrue
  <2>3. QED  BY <1>11, <2>1, <2>2 DEF ReadEnd
<1>12. CASE ReadFails
  BY <1>2, <1>12 DEF ReadFails, Outcomes
<1>13. CASE RequestCancelled
  BY <1>1, <1>13 DEF RequestCancelled
<1>14. CASE NetworkFails \/ BadStatus
  BY <1>2, <1>14 DEF NetworkFails, BadStatus, Outcomes
<1>15. QED
  BY <1>3, <1>4, <1>5, <1>6, <1>7, <1>8, <1>9, <1>10, <1>11, <1>12, <1>13, <1>14
     DEF RequestNext, RequestStep

-------------------------------------------------------------------------------
(* The extraction.                                                           *)

\* The files and the directories there are, of both readers.
FilesInv ==
    /\ \A d \in dirs : d # <<>> /\ d \notin DOMAIN files /\ ".." \notin ToSet(d)
    /\ \A p \in DOMAIN files :
          /\ files[p] \in [reader : {"tar", "zip"}, entry : Entries, length : Nat]
          /\ Valid(files[p].entry.name) /\ p = Clean[files[p].entry.name]

\* The directories above a path inside are inside, and so is the path.
LEMMA UpToInside ==
    ASSUME NEW W, NEW path \in Seq(W), ".." \notin ToSet(path), NEW d \in UpTo(path)
    PROVE  d # <<>> /\ ".." \notin ToSet(d)
<1>1. PICK k \in 1..Len(path) : d = SubSeq(path, 1, k)
  BY DEF UpTo
<1>2. k \in Nat /\ k >= 1 /\ k <= Len(path)
  BY <1>1
<1>3. Len(d) = k /\ DOMAIN d = 1..k /\ \A j \in 1..k : d[j] = path[j] /\ j \in DOMAIN path
  BY <1>1, <1>2
<1>4. d # <<>>
  BY <1>2, <1>3
<1>5. ".." \notin ToSet(d)
  BY <1>3 DEF ToSet
<1>6. QED  BY <1>4, <1>5

\* Directories are made where no file is.
LEMMA DirsMade ==
    ASSUME ExtractInv, NEW name \in RawNames, Valid(name),
           NEW made \in SUBSET UpTo(Clean[name]), made \cap DOMAIN files = {},
           dirs' = dirs \cup made, UNCHANGED files
    PROVE  FilesInv'
<1>1. Clean[name] \in Seq(STRING) /\ ".." \notin ToSet(Clean[name])
  BY CleanIsMeant DEF Valid
<1>2. \A d \in made : d # <<>> /\ ".." \notin ToSet(d)
  BY <1>1, UpToInside
<1>3. QED
  BY <1>2 DEF ExtractInv, ExtractTypeOK, NamesInv, FilesInv

\* A file is stored where no directory is, in directories where no file is.
LEMMA FileStored ==
    ASSUME ExtractInv, phase \in {"tar", "zip"}, NEW e \in Entries, Valid(e.name),
           NEW length \in Nat, Stored(Clean[e.name], e, length)
    PROVE  /\ FilesInv'
           /\ DOMAIN files' = DOMAIN files \cup {Clean[e.name]}
           /\ files'[Clean[e.name]] = [reader |-> phase, entry |-> e, length |-> length]
           /\ \A q \in DOMAIN files \ {Clean[e.name]} : files'[q] = files[q]
<1> DEFINE path == Clean[e.name]
           file == [reader |-> phase, entry |-> e, length |-> length]
<1>1. e.name \in RawNames
  BY DEF Entries
<1>2. path \in Seq(STRING) /\ ".." \notin ToSet(path)
  BY <1>1, CleanIsMeant DEF Valid
<1>3. \A d \in Parents(path) : d # <<>> /\ d # path /\ ".." \notin ToSet(d)
  BY <1>2, UpToInside DEF Parents
<1> HIDE DEF path
<1>4. /\ dirs' = dirs \cup Parents(path) /\ path \notin dirs
      /\ Parents(path) \cap DOMAIN files = {}
      /\ files' = [q \in DOMAIN files \cup {path} |-> IF q = path THEN file ELSE files[q]]
  BY DEF Stored, CanMakeParents, CanOpen, Put, Written, path
<1>5. /\ DOMAIN files' = DOMAIN files \cup {path}
      /\ files'[path] = file
      /\ \A q \in DOMAIN files \ {path} : files'[q] = files[q]
  BY <1>4
<1>6. file \in [reader : {"tar", "zip"}, entry : Entries, length : Nat]
      /\ file.entry.name = e.name
  OBVIOUS
<1>7. \A d \in dirs' : d # <<>> /\ d \notin DOMAIN files' /\ ".." \notin ToSet(d)
  BY <1>3, <1>4, <1>5 DEF ExtractInv, ExtractTypeOK, NamesInv
<1> HIDE DEF file
<1>8. \A p \in DOMAIN files' :
         /\ files'[p] \in [reader : {"tar", "zip"}, entry : Entries, length : Nat]
         /\ Valid(files'[p].entry.name) /\ p = Clean[files'[p].entry.name]
  <2>1. SUFFICES ASSUME NEW p \in DOMAIN files'
                 PROVE  /\ files'[p] \in
                              [reader : {"tar", "zip"}, entry : Entries, length : Nat]
                        /\ Valid(files'[p].entry.name) /\ p = Clean[files'[p].entry.name]
    OBVIOUS
  <2>2. CASE p = path
    BY <1>5, <1>6, <2>2 DEF path
  <2>3. CASE p # path
    BY <1>5, <2>3 DEF ExtractInv, ExtractTypeOK, NamesInv
  <2>4. QED  BY <2>2, <2>3
<1>9. FilesInv'
  BY <1>7, <1>8 DEF FilesInv
<1>10. QED  BY <1>5, <1>9 DEF path, file

\* A reader that fails leaves the files to the one that may follow it.
LEMMA ReaderFails ==
    ASSUME ExtractInv, Reading,
           NEW o \in {"traversal", "io", "size", "invalid", "notFound"},
           Fails(o), FilesInv', DOMAIN files \subseteq DOMAIN files'
    PROVE  ExtractInv'
<1>1. ASSUME NEW x \in {"traversal", "io", "size", "invalid", "notFound", "dotted"},
             Finish(x)
      PROVE  ExtractInv'
  <2>1. ExtractTypeOK'
    BY <1>1 DEF Finish, Reading, FilesInv, ExtractInv, ExtractTypeOK, ExtractErrors
  <2>2. NamesInv'
    BY <1>1 DEF Finish, FilesInv, ExtractInv, NamesInv
  <2>3. SelectedInv'
    BY <1>1 DEF Finish, SelectedInv
  <2>4. QED  BY <2>1, <2>2, <2>3 DEF ExtractInv
<1>2. CASE /\ phase' = "zip" /\ tarError' = o /\ o # "traversal" /\ suffix' = suffix
           /\ entries' = <<>> /\ selected' = <<>> /\ total' = 0 /\ UNCHANGED extracted
  <2>1. ExtractTypeOK'
    <3>1. <<>> \in Seq(Entries) /\ Len(<<>>) = 0
      OBVIOUS
    <3>2. QED
      BY <1>2, <3>1, ExtractAssumption
         DEF FilesInv, ExtractInv, ExtractTypeOK
  <2>2. NamesInv'
    BY <1>2 DEF FilesInv, NamesInv
  <2>3. SelectedInv'
    BY <1>2 DEF Reading, ExtractInv, SelectedInv, Format, Named
  <2>4. QED  BY <2>1, <2>2, <2>3 DEF ExtractInv
<1>3. CASE phase = "zip"
  <2>1. tarError = "notFound" \/ Finish(o)
    BY <1>3 DEF Fails, ZipFails
  <2>2. tarError = "notFound" => Finish("notFound")
    BY <1>3 DEF Fails, ZipFails
  <2>3. QED  BY <1>1, <2>1, <2>2
<1>4. CASE phase = "tar"
  BY <1>1, <1>2, <1>4 DEF Fails, TarFails, Reading
<1>5. QED  BY <1>3, <1>4 DEF Reading

\* An entry that was extracted is the last of its reader's.
LEMMA EntryExtracted ==
    ASSUME ExtractInv, Reading, Len(entries) < MaxEntries,
           NEW e \in Entries, e.kind \in {"dir", "file"}, Valid(e.name),
           NEW length \in Nat, total + length <= MaxTotal,
           Extracted(Clean[e.name], e, length), FilesInv',
           DOMAIN files \subseteq DOMAIN files',
           \A q \in DOMAIN files :
              e.kind = "dir" \/ q # Clean[e.name] => files'[q] = files[q],
           e.kind = "file" =>
              /\ Clean[e.name] \in DOMAIN files'
              /\ files'[Clean[e.name]] =
                    [reader |-> phase, entry |-> e, length |-> e.size]
    PROVE  ExtractInv'
<1> DEFINE path == Clean[e.name]
           n == Len(entries) + 1
<1>1. /\ entries' = Append(entries, e) /\ total' = total + length
      /\ selected' = IF e.kind = "file" /\ IsExpected(path) THEN path ELSE selected
      /\ UNCHANGED <<suffix, phase, tarError, extracted>>
  BY DEF Extracted, Reading
<1>2. entries \in Seq(Entries) /\ Len(entries) \in Nat /\ n \in Nat
  BY DEF ExtractInv, ExtractTypeOK
<1>3. /\ entries' \in Seq(Entries) /\ Len(entries') = n
      /\ \A j \in 1..Len(entries) : entries'[j] = entries[j]
      /\ entries'[n] = e
  BY <1>1, <1>2, AppendProperties
<1>4. /\ DOMAIN entries = 1..Len(entries) /\ DOMAIN entries' = 1..n
      /\ 1..n = (1..Len(entries)) \cup {n} /\ \A j \in 1..Len(entries) : j < n
  BY <1>2, <1>3
<1> HIDE DEF n
<1>5. selected' = <<>> \/ selected' \in DOMAIN files'
  BY <1>1 DEF ExtractInv, ExtractTypeOK
<1>6. ExtractTypeOK'
  <2>1. total' \in 0..MaxTotal
    BY <1>1, ExtractAssumption DEF ExtractInv, ExtractTypeOK
  <2>2. Len(entries') <= MaxEntries
    BY <1>2, <1>3, ExtractAssumption DEF n
  <2>3. QED
    BY <1>1, <1>3, <1>5, <2>1, <2>2 DEF FilesInv, ExtractInv, ExtractTypeOK
<1>7. NamesInv'
  <2>1. \A i \in DOMAIN entries' : Valid(entries'[i].name)
    BY <1>3, <1>4 DEF ExtractInv, NamesInv
  <2>2. QED  BY <2>1 DEF FilesInv, NamesInv
<1>8. SelectedInv'
  <2>1. \A j \in 1..Len(entries) : j \in Named' <=> j \in Named
    BY <1>3, <1>4 DEF Named
  <2>2. n \in Named' <=> e.kind = "file" /\ IsExpected(path)
    BY <1>3, <1>4 DEF Named
  <2>3. Named' \subseteq 1..n /\ Named \subseteq 1..Len(entries)
    BY <1>4 DEF Named
  <2>4. Format' = Format /\ phase = Format
    BY <1>1 DEF Format, Reading, ExtractInv, SelectedInv
  <2>5. CASE e.kind = "file" /\ IsExpected(path)
    <3>1. selected' = path /\ path # <<>> /\ entries'[n].name = e.name
      BY <1>1, <1>3, <2>5 DEF IsExpected
    <3>2. n \in Named' /\ \A j \in Named' : j <= n
      BY <1>2, <1>4, <2>2, <2>3, <2>5
    <3>3. files'[path] = [reader |-> Format', entry |-> entries'[n],
                          length |-> entries'[n].size]
      BY <1>3, <2>4, <2>5
    <3> HIDE DEF path
    <3>4. /\ selected' # <<>>
          /\ \E i \in Named' :
               /\ \A j \in Named' : j <= i
               /\ selected' = Clean[entries'[i].name]
               /\ files'[selected'] = [reader |-> Format', entry |-> entries'[i],
                                       length |-> entries'[i].size]
      BY <3>1, <3>2, <3>3 DEF path
    <3>5. QED  BY <1>1, <2>4, <3>4 DEF Reading, ExtractInv, SelectedInv
  <2>6. CASE ~(e.kind = "file" /\ IsExpected(path))
    <3>1. selected' = selected /\ Named' = Named
      BY <1>1, <1>4, <2>1, <2>2, <2>3, <2>6
    <3>2. ASSUME selected # <<>>
          PROVE  \E i \in Named :
                   /\ \A j \in Named : j <= i
                   /\ selected = Clean[entries'[i].name]
                   /\ files'[selected] = [reader |-> Format, entry |-> entries'[i],
                                          length |-> entries'[i].size]
      <4>1. PICK i \in Named :
               /\ \A j \in Named : j <= i
               /\ selected = Clean[entries[i].name]
               /\ files[selected] = [reader |-> Format, entry |-> entries[i],
                                     length |-> entries[i].size]
        BY <3>2 DEF Reading, ExtractInv, SelectedInv
      <4>2. IsExpected(selected)
        BY <4>1 DEF Named
      <4>3. selected \in DOMAIN files /\ files'[selected] = files[selected]
        BY <2>6, <3>2, <4>2 DEF ExtractInv, ExtractTypeOK, Entries, Kinds
      <4>4. entries'[i] = entries[i]
        BY <1>3, <2>3, <4>1
      <4>5. QED  BY <4>1, <4>3, <4>4
    <3>3. selected = <<>> => Named = {}
      BY DEF Reading, ExtractInv, SelectedInv
    <3>4. QED
      BY <1>1, <2>4, <3>1, <3>2, <3>3 DEF Reading, ExtractInv, SelectedInv
  <2>7. QED  BY <2>5, <2>6
<1>9. QED  BY <1>6, <1>7, <1>8 DEF ExtractInv

-------------------------------------------------------------------------------
\* Nothing has been extracted at first.
LEMMA ExtractStarts ==
    ASSUME ExtractOff
    PROVE  ExtractInv
<1>1. <<>> \in Seq(Entries) /\ Len(<<>>) = 0 /\ DOMAIN <<>> = {}
  OBVIOUS
<1>2. ExtractTypeOK
  BY <1>1, ExtractAssumption DEF ExtractOff, ExtractTypeOK
<1>3. NamesInv
  BY <1>1 DEF ExtractOff, NamesInv
<1>4. SelectedInv
  BY <1>1 DEF ExtractOff, SelectedInv, Named
<1>5. QED  BY <1>2, <1>3, <1>4 DEF ExtractInv

\* The first reader starts on an empty directory.
LEMMA ReaderStarts ==
    ASSUME ExtractInv, NEW s \in {"tar", "zip", "other"}, StartExtract(s)
    PROVE  ExtractInv'
<1>1. ExtractTypeOK'
  BY DEF StartExtract, ExtractInv, ExtractTypeOK
<1>2. NamesInv'
  BY DEF StartExtract, ExtractInv, NamesInv
<1>3. Named' = Named
  BY DEF StartExtract, Named
<1>4. SelectedInv'
  BY <1>3 DEF StartExtract, ExtractInv, SelectedInv, Format
<1>5. QED  BY <1>1, <1>2, <1>4 DEF ExtractInv

\* The files as they were are still in order.
LEMMA FilesAsBefore ==
    ASSUME ExtractInv, UNCHANGED <<dirs, files>>
    PROVE  FilesInv' /\ DOMAIN files \subseteq DOMAIN files'
  BY DEF ExtractInv, ExtractTypeOK, NamesInv, FilesInv

\* So are those that a store which failed has left.
LEMMA StoreFailed ==
    ASSUME ExtractInv, phase \in {"tar", "zip"}, NEW e \in Entries, Valid(e.name),
           NEW length \in Nat, StoreFails(Clean[e.name], e, length)
    PROVE  FilesInv' /\ DOMAIN files \subseteq DOMAIN files'
<1> DEFINE path == Clean[e.name]
<1>1. e.name \in RawNames
  BY DEF Entries
<1>2. CASE UNCHANGED <<dirs, files>>
  BY <1>2, FilesAsBefore
<1>3. CASE CanMakeParents(path) /\ dirs' = dirs \cup Parents(path) /\ UNCHANGED files
  <2>1. Parents(path) \in SUBSET UpTo(path) /\ Parents(path) \cap DOMAIN files = {}
    BY <1>3 DEF Parents, CanMakeParents
  <2>2. FilesInv'
    BY <1>1, <1>3, <2>1, DirsMade
  <2>3. QED  BY <1>3, <2>2
<1>4. ASSUME NEW part \in 0..length - 1, Stored(path, e, part)
      PROVE  FilesInv' /\ DOMAIN files \subseteq DOMAIN files'
  <2>1. part \in Nat
    OBVIOUS
  <2>2. QED  BY <1>4, <2>1, FileStored
<1>5. QED  BY <1>2, <1>3, <1>4 DEF StoreFails

\* What is taken of an entry is within the limit, and all of it below the limit.
LEMMA TakenLength ==
    ASSUME ExtractInv, NEW size \in Nat
    PROVE  /\ Taken(size) \in Nat /\ total + Taken(size) <= MaxTotal
           /\ ~TooMuch(Taken(size)) => Taken(size) = size
<1>1. total \in Nat /\ MaxTotal \in Nat /\ total <= MaxTotal
  BY ExtractAssumption DEF ExtractInv, ExtractTypeOK
<1>2. QED  BY <1>1 DEF Taken, TooMuch

\* Every step of the extraction keeps its invariant.
LEMMA ExtractGoes ==
    ASSUME ExtractInv, ExtractNext
    PROVE  ExtractInv'
<1> DEFINE Errors == {"traversal", "io", "size", "invalid", "notFound"}
<1>1. ASSUME NEW name \in RawNames, RejectName(name)
      PROVE  ExtractInv'
  BY <1>1, FilesAsBefore, ReaderFails DEF RejectName
<1>2. ASSUME NEW name \in RawNames, ExtractDir(name)
      PROVE  ExtractInv'
  <2> DEFINE path == Clean[name]
             e == [name |-> name, kind |-> "dir", size |-> 0]
  <2>1. Reading /\ Len(entries) < MaxEntries /\ Valid(name) /\ UNCHANGED files
    BY <1>2 DEF ExtractDir
  <2>2. CASE UpTo(path) \cap DOMAIN files = {}
    <3>1. dirs' = dirs \cup UpTo(path) /\ Extracted(path, e, 0)
      BY <1>2, <2>2 DEF ExtractDir
    <3>2. FilesInv'
      BY <2>1, <2>2, <3>1, DirsMade
    <3>3. e \in Entries /\ e.kind = "dir" /\ e.name = name
      BY DEF Entries, Kinds
    <3>4. total + 0 <= MaxTotal
      BY ExtractAssumption DEF ExtractInv, ExtractTypeOK
    <3> HIDE DEF e
    <3>5. QED  BY <2>1, <3>1, <3>2, <3>3, <3>4, EntryExtracted
  <2>3. CASE UpTo(path) \cap DOMAIN files # {}
    <3>1. Fails("io") /\ UNCHANGED dirs
      BY <1>2, <2>3 DEF ExtractDir
    <3>2. QED  BY <2>1, <3>1, FilesAsBefore, ReaderFails
  <2>4. QED  BY <2>2, <2>3
<1>3. ASSUME NEW name \in RawNames, SkipOther(name)
      PROVE  ExtractInv'
  <2> DEFINE e == [name |-> name, kind |-> "other", size |-> 0]
             n == Len(entries) + 1
  <2>1. /\ Len(entries) < MaxEntries /\ Valid(name) /\ entries' = Append(entries, e)
        /\ UNCHANGED <<suffix, phase, tarError, dirs, files, selected, total, extracted>>
    BY <1>3 DEF SkipOther, Reading
  <2>2. e \in Entries /\ e.kind # "file" /\ e.name = name
    BY DEF Entries, Kinds
  <2> HIDE DEF e
  <2>3. entries \in Seq(Entries) /\ Len(entries) \in Nat
    BY DEF ExtractInv, ExtractTypeOK
  <2>4. /\ entries' \in Seq(Entries) /\ Len(entries') = n
        /\ \A j \in 1..Len(entries) : entries'[j] = entries[j]
        /\ entries'[n] = e
    BY <2>1, <2>2, <2>3, AppendProperties
  <2>5. /\ DOMAIN entries = 1..Len(entries) /\ DOMAIN entries' = 1..n
        /\ 1..n = (1..Len(entries)) \cup {n}
    BY <2>3, <2>4
  <2>6. n <= MaxEntries
    BY <2>1, <2>3, ExtractAssumption
  <2> HIDE DEF n
  <2>7. ExtractTypeOK'
    BY <2>1, <2>4, <2>6 DEF ExtractInv, ExtractTypeOK
  <2>8. NamesInv'
    BY <2>1, <2>2, <2>4, <2>5 DEF ExtractInv, NamesInv
  <2>9. Named' = Named
    BY <2>2, <2>4, <2>5 DEF Named
  <2>10. \A i \in Named : entries'[i] = entries[i]
    BY <2>4, <2>5 DEF Named
  <2>11. SelectedInv'
    BY <2>1, <2>9, <2>10 DEF ExtractInv, SelectedInv, Format
  <2>12. QED  BY <2>7, <2>8, <2>11 DEF ExtractInv
<1>4. ASSUME NEW name \in RawNames, NEW size \in Sizes
      PROVE  LET e == [name |-> name, kind |-> "file", size |-> size]
             IN  /\ e \in Entries /\ e.kind = "file" /\ e.name = name /\ e.size = size
                 /\ size \in Nat
  BY ExtractAssumption DEF Entries, Kinds
<1>5. ASSUME NEW name \in RawNames, NEW size \in Sizes, NEW e \in Entries,
             e = [name |-> name, kind |-> "file", size |-> size],
             Reading, Valid(name), Len(entries) < MaxEntries,
             Stored(Clean[name], e, Taken(size)), ~TooMuch(Taken(size)),
             Extracted(Clean[name], e, Taken(size))
      PROVE  ExtractInv'
  <2>1. /\ e.kind = "file" /\ e.name = name /\ e.size = size /\ size \in Nat
        /\ phase \in {"tar", "zip"}
    BY <1>4, <1>5 DEF Reading
  <2>2. /\ Taken(size) \in Nat /\ total + Taken(size) <= MaxTotal /\ Taken(size) = size
    BY <1>5, <2>1, TakenLength
  <2>3. /\ FilesInv'
        /\ DOMAIN files' = DOMAIN files \cup {Clean[name]}
        /\ files'[Clean[name]] = [reader |-> phase, entry |-> e, length |-> size]
        /\ \A q \in DOMAIN files \ {Clean[name]} : files'[q] = files[q]
    BY <1>5, <2>1, <2>2, FileStored
  <2>4. QED  BY <1>5, <2>1, <2>2, <2>3, EntryExtracted
<1>6. ASSUME NEW name \in RawNames, NEW size \in Sizes, ExtractTarFile(name, size)
      PROVE  ExtractInv'
  <2> DEFINE e == [name |-> name, kind |-> "file", size |-> size]
  <2>1. /\ Reading /\ phase = "tar" /\ Len(entries) < MaxEntries /\ Valid(name)
        /\ \/ Fails("io") /\ StoreFails(Clean[name], e, Taken(size))
           \/ /\ Stored(Clean[name], e, Taken(size))
              /\ IF TooMuch(Taken(size)) THEN Fails("size")
                 ELSE Extracted(Clean[name], e, Taken(size))
    BY <1>6 DEF ExtractTarFile
  <2>2. e \in Entries /\ e.name = name /\ size \in Nat
    BY <1>4
  <2>3. Taken(size) \in Nat
    BY <2>2, TakenLength
  <2> HIDE DEF e
  <2>4. CASE Fails("io") /\ StoreFails(Clean[name], e, Taken(size))
    <3>1. FilesInv' /\ DOMAIN files \subseteq DOMAIN files'
      BY <2>1, <2>2, <2>3, <2>4, StoreFailed
    <3>2. QED  BY <2>1, <2>4, <3>1, ReaderFails
  <2>5. CASE Stored(Clean[name], e, Taken(size)) /\ Fails("size")
    <3>1. FilesInv' /\ DOMAIN files \subseteq DOMAIN files'
      BY <2>1, <2>2, <2>3, <2>5, FileStored
    <3>2. QED  BY <2>1, <2>5, <3>1, ReaderFails
  <2>6. CASE /\ Stored(Clean[name], e, Taken(size)) /\ ~TooMuch(Taken(size))
             /\ Extracted(Clean[name], e, Taken(size))
    BY <1>5, <2>1, <2>2, <2>6 DEF e
  <2>7. QED  BY <2>1, <2>4, <2>5, <2>6
<1>7. ASSUME NEW name \in RawNames, NEW size \in Sizes, NEW sound \in BOOLEAN,
             ExtractZipFile(name, size, sound)
      PROVE  ExtractInv'
  <2> DEFINE e == [name |-> name, kind |-> "file", size |-> size]
  <2>1. /\ Reading /\ phase = "zip" /\ Len(entries) < MaxEntries /\ Valid(name)
        /\ \/ (Fails("size") \/ Fails("invalid")) /\ UNCHANGED <<dirs, files>>
           \/ Fails("io") /\ StoreFails(Clean[name], e, Taken(size))
           \/ /\ ~TooMuch(Taken(size))
              /\ Extracted(Clean[name], e, Taken(size))
              /\ Stored(Clean[name], e, Taken(size))
    BY <1>7 DEF ExtractZipFile
  <2>2. e \in Entries /\ e.name = name /\ size \in Nat
    BY <1>4
  <2>3. Taken(size) \in Nat
    BY <2>2, TakenLength
  <2> HIDE DEF e
  <2>4. CASE (Fails("size") \/ Fails("invalid")) /\ UNCHANGED <<dirs, files>>
    BY <2>1, <2>4, FilesAsBefore, ReaderFails
  <2>5. CASE Fails("io") /\ StoreFails(Clean[name], e, Taken(size))
    <3>1. FilesInv' /\ DOMAIN files \subseteq DOMAIN files'
      BY <2>1, <2>2, <2>3, <2>5, StoreFailed
    <3>2. QED  BY <2>1, <2>5, <3>1, ReaderFails
  <2>6. CASE /\ Stored(Clean[name], e, Taken(size)) /\ ~TooMuch(Taken(size))
             /\ Extracted(Clean[name], e, Taken(size))
    BY <1>5, <2>1, <2>2, <2>6 DEF e
  <2>7. QED  BY <2>1, <2>4, <2>5, <2>6
<1>8. CASE Malformed
  <2>1. PICK o \in {"invalid", "io"} : Fails(o)
    BY <1>8 DEF Malformed
  <2>2. QED  BY <1>8, <2>1, FilesAsBefore, ReaderFails DEF Malformed
<1>9. CASE ReaderEnds
  <2>1. Reading /\ UNCHANGED <<dirs, files>>
    BY <1>9 DEF ReaderEnds
  <2>2. CASE Fails("notFound")
    BY <2>1, <2>2, FilesAsBefore, ReaderFails
  <2>3. ASSUME NEW o \in {"ok", "dotted"}, Finish(o), selected # <<>>
        PROVE  ExtractInv'
    <3>1. ExtractTypeOK'
      BY <2>1, <2>3 DEF Finish, Reading, ExtractInv, ExtractTypeOK, ExtractErrors
    <3>2. NamesInv'
      BY <2>1, <2>3 DEF Finish, ExtractInv, NamesInv
    <3>3. Named' = Named /\ Format' = Format
      BY <2>1, <2>3 DEF Finish, Reading, Named, Format
    <3>4. SelectedInv'
      BY <2>1, <2>3, <3>3 DEF Finish, Reading, ExtractInv, SelectedInv
    <3>5. QED  BY <3>1, <3>2, <3>4 DEF ExtractInv
  <2>4. QED  BY <1>9, <2>2, <2>3 DEF ReaderEnds, ReturnSelected
<1>10. QED  BY <1>1, <1>2, <1>3, <1>6, <1>7, <1>8, <1>9 DEF ExtractNext

\* What the invariant says of names cleaned is what the properties say of names
\* meant.
LEMMA ExtractedIsMeant ==
    ASSUME ExtractInv
    PROVE  Confined /\ SelectedIsWhole
<1>1. Confined
  <2>1. ASSUME NEW p \in DOMAIN files
        PROVE  files[p].entry.name \notin Outside /\ p = Meant[files[p].entry.name]
    <3>1. files[p].entry.name \in RawNames
      BY DEF ExtractInv, ExtractTypeOK, Entries
    <3>2. QED  BY <3>1, CleanIsMeant DEF ExtractInv, NamesInv
  <2>2. QED  BY <2>1 DEF ExtractInv, NamesInv, Confined
<1>2. SelectedIsWhole
  <2> DEFINE named == {i \in DOMAIN entries :
                          /\ entries[i].kind = "file"
                          /\ IsExpected(Meant[entries[i].name])}
  <2>1. SUFFICES ASSUME extracted = "ok"
                 PROVE  /\ \E i \in named :
                              /\ \A j \in named : j <= i
                              /\ selected = Meant[entries[i].name]
                              /\ files[selected].entry = entries[i]
                        /\ files[selected].length = files[selected].entry.size
                        /\ files[selected].reader = Format
    BY DEF SelectedIsWhole, Format
  <2>2. \A i \in DOMAIN entries : Clean[entries[i].name] = Meant[entries[i].name]
    <3>1. ASSUME NEW i \in DOMAIN entries
          PROVE  Clean[entries[i].name] = Meant[entries[i].name]
      <4>1. entries[i].name \in RawNames
        <5>1. entries \in Seq(Entries)
          BY DEF ExtractInv, ExtractTypeOK
        <5>2. entries[i] \in Entries
          BY <5>1
        <5>3. QED  BY <5>2 DEF Entries
      <4>2. QED  BY <4>1, CleanIsMeant DEF ExtractInv, NamesInv
    <3>2. QED  BY <3>1
  <2>3. named = Named
    BY <2>2 DEF Named
  <2>4. PICK i \in Named :
           /\ \A j \in Named : j <= i
           /\ selected = Clean[entries[i].name]
           /\ files[selected] = [reader |-> Format, entry |-> entries[i],
                                 length |-> entries[i].size]
    BY <2>1 DEF ExtractInv, SelectedInv
  <2>5. selected = Meant[entries[i].name]
    BY <2>2, <2>4 DEF Named
  <2> HIDE DEF named
  <2>6. QED  BY <2>3, <2>4, <2>5
<1>3. QED  BY <1>1, <1>2

-------------------------------------------------------------------------------
(* The download.                                                             *)

ArgumentsOK ==
    /\ assets \in Catalogues \cup {<<>>} /\ manifest \in Manifests \cup {<<>>}
    /\ genuine \in BOOLEAN /\ cosign \in BOOLEAN /\ extracts \in BOOLEAN
    /\ content \in Sums

\* A step of a request: its token is cancelled, or it goes on and is perhaps over,
\* with success only if it is not cancelled.
LEMMA RequestMoves ==
    ASSUME RequestInv, RequestNext
    PROVE  /\ purpose' = purpose /\ cancellable' = cancellable
           /\ \/ cancellable /\ ~token /\ token' = TRUE /\ UNCHANGED <<stage, outcome>>
              \/ /\ token' = token /\ stage \notin {"off", "over"} /\ stage' # "off"
                 /\ outcome = "none" /\ (outcome' = "ok" => Running /\ stage' = "over")
                 /\ (stage' = "over" => outcome' # "none")
<1>1. CASE CancelToken
  BY <1>1 DEF CancelToken
<1>2. CASE ServerSends \/ ServerEnds
  BY <1>2 DEF RequestInv, ServerSends, ServerEnds
<1>3. CASE RequestCancelled \/ Send \/ NetworkFails \/ RedirectedNowhere \/ BadStatus
  BY <1>3
     DEF RequestInv, RequestCancelled, Send, NetworkFails, RedirectedNowhere, BadStatus,
         Over, Continue
<1>4. CASE Redirected
  BY <1>4
     DEF RequestInv, Redirected, RedirectMetadata, RedirectDownload, Over, Continue
<1>5. CASE Answered \/ ReadChunk
  BY <1>5 DEF RequestInv, Answered, ReadChunk, Over, Continue
<1>6. CASE ReadEnd \/ ReadFails
  BY <1>6 DEF RequestInv, ReadEnd, ReadFails, Over
<1>7. QED
  BY <1>1, <1>2, <1>3, <1>4, <1>5, <1>6 DEF RequestNext, RequestStep

\* What is wanted depends on the release alone.
LEMMA WantedStays ==
    ASSUME UNCHANGED <<assets, manifest>>
    PROVE  /\ content' = content => (IsWanted(content)' <=> IsWanted(content))
           /\ Published' = Published
           /\ Selected' = Selected
           /\ \A s : IsWanted(s)' <=> IsWanted(s)
  BY DEF IsWanted, Selected, Checksums, Published

\* One that goes from one of its places to another.
LEMMA Arrives ==
    ASSUME DownloadInv, RequestInv', ExtractInv', ArgumentsOK', CallInv',
           call' \in Fetching \cup {"idle", "unavailable", "apply", "verify", "wanted",
                               "stage", "extract", "chmod", "enter", "staged", "failed"}
    PROVE  DownloadInv'
  BY DEF DownloadInv, DownloadTypeOK, ArgumentsOK, RequestInv, ExtractInv

\* The extraction is left alone.
LEMMA NotExtracting ==
    ASSUME ExtractInv, UNCHANGED extraction
    PROVE  ExtractInv'
  BY DEF ExtractInv, ExtractTypeOK, NamesInv, SelectedInv, Format, Named, extraction

\* So is the request.
LEMMA NotRequesting ==
    ASSUME RequestInv, UNCHANGED request
    PROVE  RequestInv'
  BY DEF RequestInv, RequestTypeOK, TrustedHops, BodyIsTrue, request

\* The invariant holds at first.
LEMMA DownloadStarts ==
    ASSUME Init
    PROVE  DownloadInv
<1>1. RequestInv /\ ExtractInv
  BY RequestStarts, ExtractStarts DEF Init
<1>2. content \in Sums
  BY SumsAssumption DEF Init
<1>3. DownloadTypeOK
  BY <1>1, <1>2 DEF Init, DownloadTypeOK, RequestInv, ExtractInv
<1>4. CallInv
  BY DEF Init, CallInv, RequestOff, ExtractOff, Fetching, Stages
<1>5. QED  BY <1>1, <1>3, <1>4 DEF DownloadInv

\* Every step keeps it.
LEMMA DownloadGoes ==
    ASSUME DownloadInv, [Next]_vars
    PROVE  DownloadInv'
<1>0. RequestInv /\ ExtractInv /\ ArgumentsOK /\ CallInv /\ token \in BOOLEAN
  BY DEF DownloadInv, DownloadTypeOK, ArgumentsOK, RequestTypeOK
<1>1. ASSUME UNCHANGED <<arguments, content>>
      PROVE  /\ ArgumentsOK'
             /\ IsWanted(content)' <=> IsWanted(content)
  BY <1>0, <1>1, WantedStays DEF arguments, ArgumentsOK
<1>2. CASE Check
  <2>1. RequestInv' /\ ExtractInv' /\ ArgumentsOK'
    BY <1>0, <1>1, <1>2, NextRequest, NotExtracting DEF Check, Goto, Purposes
  <2>2. CallInv'
    BY <1>0, <1>2
       DEF Check, Goto, StartRequest, CallInv, Fetching, Stages, PurposeOf, extraction
  <2>3. QED  BY <1>2, <2>1, <2>2, Arrives DEF Check, Goto, Fetching
<1>3. CASE RequestGoesOn
  <2>1. RequestInv' /\ ExtractInv'
    BY <1>0, <1>3, RequestGoes, NotExtracting DEF RequestGoesOn
  <2>2. content' \in Sums /\ (stage = "off" => content' = content)
    BY <1>0, <1>3, RequestMoves DEF RequestGoesOn, ArgumentsOK
  <2>3. ArgumentsOK'
    BY <1>0, <1>3, <2>2 DEF RequestGoesOn, arguments, ArgumentsOK
  <2>4. call \in Stages => (IsWanted(content)' <=> IsWanted(content))
    BY <1>0, <1>3, <2>2, WantedStays
       DEF RequestGoesOn, arguments, CallInv, Fetching, Stages
  <2>5. purpose' = purpose /\ (stage = "off" <=> stage' = "off")
    BY <1>0, <1>3, RequestMoves DEF RequestGoesOn
  <2>6. CallInv'
    BY <1>0, <1>3, <2>4, <2>5 DEF RequestGoesOn, arguments, extraction, CallInv
  <2>7. QED
    BY <1>3, <2>1, <2>3, <2>6, Arrives DEF RequestGoesOn, DownloadInv, DownloadTypeOK
<1>4. CASE RequestFailed
  <2>1. RequestInv' /\ ExtractInv' /\ ArgumentsOK'
    BY <1>0, <1>1, <1>4, RequestForgotten, NotExtracting DEF RequestFailed, Goto, Forget
  <2>2. CallInv'
    BY <1>0, <1>4
       DEF RequestFailed, Goto, Forget, NoRequest, CallInv, Fetching, Stages, extraction
  <2>3. QED  BY <1>4, <2>1, <2>2, Arrives DEF RequestFailed, Goto
<1>5. CASE Apply
  <2>1. RequestInv' /\ ExtractInv' /\ ArgumentsOK'
    BY <1>0, <1>5, RequestForgotten, NotExtracting DEF Apply, ArgumentsOK
  <2>2. CallInv'
    BY <1>0, <1>5
       DEF Apply, NoRequest, CallInv, Fetching, Stages, extraction
  <2>3. QED  BY <1>5, <2>1, <2>2, Arrives DEF Apply
<1>6. CASE SelectAssets
  <2>1. RequestInv' /\ ExtractInv' /\ ArgumentsOK'
    BY <1>0, <1>1, <1>6, NextRequest, NotRequesting, NotExtracting
       DEF SelectAssets, Goto, Purposes
  <2>2. CallInv'
    BY <1>0, <1>6
       DEF SelectAssets, Goto, StartRequest, request, CallInv, Fetching, Stages,
           PurposeOf, extraction
  <2>3. QED  BY <1>6, <2>1, <2>2, Arrives DEF SelectAssets, Goto, Fetching
<1>7. CASE ReadChecksums
  <2>1. RequestInv' /\ ExtractInv' /\ ArgumentsOK'
    BY <1>0, <1>1, <1>7, NextRequest, RequestForgotten, NotExtracting
       DEF ReadChecksums, Goto, Forget, Purposes
  <2>2. /\ call = "checksums" /\ UNCHANGED extraction
        /\ \/ Goto("failed") /\ Forget
           \/ Goto("signature") /\ StartRequest("artifact")
           \/ ~cosign /\ Goto("wanted") /\ Forget
    BY <1>7 DEF ReadChecksums
  <2>3. ASSUME Goto("signature"), StartRequest("artifact")
        PROVE  CallInv'
    BY <1>0, <2>2, <2>3
       DEF Goto, StartRequest, CallInv, Fetching, Stages, PurposeOf, extraction
  <2>4. ASSUME \/ Goto("failed") /\ Forget
               \/ ~cosign /\ Goto("wanted") /\ Forget
        PROVE  CallInv'
    BY <1>0, <2>2, <2>4
       DEF Goto, Forget, NoRequest, CallInv, Fetching, Stages, arguments, extraction
  <2>5. CallInv'
    BY <2>2, <2>3, <2>4
  <2>6. QED  BY <2>1, <2>2, <2>5, Arrives DEF Goto, Fetching
<1>8. CASE ReadSignature
  <2>1. RequestInv' /\ ExtractInv' /\ ArgumentsOK'
    BY <1>0, <1>1, <1>8, NextRequest, NotExtracting DEF ReadSignature, Goto, Purposes
  <2>2. CallInv'
    BY <1>0, <1>8
       DEF ReadSignature, Goto, StartRequest, CallInv, Fetching, Stages, PurposeOf,
           extraction
  <2>3. QED  BY <1>8, <2>1, <2>2, Arrives DEF ReadSignature, Goto, Fetching
<1>9. CASE ReadCertificate
  <2>1. RequestInv' /\ ExtractInv' /\ ArgumentsOK'
    BY <1>0, <1>1, <1>9, RequestForgotten, NotExtracting DEF ReadCertificate, Goto, Forget
  <2>2. CallInv'
    BY <1>0, <1>9
       DEF ReadCertificate, Goto, Forget, NoRequest, CallInv, Fetching, Stages, extraction
  <2>3. QED  BY <1>9, <2>1, <2>2, Arrives DEF ReadCertificate, Goto
<1>10. ASSUME UNCHANGED <<arguments, content, request, extraction>>
       PROVE  RequestInv' /\ ExtractInv' /\ ArgumentsOK'
  BY <1>0, <1>1, <1>10, NotRequesting, NotExtracting
<1>11. CASE VerifySignature
  <2>1. CallInv'
    BY <1>0, <1>11
       DEF VerifySignature, Goto, CallInv, Fetching, Stages, arguments, request,
           extraction
  <2>2. QED  BY <1>10, <1>11, <2>1, Arrives DEF VerifySignature, Goto
<1>12. CASE LookUpWanted
  <2>1. CallInv'
    BY <1>0, <1>12
       DEF LookUpWanted, Goto, CallInv, Fetching, Stages, arguments, request, extraction
  <2>2. QED  BY <1>10, <1>12, <2>1, Arrives DEF LookUpWanted, Goto
<1>13. CASE CreateStaging
  <2>1. RequestInv' /\ ExtractInv' /\ ArgumentsOK'
    BY <1>0, <1>1, <1>13, NextRequest, NotRequesting, NotExtracting
       DEF CreateStaging, Goto, Purposes
  <2>2. CallInv'
    BY <1>0, <1>13
       DEF CreateStaging, Goto, StartRequest, request, CallInv, Fetching, Stages,
           PurposeOf, arguments, extraction
  <2>3. QED  BY <1>13, <2>1, <2>2, Arrives DEF CreateStaging, Goto, Fetching
<1>14. CASE CompareDigest
  <2>1. RequestInv' /\ ArgumentsOK' /\ (IsWanted(content)' <=> IsWanted(content))
    BY <1>0, <1>1, <1>14, RequestForgotten DEF CompareDigest, Goto, Forget
  <2>2. stage' = "off" /\ phase = "off"
    BY <1>0, <1>14 DEF CompareDigest, Forget, NoRequest, CallInv, Stages
  <2>3. CASE call' = "extract"
    <3>1. PICK a \in Selected : StartExtract(a.suffix)
      BY <1>14, <2>3 DEF CompareDigest, Goto
    <3>2. a.suffix \in {"tar", "zip", "other"}
      <4>1. assets \in Seq(Assets)
        <5>1. <<>> \in Seq(Assets)
          OBVIOUS
        <5>2. QED  BY <1>0, <5>1, ReleaseAssumption DEF ArgumentsOK
      <4>2. a \in Assets
        BY <4>1 DEF Selected
      <4>3. QED  BY <4>2, ReleaseAssumption
    <3>3. ExtractInv'
      BY <1>0, <3>1, <3>2, ReaderStarts
    <3>4. IsWanted(content) /\ extracts
      BY <1>14, <2>3 DEF CompareDigest, Goto
    <3>5. CallInv'
      BY <1>0, <1>14, <2>1, <2>2, <2>3, <3>4
         DEF CompareDigest, Goto, CallInv, Fetching, Stages, arguments
    <3>6. QED  BY <2>1, <2>3, <3>3, <3>5, Arrives
  <2>4. CASE call' # "extract"
    <3>1. UNCHANGED extraction /\ call' \in {"failed", "chmod"}
      BY <1>14, <2>4 DEF CompareDigest, Goto
    <3>2. call' = "chmod" => IsWanted(content) /\ ~extracts
      BY <1>14, <2>4 DEF CompareDigest, Goto
    <3>3. ExtractInv'
      BY <1>0, <3>1, NotExtracting
    <3>4. CallInv'
      BY <1>0, <1>14, <2>1, <2>2, <3>1, <3>2
         DEF CompareDigest, Goto, CallInv, Fetching, Stages, arguments, extraction
    <3>5. QED  BY <2>1, <3>1, <3>3, <3>4, Arrives
  <2>5. QED  BY <2>3, <2>4
<1>15. CASE ExtractGoesOn
  <2>1. /\ RequestInv' /\ ExtractInv' /\ ArgumentsOK'
        /\ IsWanted(content)' <=> IsWanted(content)
    BY <1>0, <1>1, <1>15, ExtractGoes, NotRequesting DEF ExtractGoesOn
  <2>2. phase \in {"tar", "zip"}
    BY <1>15
       DEF ExtractGoesOn, ExtractNext, Reading, RejectName, ExtractDir, SkipOther,
           ExtractTarFile, ExtractZipFile, Malformed, ReaderEnds
  <2>3. call = "extract" /\ call' = call
    BY <1>0, <1>15, <2>2 DEF ExtractGoesOn, CallInv
  <2>4. CallInv'
    BY <1>0, <1>15, <2>1, <2>3
       DEF ExtractGoesOn, CallInv, Fetching, Stages, arguments, request
  <2>5. QED  BY <2>1, <2>3, <2>4, Arrives
<1>16. CASE ExtractOver
  <2>1. IsWanted(content)' <=> IsWanted(content)
    BY <1>1, <1>16 DEF ExtractOver, Goto
  <2>2. CallInv'
    BY <1>0, <1>16, <2>1
       DEF ExtractOver, Goto, CallInv, Fetching, Stages, arguments, request, extraction
  <2>3. QED  BY <1>10, <1>16, <2>2, Arrives DEF ExtractOver, Goto
<1>17. CASE MakeExecutable
  <2>1. IsWanted(content)' <=> IsWanted(content)
    BY <1>1, <1>17 DEF MakeExecutable, Goto
  <2>2. CallInv'
    BY <1>0, <1>17, <2>1
       DEF MakeExecutable, Goto, CallInv, Fetching, Stages, arguments, request, extraction
  <2>3. QED  BY <1>10, <1>17, <2>2, Arrives DEF MakeExecutable, Goto
<1>18. CASE EnterSwap
  <2>1. IsWanted(content)' <=> IsWanted(content)
    BY <1>1, <1>18 DEF EnterSwap, Goto
  <2>2. CallInv'
    BY <1>0, <1>18, <2>1
       DEF EnterSwap, Goto, CallInv, Fetching, Stages, arguments, request, extraction
  <2>3. QED  BY <1>10, <1>18, <2>2, Arrives DEF EnterSwap, Goto
<1>19. CASE UNCHANGED vars
  <2>1. /\ RequestInv' /\ ExtractInv' /\ ArgumentsOK'
        /\ IsWanted(content)' <=> IsWanted(content)
    BY <1>1, <1>10, <1>19 DEF vars
  <2>2. CallInv'
    BY <1>0, <1>19, <2>1 DEF vars, CallInv, arguments, request, extraction
  <2>3. QED
    BY <1>19, <2>1, <2>2, Arrives DEF vars, DownloadInv, DownloadTypeOK
<1>20. QED
  BY <1>2, <1>3, <1>4, <1>5, <1>6, <1>7, <1>8, <1>9, <1>11, <1>12, <1>13, <1>14, <1>15,
     <1>16, <1>17, <1>18, <1>19 DEF Next

\* What is staged has passed every comparison.
LEMMA WantedIsStaged ==
    ASSUME DownloadInv
    PROVE  StagedIsVerified
<1>1. SUFFICES ASSUME call \in {"chmod", "enter", "staged"}
               PROVE  /\ \E i \in DOMAIN assets :
                            /\ Matches(assets[i])
                            /\ \A j \in 1..i - 1 : ~Matches(assets[j])
                            /\ \E k \in DOMAIN manifest :
                                  /\ manifest[k] = [name |-> assets[i], sum |-> content]
                                  /\ \A l \in k + 1..Len(manifest) :
                                        manifest[l] # NoLine => manifest[l].name # assets[i]
                      /\ cosign => genuine
                      /\ extracts => extracted = "ok"
  BY DEF StagedIsVerified
<1>2. manifest \in Manifests \cup {<<>>} /\ assets \in Catalogues \cup {<<>>}
  BY DEF DownloadInv, DownloadTypeOK
<1>3. IsWanted(content)
  BY <1>1 DEF DownloadInv, CallInv, Stages
<1>4. \E i \in DOMAIN assets :
         /\ Matches(assets[i]) /\ \A j \in 1..i - 1 : ~Matches(assets[j])
         /\ \E k \in DOMAIN manifest :
               /\ manifest[k] = [name |-> assets[i], sum |-> content]
               /\ \A l \in k + 1..Len(manifest) :
                     manifest[l] # NoLine => manifest[l].name # assets[i]
  BY <1>2, <1>3, WantedIsLast
<1>5. (cosign => genuine) /\ (extracts => extracted = "ok")
  BY <1>1 DEF DownloadInv, CallInv, Stages
<1>6. QED  BY <1>4, <1>5

-------------------------------------------------------------------------------
(* The refinement.                                                           *)

\* What UpdateApply's caller has, in the download.
Applied == IF Applying THEN Published ELSE "none"
Unpacked == IF extracts /\ call \in Stages \ {"extract"} THEN content ELSE "none"
Seen == <<Operation, Staging, Applied, Applying /\ extracts, Applying /\ cancellable,
          Applying /\ token, Unpacked, IF Applying THEN "old" ELSE "none",
          IF call = "failed" THEN "err" ELSE "none">>

\* What is published is one of the sums, and the one that is wanted.
LEMMA PublishedIsWanted ==
    ASSUME ArgumentsOK
    PROVE  /\ Published \in Sums
           /\ \A s : IsWanted(s) => Published = s
<1>1. Sums # {}
  BY SumsAssumption
<1>2. (CHOOSE s \in Sums : TRUE) \in Sums
  BY <1>1
<1>3. ASSUME NEW s, IsWanted(s)
      PROVE  Published = s
  <2>1. s \in Sums
    BY <1>3, WantedIsLast DEF ArgumentsOK
  <2>2. \A t \in Sums : IsWanted(t) => t = s
    BY <1>3, WantedIsOne DEF ArgumentsOK
  <2>3. QED  BY <1>3, <2>1, <2>2 DEF Published
<1>4. CASE \E s \in Sums : IsWanted(s)
  BY <1>3, <1>4
<1>5. CASE ~\E s \in Sums : IsWanted(s)
  <2>1. Published \in Sums
    BY <1>2, <1>5 DEF Published
  <2>2. \A s : ~IsWanted(s)
    BY <1>5, WantedIsLast DEF ArgumentsOK
  <2>3. QED  BY <2>1, <2>2
<1>6. QED  BY <1>3, <1>4, <1>5

\* A function on the one caller.
LEMMA OneCaller ==
    ASSUME NEW x, NEW y
    PROVE  /\ [[u \in {"u"} |-> x] EXCEPT !["u"] = y] = [u \in {"u"} |-> y]
           /\ [u \in {"u"} |-> x]["u"] = x
  OBVIOUS

\* What UpdateApply sees is all it sees.
LEMMA Stutters ==
    ASSUME Seen' = Seen
    PROVE  UNCHANGED Abstract!vars
<1>1. /\ Operation' = Operation /\ Staging' = Staging /\ Applied' = Applied
      /\ (Applying /\ extracts)' = (Applying /\ extracts)
      /\ (Applying /\ cancellable)' = (Applying /\ cancellable)
      /\ (Applying /\ token)' = (Applying /\ token)
      /\ Unpacked' = Unpacked
      /\ (IF Applying THEN "old" ELSE "none")' = (IF Applying THEN "old" ELSE "none")
      /\ (IF call = "failed" THEN "err" ELSE "none")'
            = (IF call = "failed" THEN "err" ELSE "none")
  BY DEF Seen
<1>2. QED
  BY <1>1
     DEF Applied, Unpacked, Abstract!vars, Abstract!files, Abstract!staging, Abstract!args

\* A call that fails.
LEMMA FailsToo ==
    ASSUME call' = "failed"
    PROVE  Abstract!Fail("u")
<1>1. /\ Operation' = "idle" /\ Staging' = "none" /\ ~Applying'
      /\ ~(extracts' /\ call' \in Stages \ {"extract"})
  BY DEF Operation, Staging, Stages, Applying
<1>2. QED
  BY <1>1, OneCaller
     DEF Abstract!Fail, Abstract!Return, Abstract!Goto, Abstract!files

\* A call that goes on: its arguments stay, and so does what is on disk but for the
\* two staging files.
LEMMA GoesOn ==
    ASSUME Applying, Applying', Published' = Published,
           UNCHANGED <<extracts, cancellable, token>>
    PROVE  /\ Abstract!Goto("u", Operation')
           /\ UNCHANGED Abstract!files /\ UNCHANGED Abstract!args
           /\ UNCHANGED [u \in {"u"} |-> Applying /\ token]
           /\ UNCHANGED [u \in {"u"} |-> FALSE]
           /\ UNCHANGED [u \in {"u"} |-> IF call = "failed" THEN "err" ELSE "none"]
           /\ UNCHANGED [u \in {"u"} |-> IF Applying THEN Published ELSE "none"]
           /\ UNCHANGED [u \in {"u"} |-> Applying /\ extracts]
           /\ UNCHANGED [u \in {"u"} |-> Applying /\ cancellable]
           /\ UNCHANGED [u \in {"u"} |-> IF Applying THEN "old" ELSE "none"]
           /\ Staging' = Staging => UNCHANGED [u \in {"u"} |-> Staging]
           /\ Unpacked' = Unpacked =>
                 UNCHANGED [u \in {"u"} |-> IF extracts /\ call \in Stages \ {"extract"}
                                            THEN content ELSE "none"]
<1>1. call # "failed" /\ call' # "failed"
  BY DEF Applying
<1>2. Abstract!Goto("u", Operation')
  BY OneCaller DEF Abstract!Goto
<1>3. UNCHANGED Abstract!files
  BY DEF Abstract!files
<1>4. /\ UNCHANGED [u \in {"u"} |-> IF Applying THEN Published ELSE "none"]
      /\ UNCHANGED [u \in {"u"} |-> Applying /\ extracts]
      /\ UNCHANGED [u \in {"u"} |-> Applying /\ cancellable]
      /\ UNCHANGED [u \in {"u"} |-> IF Applying THEN "old" ELSE "none"]
      /\ UNCHANGED [u \in {"u"} |-> Applying /\ token]
  OBVIOUS
<1>5. /\ UNCHANGED [u \in {"u"} |-> IF call = "failed" THEN "err" ELSE "none"]
      /\ UNCHANGED [u \in {"u"} |-> FALSE]
  BY <1>1
<1>6. /\ Staging' = Staging => UNCHANGED [u \in {"u"} |-> Staging]
      /\ Unpacked' = Unpacked =>
            UNCHANGED [u \in {"u"} |-> IF extracts /\ call \in Stages \ {"extract"}
                                       THEN content ELSE "none"]
  BY DEF Unpacked
<1>7. UNCHANGED Abstract!args
  BY <1>4 DEF Abstract!args
<1>8. QED  BY <1>2, <1>3, <1>4, <1>5, <1>6, <1>7

\* One that stays where UpdateApply has it.
LEMMA StaysPut ==
    ASSUME Applying, Applying', Published' = Published,
           UNCHANGED <<extracts, cancellable, token>>,
           Operation' = Operation, Staging' = Staging, Unpacked' = Unpacked
    PROVE  UNCHANGED Abstract!vars
<1>1. call # "failed" /\ call' # "failed"
  BY DEF Applying
<1>2. Seen' = Seen
  BY <1>1 DEF Seen, Applied
<1>3. QED  BY <1>2, Stutters

\* One that is not applying a release, before and after.
LEMMA NotYet ==
    ASSUME {call, call'} \subseteq {"idle", "metadata", "unavailable"}
    PROVE  UNCHANGED Abstract!vars
<1>1. ~Applying /\ ~Applying' /\ call # "failed" /\ call' # "failed"
  BY DEF Applying
<1>2. /\ Operation = "idle" /\ Operation' = "idle"
      /\ Staging = "none" /\ Staging' = "none"
      /\ Unpacked = "none" /\ Unpacked' = "none"
  BY DEF Operation, Staging, Unpacked, Stages
<1>3. Seen' = Seen
  BY <1>1, <1>2 DEF Seen, Applied
<1>4. QED  BY <1>3, Stutters

\* An operation of UpdateApply that may fail at any moment.
LEMMA FailsAnywhere ==
    ASSUME call' = "failed",
           \/ Operation \in {"prepare", "probe", "stage", "download", "extract", "chmod"}
           \/ Operation = "verify" /\ Staging # Published /\ Applying
           \/ Operation = "enter" /\ Applying /\ ~Running
    PROVE  Abstract!Next
<1>1. Abstract!Fail("u")
  BY FailsToo
<1>2. CASE Operation \in {"prepare", "probe", "stage"}
  <2>1. \/ Abstract!Prepare("u") \/ Abstract!CheckWritable("u")
        \/ Abstract!CreateStaging("u")
    BY <1>1, <1>2, OneCaller
       DEF Abstract!Prepare, Abstract!CheckWritable, Abstract!CreateStaging, Abstract!At
  <2>2. QED  BY <2>1 DEF Abstract!Next, Abstract!Step
<1>3. CASE Operation \in {"download", "extract", "chmod"}
  <2>1. Abstract!Download("u") \/ Abstract!Extract("u") \/ Abstract!MakeExecutable("u")
    BY <1>1, <1>3, OneCaller
       DEF Abstract!Download, Abstract!Extract, Abstract!MakeExecutable, Abstract!At
  <2>2. QED  BY <2>1 DEF Abstract!Next, Abstract!Step
<1>4. CASE Operation = "verify" /\ Staging # Published /\ Applying
  <2>1. Abstract!Verify("u")
    BY <1>1, <1>4, OneCaller DEF Abstract!Verify, Abstract!At
  <2>2. QED  BY <2>1 DEF Abstract!Next, Abstract!Step
<1>5. CASE Operation = "enter" /\ Applying /\ ~Running
  <2>1. Abstract!EnterSwap("u")
    BY <1>1, <1>5, OneCaller
       DEF Abstract!EnterSwap, Abstract!At, Abstract!CancelSeen, Running
  <2>2. QED  BY <2>1 DEF Abstract!Next, Abstract!Step
<1>6. QED  BY <1>2, <1>3, <1>4, <1>5

\* One that goes on to the next operation, its staging files as they are.
LEMMA NextOperation ==
    ASSUME Applying, Applying', Published' = Published,
           UNCHANGED <<extracts, cancellable, token>>, Staging' = Staging,
           \/ /\ Operation = "prepare" /\ Operation' = "probe" /\ Running
              /\ Unpacked' = Unpacked
           \/ /\ Operation = "probe" /\ Operation' = "stage" /\ Unpacked' = Unpacked
           \/ /\ Operation = "verify" /\ Staging = Published /\ Unpacked' = Unpacked
              /\ Operation' = IF extracts THEN "extract" ELSE "chmod"
           \/ /\ Operation = "extract" /\ Operation' = "chmod" /\ Unpacked' = Staging
           \/ /\ Operation = "chmod" /\ Operation' = "enter" /\ Unpacked' = Unpacked
           \/ /\ Operation = "enter" /\ Operation' = "metadata" /\ Running
              /\ Unpacked' = Unpacked
    PROVE  Abstract!Next
<1> DEFINE Same == /\ UNCHANGED Abstract!files /\ UNCHANGED Abstract!args
                   /\ UNCHANGED [u \in {"u"} |-> Applying /\ token]
                   /\ UNCHANGED [u \in {"u"} |-> FALSE]
                   /\ UNCHANGED [u \in {"u"} |->
                                    IF call = "failed" THEN "err" ELSE "none"]
                   /\ UNCHANGED [u \in {"u"} |-> Staging]
<1>1. Same /\ Abstract!Goto("u", Operation')
  BY GoesOn
<1>2. Running => ~Abstract!CancelSeen("u")
  BY OneCaller DEF Running, Abstract!CancelSeen
<1>3. CASE Unpacked' = Unpacked
  <2>1. UNCHANGED Abstract!staging
    BY <1>3, GoesOn DEF Abstract!staging
  <2>2. CASE Operation = "prepare" /\ Operation' = "probe" /\ Running
    <3>1. Abstract!Prepare("u")
      BY <1>1, <1>2, <2>1, <2>2, OneCaller DEF Abstract!Prepare, Abstract!At
    <3>2. QED  BY <3>1 DEF Abstract!Next, Abstract!Step
  <2>3. CASE Operation = "probe" /\ Operation' = "stage"
    <3>1. Abstract!CheckWritable("u")
      BY <1>1, <2>1, <2>3, OneCaller DEF Abstract!CheckWritable, Abstract!At
    <3>2. QED  BY <3>1 DEF Abstract!Next, Abstract!Step
  <2>4. CASE /\ Operation = "verify" /\ Staging = Published
             /\ Operation' = IF extracts THEN "extract" ELSE "chmod"
    <3>1. Abstract!Verify("u")
      BY <1>1, <2>1, <2>4, OneCaller DEF Abstract!Verify, Abstract!At
    <3>2. QED  BY <3>1 DEF Abstract!Next, Abstract!Step
  <2>5. CASE Operation = "chmod" /\ Operation' = "enter"
    <3>1. Abstract!MakeExecutable("u")
      BY <1>1, <2>1, <2>5, OneCaller DEF Abstract!MakeExecutable, Abstract!At
    <3>2. QED  BY <3>1 DEF Abstract!Next, Abstract!Step
  <2>6. CASE Operation = "enter" /\ Operation' = "metadata" /\ Running
    <3>1. Abstract!EnterSwap("u")
      BY <1>1, <1>2, <2>1, <2>6, OneCaller DEF Abstract!EnterSwap, Abstract!At
    <3>2. QED  BY <3>1 DEF Abstract!Next, Abstract!Step
  <2>7. CASE Operation = "extract" /\ Operation' = "chmod" /\ Unpacked' = Staging
    <3>1. Abstract!Extract("u")
      BY <1>1, <2>7, OneCaller DEF Abstract!Extract, Abstract!At, Unpacked
    <3>2. QED  BY <3>1 DEF Abstract!Next, Abstract!Step
  <2>8. QED  BY <1>3, <2>2, <2>3, <2>4, <2>5, <2>6, <2>7
<1>4. CASE Operation = "extract" /\ Operation' = "chmod" /\ Unpacked' = Staging
  <2>1. Abstract!Extract("u")
    BY <1>1, <1>4, OneCaller DEF Abstract!Extract, Abstract!At, Unpacked
  <2>2. QED  BY <2>1 DEF Abstract!Next, Abstract!Step
<1>5. QED  BY <1>3, <1>4

\* The release that is applied is one of the releases there are.
LEMMA StartsToo ==
    ASSUME DownloadInv, DownloadInv', Apply
    PROVE  Abstract!Next
<1>1. /\ Published' \in Sums /\ extracts' \in BOOLEAN /\ cancellable' \in BOOLEAN
      /\ token' = FALSE
  <2>1. Sums # {} /\ (CHOOSE s \in Sums : TRUE) \in Sums
    BY SumsAssumption
  <2>2. Published' \in Sums
    BY <2>1 DEF Published
  <2>3. QED  BY <2>2 DEF Apply, DownloadInv, DownloadTypeOK, RequestTypeOK
<1>2. call = "metadata" /\ call' = "apply"
  BY DEF Apply
<1>3. /\ ~Applying /\ Applying' /\ Operation = "idle" /\ Operation' = "prepare"
      /\ Staging = "none" /\ Staging' = "none" /\ Unpacked = "none" /\ Unpacked' = "none"
  BY <1>2 DEF Applying, Operation, Staging, Unpacked, Stages
<1>4. /\ Abstract!At("u", "idle") /\ Abstract!Goto("u", "prepare")
      /\ \A q \in {"u"} : Abstract!At(q, "idle")
  BY <1>3, OneCaller DEF Abstract!At, Abstract!Goto
<1>5. /\ UNCHANGED Abstract!files /\ UNCHANGED Abstract!staging
      /\ UNCHANGED [u \in {"u"} |-> Applying /\ token]
      /\ UNCHANGED [u \in {"u"} |-> FALSE]
  BY <1>1, <1>3 DEF Abstract!files, Abstract!staging, Unpacked
<1>6. Abstract!Start("u")
  BY <1>1, <1>2, <1>3, <1>4, <1>5, OneCaller DEF Abstract!Start
<1>7. QED  BY <1>6 DEF Abstract!Next

\* Every step of the download is one of UpdateApply, or none.
LEMMA StepsToo ==
    ASSUME DownloadInv, DownloadInv', [Next]_vars
    PROVE  Abstract!Next \/ UNCHANGED Abstract!vars
<1>0. RequestInv /\ CallInv /\ ArgumentsOK /\ token \in BOOLEAN /\ cancellable \in BOOLEAN
  BY DEF DownloadInv, DownloadTypeOK, ArgumentsOK, RequestTypeOK
<1>1. ASSUME UNCHANGED arguments
      PROVE  /\ Published' = Published /\ extracts' = extracts /\ cosign' = cosign
             /\ content' = content => (IsWanted(content)' <=> IsWanted(content))
             /\ IsWanted(content)' => Published = content'
  <2>1. UNCHANGED <<assets, manifest>>
    BY <1>1 DEF arguments
  <2>2. IsWanted(content)' => \E s : s = content' /\ IsWanted(s)
    BY <2>1 DEF IsWanted, Selected, Checksums
  <2>3. QED  BY <1>0, <1>1, <2>1, <2>2, WantedStays, PublishedIsWanted DEF arguments
<1>2. /\ Published \in Sums /\ "corrupt" \notin Sums
      /\ IsWanted(content) => Published = content
  BY <1>0, PublishedIsWanted, SumsAssumption
<1>3. CASE Check
  BY <1>3, NotYet DEF Check, Goto
<1>4. CASE RequestFailed
  <2>1. CASE call = "metadata"
    BY <1>4, <2>1, NotYet DEF RequestFailed, Goto
  <2>2. CASE call # "metadata"
    <3>1. call' = "failed"
      BY <1>4, <2>2 DEF RequestFailed, Goto
    <3>2. Operation \in {"prepare", "download"}
      BY <1>4, <2>2 DEF RequestFailed, Operation, Received, Fetching
    <3>3. QED  BY <3>1, <3>2, FailsAnywhere
  <2>3. QED  BY <2>1, <2>2
<1>5. CASE Apply
  BY <1>5, StartsToo
<1>6. CASE RequestGoesOn
  <2>1. CASE call \in {"idle", "metadata", "unavailable"}
    BY <1>6, <2>1, NotYet DEF RequestGoesOn
  <2>2. CASE call = "failed"
    <3>1. ~Applying /\ ~Applying' /\ call' = "failed"
      BY <1>6, <2>2 DEF RequestGoesOn, Applying
    <3>2. /\ Operation = "idle" /\ Operation' = "idle"
          /\ Staging = "none" /\ Staging' = "none"
          /\ Unpacked = "none" /\ Unpacked' = "none"
      BY <2>2, <3>1 DEF Operation, Staging, Unpacked, Stages
    <3>3. Seen' = Seen
      BY <2>2, <3>1, <3>2 DEF Seen, Applied
    <3>4. QED  BY <3>3, Stutters
  <2>3. CASE Applying
    <3>1. /\ Applying' /\ call' = call /\ UNCHANGED arguments
          /\ content' \in (IF purpose = "asset" /\ outcome = "none" /\ outcome' = "ok"
                           THEN Sums ELSE {content})
      BY <1>6, <2>3 DEF RequestGoesOn, Applying
    <3>2. Published' = Published /\ extracts' = extracts /\ cosign' = cosign
      BY <1>1, <3>1
    <3>3. /\ purpose' = purpose /\ cancellable' = cancellable
          /\ \/ cancellable /\ ~token /\ token' = TRUE /\ UNCHANGED <<stage, outcome>>
             \/ /\ token' = token /\ stage \notin {"off", "over"} /\ stage' # "off"
                /\ outcome = "none" /\ (outcome' = "ok" => Running /\ stage' = "over")
                /\ (stage' = "over" => outcome' # "none")
      BY <1>0, <1>6, RequestMoves DEF RequestGoesOn
    <3>4. CASE cancellable /\ ~token /\ token' = TRUE /\ UNCHANGED <<stage, outcome>>
      <4>1. content' = content
        BY <3>1, <3>4
      <4>2. /\ Operation' = Operation /\ Staging' = Staging /\ Unpacked' = Unpacked
            /\ Operation # "idle"
        BY <1>1, <2>3, <3>1, <3>2, <3>4, <4>1
           DEF Operation, Staging, Unpacked, Received, Stages, Applying, Fetching,
               DownloadInv, DownloadTypeOK
      <4>3. Abstract!Cancel("u")
        <5>1. /\ UNCHANGED Abstract!files /\ UNCHANGED Abstract!args
              /\ UNCHANGED Abstract!staging
              /\ UNCHANGED [u \in {"u"} |-> Operation]
              /\ UNCHANGED [u \in {"u"} |-> FALSE]
              /\ UNCHANGED [u \in {"u"} |-> IF call = "failed" THEN "err" ELSE "none"]
          BY <2>3, <3>1, <3>2, <3>3, <4>2
             DEF Abstract!files, Abstract!args, Abstract!staging, Unpacked
        <5>2. QED
          BY <1>0, <2>3, <3>1, <3>3, <3>4, <4>2, <5>1, OneCaller
             DEF Abstract!Cancel, Abstract!At
      <4>4. QED  BY <4>3 DEF Abstract!Next
    <3>5. CASE /\ token' = token /\ stage \notin {"off", "over"} /\ stage' # "off"
               /\ outcome = "none" /\ (outcome' = "ok" => Running /\ stage' = "over")
      <4>1. call \in {"checksums", "signature", "certificate", "asset"} /\ ~Received
        BY <1>0, <2>3, <3>5 DEF CallInv, Fetching, Applying, Received
      <4>2. Received' <=> outcome' = "ok"
        BY <3>1, <3>5, <4>1 DEF Received, Fetching
      <4>3. Unpacked = "none" /\ Unpacked' = "none"
        BY <3>1, <4>1 DEF Unpacked, Stages
      <4>4. CASE call \in {"signature", "certificate"} \/ outcome' # "ok"
                 \/ (call = "checksums" /\ cosign)
        <5>1. Operation' = Operation /\ Staging' = Staging
          BY <3>1, <3>2, <4>1, <4>2, <4>4 DEF Operation, Staging, Stages
        <5>2. QED  BY <2>3, <3>1, <3>2, <3>3, <3>5, <4>3, <5>1, StaysPut
      <4>5. CASE call = "checksums" /\ outcome' = "ok" /\ ~cosign
        <5>1. /\ Operation = "prepare" /\ Operation' = "probe"
              /\ Staging' = Staging
          BY <3>1, <3>2, <4>1, <4>2, <4>5 DEF Operation, Staging, Stages
        <5>2. QED
          BY <2>3, <3>1, <3>2, <3>3, <3>5, <4>3, <4>5, <5>1, NextOperation
      <4>6. CASE call = "asset" /\ outcome' = "ok"
        <5>1. /\ Operation = "download" /\ Operation' = "verify" /\ Staging = "part"
              /\ Staging' = IF IsWanted(content)' THEN content' ELSE "corrupt"
          BY <3>1, <4>1, <4>2, <4>6 DEF Operation, Staging, Stages
        <5>2. Staging' \in {Published, "corrupt", "part"}
          BY <1>1, <3>1, <5>1
        <5>3. Abstract!Download("u")
          <6>1. ~Abstract!CancelSeen("u")
            BY <3>5, <4>6, OneCaller DEF Running, Abstract!CancelSeen
          <6>2. /\ Abstract!Goto("u", "verify") /\ UNCHANGED Abstract!files
                /\ UNCHANGED Abstract!args
                /\ UNCHANGED [u \in {"u"} |-> Applying /\ token]
                /\ UNCHANGED [u \in {"u"} |-> FALSE]
                /\ UNCHANGED [u \in {"u"} |-> IF call = "failed" THEN "err" ELSE "none"]
                /\ UNCHANGED [u \in {"u"} |-> IF extracts /\ call \in Stages \ {"extract"}
                                              THEN content ELSE "none"]
            BY <2>3, <3>1, <3>2, <3>3, <3>5, <4>3, <5>1, GoesOn
          <6>3. QED
            BY <2>3, <5>1, <5>2, <6>1, <6>2, OneCaller DEF Abstract!Download, Abstract!At
        <5>4. QED  BY <5>3 DEF Abstract!Next, Abstract!Step
      <4>7. QED  BY <4>1, <4>4, <4>5, <4>6
    <3>6. QED  BY <3>3, <3>4, <3>5
  <2>4. QED  BY <2>1, <2>2, <2>3 DEF Applying
<1>7. CASE SelectAssets
  <2>1. call = "apply" /\ Operation = "prepare"
    BY <1>7 DEF SelectAssets, Operation
  <2>2. CASE call' = "failed"
    BY <2>1, <2>2, FailsAnywhere
  <2>3. CASE call' # "failed"
    <3>1. /\ call' = "checksums" /\ UNCHANGED <<arguments, cancellable, token>>
          /\ stage' = "send"
      BY <1>7, <2>3 DEF SelectAssets, Goto, StartRequest
    <3>2. Operation' = "prepare" /\ Applying /\ Applying'
      BY <2>1, <3>1 DEF Operation, Received, Applying
    <3>3. Staging = "none" /\ Staging' = "none" /\ Unpacked = "none" /\ Unpacked' = "none"
      BY <2>1, <3>1 DEF Staging, Unpacked, Stages
    <3>4. QED  BY <1>1, <2>1, <3>1, <3>2, <3>3, StaysPut
  <2>4. QED  BY <2>2, <2>3
<1>8. CASE ReadChecksums
  <2>1. /\ call = "checksums" /\ Received
        /\ Operation = IF ~cosign THEN "probe" ELSE "prepare"
    BY <1>8 DEF ReadChecksums, Operation
  <2>2. CASE call' = "failed"
    BY <2>1, <2>2, FailsAnywhere
  <2>3. CASE call' # "failed"
    <3>1. /\ call' = IF cosign THEN "signature" ELSE "wanted"
          /\ UNCHANGED arguments /\ UNCHANGED <<cancellable, token>>
      BY <1>8, <2>3 DEF ReadChecksums, Goto, Forget, NoRequest, StartRequest
    <3>2. Operation' = Operation /\ Applying /\ Applying'
      BY <2>1, <3>1 DEF Operation, Applying
    <3>3. Staging = "none" /\ Staging' = "none" /\ Unpacked = "none" /\ Unpacked' = "none"
      BY <2>1, <3>1 DEF Staging, Unpacked, Stages
    <3>4. QED  BY <1>1, <3>1, <3>2, <3>3, StaysPut
  <2>4. QED  BY <2>2, <2>3
<1>9. CASE ReadSignature \/ ReadCertificate
  <2>1. /\ call \in {"signature", "certificate"} /\ call' \in {"certificate", "verify"}
        /\ UNCHANGED arguments /\ UNCHANGED <<cancellable, token>>
    BY <1>9 DEF ReadSignature, ReadCertificate, Goto, Forget, NoRequest, StartRequest
  <2>2. Operation' = Operation /\ Applying /\ Applying'
    BY <2>1 DEF Operation, Applying
  <2>3. Staging = "none" /\ Staging' = "none" /\ Unpacked = "none" /\ Unpacked' = "none"
    BY <2>1 DEF Staging, Unpacked, Stages
  <2>4. QED  BY <1>1, <2>1, <2>2, <2>3, StaysPut
<1>10. CASE VerifySignature
  <2>1. call = "verify" /\ Operation = "prepare"
    BY <1>10 DEF VerifySignature, Operation
  <2>2. CASE call' = "failed"
    BY <2>1, <2>2, FailsAnywhere
  <2>3. CASE call' # "failed"
    <3>1. /\ call' = "wanted" /\ UNCHANGED arguments /\ UNCHANGED <<cancellable, token>>
          /\ Running
      BY <1>10, <2>3 DEF VerifySignature, Goto, request
    <3>2. Operation' = "probe" /\ Applying /\ Applying'
      BY <2>1, <3>1 DEF Operation, Applying
    <3>3. Staging = "none" /\ Staging' = "none" /\ Unpacked = "none" /\ Unpacked' = "none"
      BY <2>1, <3>1 DEF Staging, Unpacked, Stages
    <3>4. QED  BY <1>1, <2>1, <3>1, <3>2, <3>3, NextOperation
  <2>4. QED  BY <2>2, <2>3
<1>11. CASE LookUpWanted
  <2>1. call = "wanted" /\ Operation = "probe"
    BY <1>11 DEF LookUpWanted, Operation
  <2>2. CASE call' = "failed"
    BY <2>1, <2>2, FailsAnywhere
  <2>3. CASE call' # "failed"
    <3>1. /\ call' = "stage" /\ UNCHANGED arguments /\ UNCHANGED <<cancellable, token>>
      BY <1>11, <2>3 DEF LookUpWanted, Goto, request
    <3>2. Operation' = "stage" /\ Applying /\ Applying'
      BY <2>1, <3>1 DEF Operation, Applying
    <3>3. Staging = "none" /\ Staging' = "none" /\ Unpacked = "none" /\ Unpacked' = "none"
      BY <2>1, <3>1 DEF Staging, Unpacked, Stages
    <3>4. QED  BY <1>1, <2>1, <3>1, <3>2, <3>3, NextOperation
  <2>4. QED  BY <2>2, <2>3
<1>12. CASE CreateStaging
  <2>1. call = "stage" /\ Operation = "stage"
    BY <1>12 DEF CreateStaging, Operation
  <2>2. CASE call' = "failed"
    BY <2>1, <2>2, FailsAnywhere
  <2>3. CASE call' # "failed"
    <3>1. /\ call' = "asset" /\ UNCHANGED arguments /\ UNCHANGED <<cancellable, token>>
          /\ stage' = "send" /\ Running
      BY <1>12, <2>3 DEF CreateStaging, Goto, StartRequest
    <3>2. /\ Operation' = "download" /\ Applying /\ Applying'
          /\ Staging' = "part" /\ Unpacked = "none" /\ Unpacked' = "none"
      BY <2>1, <3>1 DEF Operation, Applying, Received, Staging, Unpacked, Stages
    <3>3. Abstract!CreateStaging("u")
      <4>1. ~Abstract!CancelSeen("u")
        BY <3>1, OneCaller DEF Running, Abstract!CancelSeen
      <4>2. /\ Abstract!Goto("u", "download") /\ UNCHANGED Abstract!files
            /\ UNCHANGED Abstract!args
            /\ UNCHANGED [u \in {"u"} |-> Applying /\ token]
            /\ UNCHANGED [u \in {"u"} |-> FALSE]
            /\ UNCHANGED [u \in {"u"} |-> IF call = "failed" THEN "err" ELSE "none"]
            /\ UNCHANGED [u \in {"u"} |-> IF extracts /\ call \in Stages \ {"extract"}
                                          THEN content ELSE "none"]
        BY <1>1, <3>1, <3>2, GoesOn
      <4>3. QED
        BY <2>1, <3>2, <4>1, <4>2, OneCaller DEF Abstract!CreateStaging, Abstract!At
    <3>4. QED  BY <3>3 DEF Abstract!Next, Abstract!Step
  <2>4. QED  BY <2>2, <2>3
<1>13. CASE CompareDigest
  <2>1. /\ call = "asset" /\ Received /\ Operation = "verify" /\ Applying
        /\ Staging = IF IsWanted(content) THEN content ELSE "corrupt"
    BY <1>13 DEF CompareDigest, Operation, Staging, Stages, Applying
  <2>2. CASE ~IsWanted(content)
    <3>1. call' = "failed" /\ Staging # Published
      BY <1>2, <1>13, <2>1, <2>2 DEF CompareDigest, Goto
    <3>2. QED  BY <2>1, <3>1, FailsAnywhere
  <2>3. CASE IsWanted(content)
    <3>1. /\ call' = IF extracts THEN "extract" ELSE "chmod"
          /\ UNCHANGED arguments /\ UNCHANGED <<cancellable, token>> /\ content' = content
      BY <1>13, <2>3 DEF CompareDigest, Goto, Forget, NoRequest
    <3>2. Operation' = call' /\ Applying'
      BY <3>1 DEF Operation, Applying
    <3>3. Staging = Published /\ Staging' = content'
      BY <1>1, <1>2, <2>1, <2>3, <3>1 DEF Staging, Stages
    <3>4. Unpacked = "none" /\ Unpacked' = "none"
      BY <1>1, <2>1, <3>1 DEF Unpacked, Stages
    <3>5. QED  BY <1>1, <1>2, <2>1, <2>3, <3>1, <3>2, <3>3, <3>4, NextOperation
  <2>4. QED  BY <2>2, <2>3
<1>14. CASE ExtractGoesOn
  <2>1. Seen' = Seen
    <3>1. /\ UNCHANGED <<call, arguments, content>>
          /\ UNCHANGED <<stage, outcome, cancellable, token>>
      BY <1>14 DEF ExtractGoesOn, request
    <3>2. Operation' = Operation /\ Staging' = Staging /\ Unpacked' = Unpacked
      BY <1>1, <3>1 DEF Operation, Staging, Unpacked, Received
    <3>3. Applying' = Applying
      BY <3>1 DEF Applying
    <3>4. QED  BY <1>1, <3>1, <3>2, <3>3 DEF Seen, Applied
  <2>2. QED  BY <2>1, Stutters
<1>15. ASSUME call \in Stages, call' \in Stages, UNCHANGED <<arguments, content, request>>
       PROVE  /\ Applying /\ Applying' /\ UNCHANGED <<cancellable, token>>
              /\ Staging = content /\ Staging' = content /\ Operation' =
                    (IF call' = "staged" THEN "metadata" ELSE call')
              /\ Operation = (IF call = "staged" THEN "metadata" ELSE call)
  <2>1. IsWanted(content) /\ IsWanted(content)' /\ content' = content
    BY <1>0, <1>1, <1>15 DEF CallInv
  <2>2. QED
    BY <1>15, <2>1 DEF Applying, request, Staging, Operation, Stages
<1>16. CASE ExtractOver
  <2>1. call = "extract" /\ Operation = "extract" /\ extracts
    BY <1>0, <1>16 DEF ExtractOver, Operation, CallInv
  <2>2. CASE call' = "failed"
    BY <2>1, <2>2, FailsAnywhere
  <2>3. CASE call' # "failed"
    <3>1. call' = "chmod" /\ UNCHANGED <<arguments, content, request>>
      BY <1>16, <2>3 DEF ExtractOver, Goto
    <3>2. Unpacked' = content
      BY <1>1, <2>1, <3>1 DEF Unpacked, Stages
    <3>3. QED  BY <1>1, <1>15, <2>1, <3>1, <3>2, NextOperation DEF Stages
  <2>4. QED  BY <2>2, <2>3
<1>17. CASE MakeExecutable
  <2>1. call = "chmod" /\ Operation = "chmod"
    BY <1>17 DEF MakeExecutable, Operation
  <2>2. CASE call' = "failed"
    BY <2>1, <2>2, FailsAnywhere
  <2>3. CASE call' # "failed"
    <3>1. call' = "enter" /\ UNCHANGED <<arguments, content, request>>
      BY <1>17, <2>3 DEF MakeExecutable, Goto
    <3>2. Unpacked' = Unpacked
      BY <1>1, <2>1, <3>1 DEF Unpacked, Stages
    <3>3. QED  BY <1>1, <1>15, <2>1, <3>1, <3>2, NextOperation DEF Stages
  <2>4. QED  BY <2>2, <2>3
<1>18. CASE EnterSwap
  <2>1. call = "enter" /\ Operation = "enter" /\ Applying
    BY <1>18 DEF EnterSwap, Operation, Applying
  <2>2. CASE call' = "failed"
    <3>1. ~Running
      BY <1>18, <2>2 DEF EnterSwap, Goto
    <3>2. QED  BY <2>1, <2>2, <3>1, FailsAnywhere
  <2>3. CASE call' # "failed"
    <3>1. call' = "staged" /\ Running /\ UNCHANGED <<arguments, content, request>>
      BY <1>18, <2>3 DEF EnterSwap, Goto
    <3>2. Unpacked' = Unpacked
      BY <1>1, <2>1, <3>1 DEF Unpacked, Stages
    <3>3. QED  BY <1>1, <1>15, <2>1, <3>1, <3>2, NextOperation DEF Stages
  <2>4. QED  BY <2>2, <2>3
<1>19. CASE UNCHANGED vars
  <2>1. /\ UNCHANGED <<call, arguments, content>>
        /\ UNCHANGED <<stage, outcome, cancellable, token>>
    BY <1>19 DEF vars, request
  <2>2. Operation' = Operation /\ Staging' = Staging /\ Unpacked' = Unpacked
    BY <1>1, <2>1 DEF Operation, Staging, Unpacked, Received
  <2>3. Applying' = Applying
    BY <2>1 DEF Applying
  <2>4. Seen' = Seen
    BY <1>1, <2>1, <2>2, <2>3 DEF Seen, Applied
  <2>5. QED  BY <2>4, Stutters
<1>20. QED
  BY <1>3, <1>4, <1>5, <1>6, <1>7, <1>8, <1>9, <1>10, <1>11, <1>12, <1>13, <1>14,
     <1>16, <1>17, <1>18, <1>19 DEF Next

\* The download starts as UpdateApply's caller does.
LEMMA StartsAsOne ==
    ASSUME Init
    PROVE  Abstract!Init
<1>1. /\ ~Applying /\ Operation = "idle" /\ Staging = "none" /\ Unpacked = "none"
      /\ call # "failed"
  BY DEF Init, Applying, Operation, Staging, Unpacked, Stages
<1>2. QED  BY <1>1 DEF Abstract!Init, Unpacked

-------------------------------------------------------------------------------
(* The theorems.                                                             *)

\* The inductive invariant of the download, its types among it: the request and
\* the extraction are where the caller's operation says they are, and what it has
\* passed on the way still holds.
THEOREM DownloadInvariant == Spec => []DownloadInv
<1>1. Init => DownloadInv
  BY DownloadStarts
<1>2. DownloadInv /\ [Next]_vars => DownloadInv'
  BY DownloadGoes
<1>3. QED  BY <1>1, <1>2, PTL DEF Spec

\* Every variable keeps its type.
THEOREM DownloadTypeCorrect == Spec => []DownloadTypeOK
<1>1. DownloadInv => DownloadTypeOK
  BY DEF DownloadInv
<1>2. QED  BY <1>1, DownloadInvariant, PTL

\* Whatever the server answers, only trusted addresses are asked after the caller's
\* own, and no more than the cap allows.
THEOREM HopsAreTrusted == Spec => []TrustedHops
<1>1. DownloadInv => TrustedHops
  BY DEF DownloadInv, RequestInv
<1>2. QED  BY <1>1, DownloadInvariant, PTL

\* A body that is taken for a whole one is one, of any length the limit allows.
THEOREM BodiesAreTrue == Spec => []BodyIsTrue
<1>1. DownloadInv => BodyIsTrue
  BY DEF DownloadInv, RequestInv
<1>2. QED  BY <1>1, DownloadInvariant, PTL

\* No entry of an archive is written outside the directory, and each is written
\* where its name means, for all names of any number of parts.
THEOREM FilesAreConfined == Spec => []Confined
<1>1. DownloadInv => Confined
  BY ExtractedIsMeant DEF DownloadInv
<1>2. QED  BY <1>1, DownloadInvariant, PTL

\* The binary that extraction returns is, whole, the last of that name in the
\* format that was accepted.
THEOREM SelectedBinaryIsWhole == Spec => []SelectedIsWhole
<1>1. DownloadInv => SelectedIsWhole
  BY ExtractedIsMeant DEF DownloadInv
<1>2. QED  BY <1>1, DownloadInvariant, PTL

\* What is about to replace the installed binary has passed every comparison that
\* was asked for, for manifests of any number of lines.
THEOREM StagedBinaryIsVerified == Spec => []StagedIsVerified
<1>1. DownloadInv => StagedIsVerified
  BY WantedIsStaged
<1>2. QED  BY <1>1, DownloadInvariant, PTL

\* The download is, step by step, the preparation, download, comparison and
\* extraction of UpdateApply.
THEOREM DownloadImplementsApply == Spec => ImplementsApply
<1>1. Init => Abstract!Init
  BY StartsAsOne
<1>2. DownloadInv /\ DownloadInv' /\ [Next]_vars => [Abstract!Next]_(Abstract!vars)
  BY StepsToo
<1>3. QED
  BY <1>1, <1>2, DownloadInvariant, PTL DEF Spec, ImplementsApply, Abstract!Spec
===============================================================================
