--------------------------- MODULE ValidationProofs ---------------------------
(* Proofs about Validation, and about the scan, the admission and the tools it is made of. *)
EXTENDS Validation, SequenceTheorems, FiniteSetTheorems, WellFoundedInduction, TLAPS

------------------------------------------------------------------------------
(* Induction over the natural numbers, for sets: by the least number that is not in the set. *)

LEMMA AllNumbers ==
  ASSUME NEW S, 0 \in S, \A n \in Nat : n \in S => n + 1 \in S
  PROVE  Nat \subseteq S
<1> DEFINE Less == {p \in Nat \X Nat : p[1] < p[2]}
           Rest0 == Nat \ S
<1> SUFFICES ASSUME Rest0 # {} PROVE FALSE
  OBVIOUS
<1>1. IsWellFoundedOn(Less, Nat)
  BY NatLessThanWellFounded, Zenon DEF OpToRel
<1>2. \E x \in Rest0 : \A y \in Rest0 : <<y, x>> \notin Less
  <2>1. Rest0 \subseteq Nat
    OBVIOUS
  <2> HIDE DEF Less, Rest0
  <2> QED
    BY <1>1, <2>1, WFMin
<1>3. \A x, y \in Nat : x < y => <<x, y>> \in Less
  OBVIOUS
<1> HIDE DEF Less
<1>4. PICK x \in Rest0 : \A y \in Rest0 : <<y, x>> \notin Less
  BY <1>2
<1>5. x \in Nat /\ x # 0 /\ x - 1 \in Nat /\ x - 1 < x /\ (x - 1) + 1 = x
  BY <1>4
<1>6. x - 1 \in S
  BY <1>3, <1>4, <1>5
<1> QED
  BY <1>4, <1>5, <1>6

LEMMA MaxOfFinite ==
  ASSUME NEW S, IsFiniteSet(S), S \subseteq Nat, S # {}
  PROVE  Max(S) \in S /\ \A y \in S : Max(S) >= y
<1> DEFINE Has(T) == \E m \in T : \A y \in T : m >= y
           Good == {n \in Nat : \A T \in SUBSET Nat :
                      IsFiniteSet(T) /\ Cardinality(T) = n /\ T # {} => Has(T)}
<1>1. 0 \in Good
  <2> SUFFICES ASSUME NEW T \in SUBSET Nat, IsFiniteSet(T), Cardinality(T) = 0 PROVE T = {}
    OBVIOUS
  <2> QED
    BY FS_EmptySet
<1>2. ASSUME NEW n \in Nat, n \in Good PROVE n + 1 \in Good
  <2> SUFFICES ASSUME NEW T \in SUBSET Nat, IsFiniteSet(T), Cardinality(T) = n + 1, T # {} PROVE Has(T)
    OBVIOUS
  <2>1. PICK x \in T : TRUE
    OBVIOUS
  <2> DEFINE U == T \ {x}
  <2>2. IsFiniteSet(U) /\ Cardinality(U) = n /\ U \in SUBSET Nat
    <3>1. IsFiniteSet(U) /\ Cardinality(U) = Cardinality(T) - 1
      BY <2>1, FS_RemoveElement
    <3>2. U \in SUBSET Nat
      OBVIOUS
    <3> HIDE DEF U, Has, Good
    <3> QED
      BY <3>1, <3>2
  <2>3. CASE U = {}
    BY <2>3
  <2>4. CASE U # {}
    <3>1. Has(U)
      <4> HIDE DEF U, Has
      <4> QED
        BY <1>2, <2>2, <2>4
    <3>2. PICK m \in U : \A y \in U : m >= y
      BY <3>1
    <3>3. CASE m >= x
      BY <3>2, <3>3
    <3>4. CASE ~(m >= x)
      <4>1. x \in Nat /\ m \in Nat /\ \A y \in U : y \in Nat
        OBVIOUS
      <4>2. \A y \in T : x >= y
        BY <3>2, <3>4, <4>1
      <4> QED
        BY <4>2
    <3> QED
      BY <3>3, <3>4
  <2> QED
    BY <2>3, <2>4
<1> HIDE DEF Good
<1>3. Cardinality(S) \in Good
  BY <1>1, <1>2, AllNumbers, FS_CardinalityType
<1>4. Has(S)
  BY <1>3 DEF Good
<1> QED
  BY <1>4 DEF Max

------------------------------------------------------------------------------
(* The texts of the patches are finite. *)

IsFlat(f, s, n) ==
  f = [i \in 1 .. n |-> IF i = 1 THEN s[i] ELSE f[i - 1] \o s[i]]

LEMMA FlatExists ==
  ASSUME NEW s, NEW n \in Nat
  PROVE  \E f : IsFlat(f, s, n)
<1> DEFINE S == {m \in Nat : \E f : IsFlat(f, s, m)}
<1>1. 0 \in S
  <2> DEFINE f == [i \in 1 .. 0 |-> i]
  <2>1. IsFlat(f, s, 0)
    BY DEF IsFlat
  <2> QED
    BY <2>1
<1>2. ASSUME NEW m \in Nat, m \in S PROVE m + 1 \in S
  <2>1. PICK f : IsFlat(f, s, m)
    BY <1>2
  <2> DEFINE g == [k \in 1 .. m + 1 |-> IF k <= m THEN f[k] ELSE IF k = 1 THEN s[k] ELSE f[m] \o s[k]]
  <2>2. ASSUME NEW k \in 1 .. m + 1
        PROVE  g[k] = IF k = 1 THEN s[k] ELSE g[k - 1] \o s[k]
    <3>1. k <= m => f[k] = IF k = 1 THEN s[k] ELSE f[k - 1] \o s[k]
      <4> SUFFICES ASSUME k <= m PROVE f[k] = IF k = 1 THEN s[k] ELSE f[k - 1] \o s[k]
        OBVIOUS
      <4>1. k \in 1 .. m
        OBVIOUS
      <4>2. \A i \in 1 .. m : f[i] = IF i = 1 THEN s[i] ELSE f[i - 1] \o s[i]
        BY <2>1, Zenon DEF IsFlat
      <4> QED
        BY <4>1, <4>2, Zenon
    <3>2. k # 1 => g[k - 1] = f[k - 1]
      OBVIOUS
    <3>3. g[k] = IF k <= m THEN f[k] ELSE IF k = 1 THEN s[k] ELSE f[m] \o s[k]
      OBVIOUS
    <3> HIDE DEF g
    <3>4. CASE k <= m
      BY <3>1, <3>2, <3>3, <3>4
    <3>5. CASE k = m + 1
      BY <3>2, <3>3, <3>5
    <3> QED
      BY <3>4, <3>5
  <2>3. IsFlat(g, s, m + 1)
    <3>1. g = [k \in 1 .. m + 1 |-> g[k]]
      OBVIOUS
    <3> HIDE DEF g
    <3> QED
      BY <2>2, <3>1 DEF IsFlat
  <2> QED
    BY <2>3
<1> HIDE DEF S
<1>3. Nat \subseteq S
  BY <1>1, <1>2, AllNumbers
<1> QED
  BY <1>3 DEF S

LEMMA FlatSeq ==
  ASSUME NEW S, NEW s \in Seq(Seq(S))
  PROVE  FlattenSeq(s) \in Seq(S)
<1>0. Len(s) \in Nat
  BY LenProperties
<1>1. CASE Len(s) = 0
  <2>1. s = <<>>
    BY <1>1, EmptySeq
  <2> QED
    BY <1>1, <2>1, EmptySeq DEF FlattenSeq
<1>2. CASE Len(s) # 0
  <2> DEFINE f == CHOOSE f : IsFlat(f, s, Len(s))
  <2>1. FlattenSeq(s) = f[Len(s)]
    BY <1>2 DEF FlattenSeq, IsFlat
  <2>2. IsFlat(f, s, Len(s))
    BY <1>0, FlatExists
  <2> HIDE DEF f
  <2>3. \A k \in 1 .. Len(s) : f[k] = IF k = 1 THEN s[k] ELSE f[k - 1] \o s[k]
    BY <2>2 DEF IsFlat
  <2>4. \A k \in 1 .. Len(s) : s[k] \in Seq(S)
    BY ElementOfSeq
  <2> DEFINE T == {n \in Nat : n \in 1 .. Len(s) => f[n] \in Seq(S)}
  <2>5. 0 \in T
    OBVIOUS
  <2>6. ASSUME NEW n \in Nat, n \in T PROVE n + 1 \in T
    <3> SUFFICES ASSUME n + 1 \in 1 .. Len(s) PROVE f[n + 1] \in Seq(S)
      OBVIOUS
    <3>1. CASE n = 0
      BY <2>3, <2>4, <3>1
    <3>2. CASE n # 0
      <4>1. n \in 1 .. Len(s) /\ n + 1 # 1 /\ (n + 1) - 1 = n
        BY <1>0, <3>2
      <4>2. f[n] \in Seq(S) /\ s[n + 1] \in Seq(S)
        BY <2>4, <2>6, <4>1
      <4>3. f[n + 1] = f[n] \o s[n + 1]
        BY <2>3, <4>1
      <4> QED
        BY <4>2, <4>3, ConcatProperties
    <3> QED
      BY <3>1, <3>2
  <2> HIDE DEF T
  <2>7. Len(s) \in T
    BY <1>0, <2>5, <2>6, AllNumbers
  <2> QED
    BY <1>0, <1>2, <2>1, <2>7 DEF T
<1> QED
  BY <1>1, <1>2

------------------------------------------------------------------------------
(* The signatures are finitely many finite texts. *)

LEMMA ImageFinite ==
  ASSUME NEW S, IsFiniteSet(S), NEW f, DOMAIN f = S
  PROVE  IsFiniteSet({f[x] : x \in S})
<1> DEFINE T == {f[x] : x \in S}
           g == [x \in S |-> f[x]]
<1>1. g \in Surjection(S, T)
  BY DEF Surjection
<1> HIDE DEF T, g
<1> QED
  BY <1>1, FS_Surjection DEF T

LEMMA IntervalFinite ==
  ASSUME NEW s, NEW S, s \in Seq(S)
  PROVE  IsFiniteSet(DOMAIN s)
<1>1. Len(s) \in Nat /\ DOMAIN s = 1 .. Len(s)
  BY LenProperties
<1> QED
  BY <1>1, FS_Interval

LEMMA TextIsSeq ==
  ASSUME NEW hunk \in Seq(HunkLine)
  PROVE  Text(hunk) \in Seq(Byte) /\ After(hunk) \in Seq(Byte)
<1>1. Len(hunk) \in Nat /\ DOMAIN hunk = 1 .. Len(hunk) /\ \A i \in 1 .. Len(hunk) : hunk[i] \in HunkLine
  BY LenProperties, ElementOfSeq
<1>2. \A i \in 1 .. Len(hunk) : hunk[i].text \in Seq(Byte) /\ Left(hunk[i]) \in Seq(Byte)
  BY <1>1, EmptySeq DEF HunkLine, Left
<1>3. [i \in DOMAIN hunk |-> hunk[i].text] \in Seq(Seq(Byte))
  BY <1>1, <1>2, IsASeq
<1>4. [i \in DOMAIN hunk |-> Left(hunk[i])] \in Seq(Seq(Byte))
  BY <1>1, <1>2, IsASeq
<1> QED
  BY <1>3, <1>4, FlatSeq DEF Text, After

LEMMA GroupsAreTexts ==
  ASSUME NEW hunk \in Seq(HunkLine)
  PROVE  IsFiniteSet(AddedGroups(hunk)) /\ AddedGroups(hunk) \subseteq Seq(Byte)
<1> DEFINE Range0 == {x \in (DOMAIN hunk) \X (DOMAIN hunk) :
                        /\ x[1] <= x[2] /\ \A i \in x[1]..x[2] : IsAdded(hunk, i)
                        /\ ~IsAdded(hunk, x[1] - 1) /\ ~IsAdded(hunk, x[2] + 1)}
           f == [r \in Range0 |-> Text(SubSeq(hunk, r[1], r[2]))]
<1>1. IsFiniteSet((DOMAIN hunk) \X (DOMAIN hunk))
  BY IntervalFinite, FS_Product
<1>2. IsFiniteSet(Range0)
  BY <1>1, FS_Subset
<1>3. AddedGroups(hunk) = {f[r] : r \in Range0}
  BY DEF AddedGroups
<1>4. \A r \in Range0 : f[r] \in Seq(Byte)
  <2> SUFFICES ASSUME NEW r \in Range0 PROVE Text(SubSeq(hunk, r[1], r[2])) \in Seq(Byte)
    OBVIOUS
  <2>1. r[1] \in 1 .. Len(hunk) /\ r[2] \in 1 .. Len(hunk) /\ Len(hunk) \in Nat
    BY LenProperties
  <2>2. \A i \in r[1] .. r[2] : hunk[i] \in HunkLine
    BY <2>1, ElementOfSeq
  <2>3. SubSeq(hunk, r[1], r[2]) \in Seq(HunkLine)
    BY <2>1, <2>2, SubSeqProperties
  <2> QED
    BY <2>3, TextIsSeq
<1>5. DOMAIN f = Range0
  OBVIOUS
<1> HIDE DEF f, Range0
<1>6. IsFiniteSet({f[r] : r \in Range0})
  BY <1>2, <1>5, ImageFinite
<1> QED
  BY <1>3, <1>4, <1>6

LEMMA PatchIsFinite ==
  ASSUME image \in Images, NEW p \in Prefix
  PROVE  IsFiniteSet(image.patch[p]) /\ image.patch[p] \subseteq Seq(HunkLine)
BY ImagesAssumption

LEMMA AllGroups ==
  ASSUME image \in Images, NEW p \in Prefix
  PROVE  IsFiniteSet(Groups(p)) /\ Groups(p) \subseteq Seq(Byte)
<1> DEFINE f == [h \in image.patch[p] |-> AddedGroups(h)]
           All == {f[h] : h \in image.patch[p]}
<1>1. IsFiniteSet(All)
  BY PatchIsFinite, ImageFinite
<1>2. \A h \in image.patch[p] : IsFiniteSet(AddedGroups(h)) /\ AddedGroups(h) \subseteq Seq(Byte)
  BY PatchIsFinite, GroupsAreTexts
<1>3. Groups(p) = UNION All
  BY DEF Groups
<1>4. \A T \in All : IsFiniteSet(T) /\ T \subseteq Seq(Byte)
  BY <1>2
<1> HIDE DEF All
<1>5. IsFiniteSet(UNION All)
  BY <1>1, <1>4, FS_UNION
<1> QED
  BY <1>3, <1>4, <1>5

LEMMA NeedlesAreTexts ==
  ASSUME image \in Images, NEW p \in Prefix
  PROVE  IsFiniteSet(Needle(p)) /\ Needle(p) \subseteq Seq(Byte)
<1> DEFINE Hunks == {x \in image.patch[p] : AddedGroups(x) # {}}
           f == [h \in Hunks |-> After(h)]
           A == {f[h] : h \in Hunks}
           B == {g \in Groups(p) : Meaningful(g)}
<1>1. IsFiniteSet(Hunks)
  BY PatchIsFinite, FS_Subset
<1>2. IsFiniteSet(A)
  BY <1>1, ImageFinite
<1>3. A \subseteq Seq(Byte)
  BY PatchIsFinite, TextIsSeq
<1>4. IsFiniteSet(B) /\ B \subseteq Seq(Byte)
  BY AllGroups, FS_Subset
<1>5. Needle(p) = A \cup B
  BY DEF Needle
<1> HIDE DEF A, B
<1> QED
  BY <1>2, <1>3, <1>4, <1>5, FS_Union

LEMMA MaximumBounds ==
  ASSUME image \in Images, NEW p \in Prefix, NEW x \in Needle(p)
  PROVE  Maximum \in Nat /\ Len(x) \in Nat /\ Len(x) <= Maximum
<1> DEFINE All == Needle("test") \cup Needle("gold")
           f == [y \in All |-> Len(y)]
           L == {f[y] : y \in All}
<1>1. "test" \in Prefix /\ "gold" \in Prefix /\ (p = "test" \/ p = "gold")
  BY DEF Prefix
<1>2. IsFiniteSet(All) /\ All \subseteq Seq(Byte)
  <2>1. IsFiniteSet(Needle("test")) /\ Needle("test") \subseteq Seq(Byte)
    BY <1>1, NeedlesAreTexts
  <2>2. IsFiniteSet(Needle("gold")) /\ Needle("gold") \subseteq Seq(Byte)
    BY <1>1, NeedlesAreTexts
  <2> QED
    BY <2>1, <2>2, FS_Union
<1>3. x \in All
  BY <1>1
<1>4. \A y \in All : Len(y) \in Nat
  BY <1>2, LenProperties
<1>5. Maximum = Max(L)
  BY DEF Maximum
<1>6. L \subseteq Nat /\ L # {} /\ Len(x) \in L
  BY <1>3, <1>4
<1>7. IsFiniteSet(L)
  BY <1>2, ImageFinite
<1> HIDE DEF L, All
<1>8. Max(L) \in L /\ \A y \in L : Max(L) >= y
  BY <1>6, <1>7, MaxOfFinite
<1> QED
  BY <1>5, <1>6, <1>8

------------------------------------------------------------------------------
(* The scan in chunks sees what a scan of the whole object would. *)

\* How many bytes of what was read are not kept.
From(c) == IF c >= Maximum THEN c - (Maximum - 1) ELSE 0

\* x occurs in o, and ends within its first d bytes.
EndsBy(x, o, d) ==
  \E i \in 0..(Len(o) - Len(x)) :
    i + Len(x) <= d /\ \A j \in 1..Len(x) : o[i + j] = x[j]

\* A signature that is not empty is in the first d bytes.
Seen(p, o, d) == \E x \in Needle(p) : Len(x) >= 1 /\ EndsBy(x, o, d)

\* The object that is scanned is a text; what was read of it is kept as far as a
\* signature may reach back, and whatever it holds has matched.  The objects before
\* were read to their ends.
ScanInv ==
  /\ image \in Images
  /\ source \in 1..3 /\ consumed \in Nat
  /\ source \in {1, 2} => consumed <= Len(Object)
  /\ matches \subseteq Prefix
  /\ reached \in [{1, 2} -> SUBSET Prefix]
  /\ Maximum \in Nat \ {0} =>
       /\ source \in {1, 2} =>
            /\ tail = SubSeq(Object, From(consumed) + 1, consumed)
            /\ \A p \in Prefix : Seen(p, Object, consumed) => p \in matches
       /\ \A s \in {1, 2} : s < source =>
            \A p \in Prefix :
              Seen(p, image.content[s], Len(image.content[s])) => p \in reached[s]

LEMMA MaxOfTwo ==
  ASSUME NEW a \in Int, NEW b \in Int
  PROVE  Max({a, b}) = (IF a >= b THEN a ELSE b) /\ Min({a, b}) = (IF a <= b THEN a ELSE b)
BY DEF Max, Min

LEMMA SubSeqIs ==
  ASSUME NEW S, NEW o \in Seq(S), NEW f \in Nat, NEW d \in Nat, f <= d, d <= Len(o)
  PROVE  /\ SubSeq(o, f + 1, d) \in Seq(S)
         /\ Len(SubSeq(o, f + 1, d)) = d - f
         /\ \A i \in 1 .. (d - f) : SubSeq(o, f + 1, d)[i] = o[f + i]
<1>1. \A i \in f + 1 .. d : o[i] \in S
  BY LenProperties, ElementOfSeq
<1>2. Len(o) \in Nat
  BY LenProperties
<1>3. SubSeq(o, f + 1, d) \in Seq(S) /\ Len(SubSeq(o, f + 1, d)) = d - f
  BY <1>1, <1>2, SubSeqProperties
<1>4. \A i \in 1 .. (d - f) : SubSeq(o, f + 1, d)[i] = o[f + 1 + i - 1]
  BY <1>1, <1>2, SubSeqProperties
<1> QED
  BY <1>3, <1>4

LEMMA WindowIsWhole ==
  ASSUME NEW S, NEW o \in Seq(S), NEW f \in Nat, NEW c \in Nat, NEW d \in Nat,
         f <= c, c <= d, d <= Len(o)
  PROVE  SubSeq(o, f + 1, c) \o SubSeq(o, c + 1, d) = SubSeq(o, f + 1, d)
<1> DEFINE a == SubSeq(o, f + 1, c)
           b == SubSeq(o, c + 1, d)
           w == SubSeq(o, f + 1, d)
<1>0. Len(o) \in Nat
  BY LenProperties
<1>1. a \in Seq(S) /\ Len(a) = c - f /\ \A i \in 1 .. (c - f) : a[i] = o[f + i]
  BY <1>0, SubSeqIs
<1>2. b \in Seq(S) /\ Len(b) = d - c /\ \A i \in 1 .. (d - c) : b[i] = o[c + i]
  BY <1>0, SubSeqIs
<1>3. w \in Seq(S) /\ Len(w) = d - f /\ \A i \in 1 .. (d - f) : w[i] = o[f + i]
  BY <1>0, SubSeqIs
<1> HIDE DEF a, b, w
<1>4. /\ a \o b \in Seq(S) /\ Len(a \o b) = d - f
      /\ \A i \in 1 .. (d - f) : (a \o b)[i] = IF i <= c - f THEN a[i] ELSE b[i - (c - f)]
  <2>1. Len(a \o b) = Len(a) + Len(b) /\ a \o b \in Seq(S)
    BY <1>1, <1>2, ConcatProperties
  <2>2. \A i \in 1 .. Len(a) + Len(b) : (a \o b)[i] = IF i <= Len(a) THEN a[i] ELSE b[i - Len(a)]
    BY <1>1, <1>2, ConcatProperties
  <2>3. Len(a) + Len(b) = d - f /\ Len(a) = c - f
    BY <1>1, <1>2
  <2> QED
    BY <2>1, <2>2, <2>3
<1>5. \A i \in 1 .. (d - f) : (a \o b)[i] = w[i]
  <2> SUFFICES ASSUME NEW i \in 1 .. (d - f) PROVE (a \o b)[i] = w[i]
    OBVIOUS
  <2>1. w[i] = o[f + i]
    BY <1>3
  <2>2. CASE i <= c - f
    BY <1>1, <1>4, <2>1, <2>2
  <2>3. CASE ~(i <= c - f)
    <3>1. i - (c - f) \in 1 .. (d - c) /\ c + (i - (c - f)) = f + i
      BY <2>3
    <3>2. b[i - (c - f)] = o[f + i]
      BY <1>2, <3>1
    <3> QED
      BY <1>4, <2>1, <2>3, <3>2
  <2> QED
    BY <2>2, <2>3
<1>6. a \o b = w
  BY <1>3, <1>4, <1>5, SeqEqual
<1> QED
  BY <1>6 DEF a, b, w

LEMMA KeptIsTheEnd ==
  ASSUME NEW S, NEW o \in Seq(S), NEW c \in Nat, NEW d \in Nat, c <= d, d <= Len(o),
         Maximum \in Nat \ {0}
  PROVE  Kept(SubSeq(o, From(c) + 1, d)) = SubSeq(o, From(d) + 1, d)
<1> DEFINE w == SubSeq(o, From(c) + 1, d)
           f == From(c)
           g == From(d)
           k == Max({1, Len(w) - (Maximum - 1) + 1})
<1>0. Len(o) \in Nat
  BY LenProperties
<1>1. f \in Nat /\ f <= c /\ g \in Nat /\ g <= d /\ f <= g
  BY DEF From
<1>2. w \in Seq(S) /\ Len(w) = d - f /\ \A i \in 1 .. (d - f) : w[i] = o[f + i]
  BY <1>0, <1>1, SubSeqIs
<1>3. k = IF 1 >= (d - f) - (Maximum - 1) + 1 THEN 1 ELSE (d - f) - (Maximum - 1) + 1
  <2>1. (d - f) - (Maximum - 1) + 1 \in Int /\ 1 \in Int
    BY <1>1
  <2> DEFINE b == (d - f) - (Maximum - 1) + 1
  <2>2. Max({1, b}) = IF 1 >= b THEN 1 ELSE b
    <3> HIDE DEF b
    <3> QED
      BY <2>1, MaxOfTwo DEF b
  <2>3. Len(w) = d - f
    BY <1>2
  <2> HIDE DEF w, f
  <2> QED
    BY <2>2, <2>3
<1>4. k = (g - f) + 1
  BY <1>1, <1>3 DEF From
<1>5. Kept(w) = SubSeq(w, (g - f) + 1, d - f)
  BY <1>2, <1>4 DEF Kept, LastOf
<1>6. g - f \in Nat /\ d - f \in Nat /\ g - f <= d - f /\ (d - f) - (g - f) = d - g
  BY <1>1
<1> DEFINE l == SubSeq(w, (g - f) + 1, d - f)
           r == SubSeq(o, g + 1, d)
<1>7. l \in Seq(S) /\ Len(l) = d - g /\ \A i \in 1 .. (d - g) : l[i] = w[(g - f) + i]
  <2> HIDE DEF w, f, g, k
  <2>1. w \in Seq(S) /\ Len(w) = d - f
    BY <1>2
  <2>2. \A a, b \in Nat : a <= b /\ b <= Len(w) =>
          /\ SubSeq(w, a + 1, b) \in Seq(S) /\ Len(SubSeq(w, a + 1, b)) = b - a
          /\ \A i \in 1 .. (b - a) : SubSeq(w, a + 1, b)[i] = w[a + i]
    BY <2>1, SubSeqIs
  <2>3. d - f <= Len(w)
    BY <1>6, <2>1
  <2> QED
    BY <1>6, <2>2, <2>3
<1>8. r \in Seq(S) /\ Len(r) = d - g /\ \A i \in 1 .. (d - g) : r[i] = o[g + i]
  <2> HIDE DEF w, f, g, k
  <2> QED
    BY <1>0, <1>1, SubSeqIs
<1> HIDE DEF w, f, g, k, l, r
<1>9. \A i \in 1 .. (d - g) : l[i] = r[i]
  <2> SUFFICES ASSUME NEW i \in 1 .. (d - g) PROVE l[i] = r[i]
    OBVIOUS
  <2>1. (g - f) + i \in 1 .. (d - f) /\ f + ((g - f) + i) = g + i
    BY <1>1
  <2> QED
    BY <1>2, <1>7, <1>8, <2>1
<1>10. l = r
  BY <1>7, <1>8, <1>9, SeqEqual
<1> QED
  BY <1>5, <1>10 DEF w, f, g, l, r

LEMMA WindowFinds ==
  ASSUME NEW o \in Seq(Byte), NEW c \in Nat, NEW d \in Nat, c <= d, d <= Len(o),
         Maximum \in Nat \ {0}, NEW x \in Seq(Byte), Len(x) >= 1, Len(x) <= Maximum,
         EndsBy(x, o, d), ~EndsBy(x, o, c)
  PROVE  OccursIn(x, SubSeq(o, From(c) + 1, d))
<1> DEFINE f == From(c)
           w == SubSeq(o, f + 1, d)
           n == Len(x)
<1>0. Len(o) \in Nat /\ n \in Nat /\ f \in Nat /\ f <= c
  BY LenProperties DEF From
<1>1. w \in Seq(Byte) /\ Len(w) = d - f /\ \A i \in 1 .. (d - f) : w[i] = o[f + i]
  <2> HIDE DEF f
  <2>1. f \in Nat /\ f <= d
    BY <1>0
  <2>2. \A a \in Nat : a <= d =>
          /\ SubSeq(o, a + 1, d) \in Seq(Byte) /\ Len(SubSeq(o, a + 1, d)) = d - a
          /\ \A i \in 1 .. (d - a) : SubSeq(o, a + 1, d)[i] = o[a + i]
    BY SubSeqIs
  <2> QED
    BY <2>1, <2>2
<1>2. PICK i \in 0 .. (Len(o) - n) : i + n <= d /\ \A j \in 1 .. n : o[i + j] = x[j]
  BY DEF EndsBy
<1>3. ~(i + n <= c)
  BY <1>2 DEF EndsBy
<1>4. i >= f
  BY <1>0, <1>2, <1>3 DEF From
<1> HIDE DEF f, w, n
<1>5. i - f \in 0 .. (Len(w) - n)
  BY <1>0, <1>1, <1>2, <1>4
<1>6. \A j \in 1 .. n : w[(i - f) + j] = x[j]
  <2> SUFFICES ASSUME NEW j \in 1 .. n PROVE w[(i - f) + j] = x[j]
    OBVIOUS
  <2>0. i \in Nat /\ j \in Nat /\ 1 <= j /\ j <= n /\ i + n <= d
    BY <1>0, <1>2
  <2>1. (i - f) + j \in 1 .. (d - f) /\ f + ((i - f) + j) = i + j
    BY <1>0, <1>4, <2>0
  <2> QED
    BY <1>1, <1>2, <2>1
<1> QED
  BY <1>5, <1>6 DEF OccursIn, n, w, f

LEMMA SignaturesStay ==
  ASSUME image' = image
  PROVE  /\ Maximum' = Maximum
         /\ \A p \in Prefix : Needle(p)' = Needle(p)
         /\ \A c : From(c)' = From(c)
         /\ \A o, d : \A p \in Prefix : Seen(p, o, d)' = Seen(p, o, d)
<1>1. Maximum' = Maximum
  BY DEF Maximum, Needle, Groups, Meaningful
<1>2. \A p \in Prefix : Needle(p)' = Needle(p)
  BY DEF Needle, Groups, Meaningful
<1> QED
  BY <1>1, <1>2 DEF From, Seen, EndsBy

LEMMA ObjectIsText ==
  ASSUME ScanInv, source \in {1, 2}
  PROVE  Object \in Seq(Byte) /\ Len(Object) \in Nat
<1>1. Object \in Seq(Byte)
  BY ImagesAssumption DEF ScanInv, Object
<1> QED
  BY <1>1, LenProperties

LEMMA NothingSeen ==
  ASSUME image \in Images, Maximum \in Nat \ {0}, NEW o \in Seq(Byte), NEW p \in Prefix
  PROVE  SubSeq(o, From(0) + 1, 0) = <<>> /\ ~Seen(p, o, 0)
<1>0. Len(o) \in Nat
  BY LenProperties
<1>1. From(0) = 0
  BY DEF From
<1>2. SubSeq(o, 1, 0) = <<>>
  BY SubSeqProperties, EmptySeq
<1>3. ASSUME Seen(p, o, 0) PROVE FALSE
  <2>1. PICK x \in Needle(p) : Len(x) >= 1 /\ EndsBy(x, o, 0)
    BY <1>3 DEF Seen
  <2>2. Len(x) \in Nat
    BY MaximumBounds
  <2>3. PICK i \in 0..(Len(o) - Len(x)) : i + Len(x) <= 0
    BY <2>1 DEF EndsBy
  <2> QED
    BY <1>0, <2>1, <2>2, <2>3
<1> QED
  BY <1>1, <1>2, <1>3

LEMMA ReadKeeps ==
  ASSUME ScanInv, ReadChunk
  PROVE  ScanInv'
<1> DEFINE o == Object
           c == consumed
           d == consumed'
           window == tail \o SubSeq(o, c + 1, d)
<1>1. /\ source \in {1, 2} /\ c < Len(o) /\ d = Min({Len(o), c + Chunk})
      /\ matches' = matches \cup {p \in Prefix : \E x \in Needle(p) : OccursIn(x, window)}
      /\ tail' = Kept(window)
      /\ image' = image /\ source' = source /\ reached' = reached
  BY DEF ReadChunk, Source
<1>2. /\ image \in Images /\ c \in Nat /\ o \in Seq(Byte) /\ Len(o) \in Nat /\ c <= Len(o)
      /\ Object' = Object
  BY <1>1, ObjectIsText DEF ScanInv, Object
<1>3. d \in Nat /\ c <= d /\ d <= Len(o)
  <2>1. Len(o) \in Int /\ c + Chunk \in Int /\ c <= c + Chunk /\ c + Chunk \in Nat
    BY <1>2, ScanAssumption
  <2>2. Min({Len(o), c + Chunk}) = IF Len(o) <= c + Chunk THEN Len(o) ELSE c + Chunk
    BY <2>1, MaxOfTwo
  <2> QED
    BY <1>1, <1>2, <2>1, <2>2
<1>4. ASSUME Maximum \in Nat \ {0}
      PROVE  /\ tail' = SubSeq(o, From(d) + 1, d)
             /\ \A p \in Prefix : Seen(p, o, d) => p \in matches'
  <2>1. /\ tail = SubSeq(o, From(c) + 1, c)
        /\ \A p \in Prefix : Seen(p, o, c) => p \in matches
    BY <1>1, <1>4 DEF ScanInv
  <2>2. From(c) \in Nat /\ From(c) <= c
    BY <1>2, <1>4 DEF From
  <2>3. window = SubSeq(o, From(c) + 1, d)
    <3> HIDE DEF o, c, d
    <3> QED
      BY <1>2, <1>3, <2>1, <2>2, WindowIsWhole
  <2>4. tail' = SubSeq(o, From(d) + 1, d)
    <3> HIDE DEF o, c, d, window
    <3> QED
      BY <1>1, <1>2, <1>3, <1>4, <2>3, KeptIsTheEnd
  <2>5. ASSUME NEW p \in Prefix, Seen(p, o, d), ~Seen(p, o, c) PROVE p \in matches'
    <3>1. PICK x \in Needle(p) : Len(x) >= 1 /\ EndsBy(x, o, d)
      BY <2>5 DEF Seen
    <3>2. ~EndsBy(x, o, c)
      BY <2>5, <3>1 DEF Seen
    <3>3. x \in Seq(Byte) /\ Len(x) <= Maximum
      BY <1>2, NeedlesAreTexts, MaximumBounds
    <3>4. OccursIn(x, SubSeq(o, From(c) + 1, d))
      <4> HIDE DEF o, c, d, window
      <4> QED
        BY <1>2, <1>3, <1>4, <3>1, <3>2, <3>3, WindowFinds
    <3> QED
      BY <1>1, <2>3, <3>4
  <2>6. \A p \in Prefix : Seen(p, o, d) => p \in matches'
    BY <1>1, <2>1, <2>5
  <2> QED
    BY <2>4, <2>6
<1>5. /\ Maximum' = Maximum /\ \A x : From(x)' = From(x)
      /\ \A x, y : \A p \in Prefix : Seen(p, x, y)' = Seen(p, x, y)
  BY <1>1, SignaturesStay
<1>6. /\ image' \in Images /\ source' \in 1..3 /\ consumed' \in Nat
      /\ source' \in {1, 2} => consumed' <= Len(Object')
      /\ matches' \subseteq Prefix
      /\ reached' \in [{1, 2} -> SUBSET Prefix]
  BY <1>1, <1>2, <1>3 DEF ScanInv
<1>7. ASSUME Maximum \in Nat \ {0}, source' \in {1, 2}
      PROVE  /\ tail' = SubSeq(Object', From(consumed') + 1, consumed')
             /\ \A p \in Prefix : Seen(p, Object', consumed') => p \in matches'
  BY <1>2, <1>4, <1>7
<1>8. ASSUME Maximum \in Nat \ {0}, NEW s \in {1, 2}, s < source', NEW p \in Prefix,
             Seen(p, image'.content[s], Len(image'.content[s]))
      PROVE  p \in reached'[s]
  BY <1>1, <1>8 DEF ScanInv
<1> HIDE DEF o, c, d, window
<1> QED
  BY <1>5, <1>6, <1>7, <1>8 DEF ScanInv

LEMMA CountKeeps ==
  ASSUME ScanInv, source \in {1, 2}, Counted
  PROVE  ScanInv'
<1>1. /\ consumed = Len(Object)
      /\ reached' = [reached EXCEPT ![source] = matches]
      /\ source' = source + 1 /\ consumed' = 0 /\ tail' = <<>> /\ matches' = {}
      /\ image' = image
  BY DEF Counted
<1>2. /\ Maximum' = Maximum /\ \A x : From(x)' = From(x)
      /\ \A x, y : \A p \in Prefix : Seen(p, x, y)' = Seen(p, x, y)
  BY <1>1, SignaturesStay
<1>3. /\ image' \in Images /\ source' \in 1..3 /\ consumed' \in Nat
      /\ matches' \subseteq Prefix
      /\ reached' \in [{1, 2} -> SUBSET Prefix]
  BY <1>1 DEF ScanInv
<1>4. source' \in {1, 2} => Object' \in Seq(Byte) /\ Len(Object') \in Nat
  <2>1. source' \in {1, 2} => Object' \in Seq(Byte)
    BY <1>1, <1>3, ImagesAssumption DEF Object
  <2> QED
    BY <2>1, LenProperties
<1>5. ASSUME Maximum \in Nat \ {0}, source' \in {1, 2}
      PROVE  /\ tail' = SubSeq(Object', From(consumed') + 1, consumed')
             /\ \A p \in Prefix : Seen(p, Object', consumed') => p \in matches'
  <2>1. image \in Images
    BY DEF ScanInv
  <2>2. /\ SubSeq(Object', From(0) + 1, 0) = <<>>
        /\ \A p \in Prefix : ~Seen(p, Object', 0)
    <3>1. "test" \in Prefix
      BY DEF Prefix
    <3> DEFINE o == Object'
    <3>2. o \in Seq(Byte)
      BY <1>4, <1>5
    <3> HIDE DEF o
    <3>3. \A p \in Prefix : SubSeq(o, From(0) + 1, 0) = <<>> /\ ~Seen(p, o, 0)
      BY <1>5, <2>1, <3>2, NothingSeen
    <3> QED
      BY <3>1, <3>3 DEF o
  <2> HIDE DEF Object
  <2> QED
    BY <1>1, <2>2
<1>6. ASSUME Maximum \in Nat \ {0}, NEW s \in {1, 2}, s < source', NEW p \in Prefix,
             Seen(p, image'.content[s], Len(image'.content[s]))
      PROVE  p \in reached'[s]
  <2>1. CASE s = source
    <3>1. Seen(p, Object, consumed)
      BY <1>1, <1>6, <2>1 DEF Object
    <3>2. p \in matches
      BY <1>6, <3>1 DEF ScanInv
    <3> QED
      BY <1>1, <2>1, <3>2 DEF ScanInv
  <2>2. CASE s # source
    <3>1. s < source /\ reached'[s] = reached[s]
      BY <1>1, <1>6, <2>2 DEF ScanInv
    <3> QED
      BY <1>1, <1>6, <3>1 DEF ScanInv
  <2> QED
    BY <2>1, <2>2
<1>7. source' \in {1, 2} => consumed' <= Len(Object')
  BY <1>1, <1>4
<1> QED
  BY <1>2, <1>3, <1>5, <1>6, <1>7 DEF ScanInv

LEMMA ScanStarts ==
  ASSUME image \in Images, source = 1, consumed = 0, tail = <<>>, matches = {},
         reached = [s \in {1, 2} |-> {}]
  PROVE  ScanInv
<1>1. Object \in Seq(Byte)
  BY ImagesAssumption DEF Object
<1>2. Len(Object) \in Nat
  BY <1>1, LenProperties
<1>3. Maximum \in Nat \ {0} =>
        \A p \in Prefix : SubSeq(Object, From(0) + 1, 0) = <<>> /\ ~Seen(p, Object, 0)
  BY <1>1, NothingSeen
<1>4. Maximum \in Nat \ {0} =>
        /\ tail = SubSeq(Object, From(consumed) + 1, consumed)
        /\ \A p \in Prefix : Seen(p, Object, consumed) => p \in matches
  <2>1. "test" \in Prefix
    BY DEF Prefix
  <2> HIDE DEF Object
  <2> QED
    BY <1>3, <2>1
<1>5. \A s \in {1, 2} : ~(s < source)
  OBVIOUS
<1>6. consumed \in Nat /\ consumed <= Len(Object) /\ source \in 1..3
  BY <1>2
<1>7. reached \in [{1, 2} -> SUBSET Prefix] /\ matches \subseteq Prefix
  OBVIOUS
<1> QED
  BY <1>4, <1>5, <1>6, <1>7 DEF ScanInv

LEMMA ScanRestarts ==
  ASSUME image \in Images, image' = image, source' = 1, consumed' = 0, tail' = <<>>,
         matches' = {}, reached' = [s \in {1, 2} |-> {}]
  PROVE  ScanInv'
<1>1. Object' \in Seq(Byte)
  BY ImagesAssumption DEF Object
<1>2. Len(Object') \in Nat
  BY <1>1, LenProperties
<1>3. Maximum \in Nat \ {0} =>
        \A p \in Prefix : SubSeq(Object', From(0) + 1, 0) = <<>> /\ ~Seen(p, Object', 0)
  BY <1>1, NothingSeen
<1>4. Maximum \in Nat \ {0} =>
        /\ tail' = SubSeq(Object', From(consumed') + 1, consumed')
        /\ \A p \in Prefix : Seen(p, Object', consumed') => p \in matches'
  <2>1. "test" \in Prefix
    BY DEF Prefix
  <2> HIDE DEF Object
  <2> QED
    BY <1>3, <2>1
<1>5. /\ Maximum' = Maximum /\ \A x : From(x)' = From(x)
      /\ \A x, y : \A p \in Prefix : Seen(p, x, y)' = Seen(p, x, y)
  BY SignaturesStay
<1>6. \A s \in {1, 2} : ~(s < source')
  OBVIOUS
<1>7. /\ consumed' \in Nat /\ consumed' <= Len(Object') /\ source' \in 1..3
      /\ image' \in Images
  BY <1>2
<1>8. reached' \in [{1, 2} -> SUBSET Prefix] /\ matches' \subseteq Prefix
  OBVIOUS
<1> QED
  BY <1>4, <1>5, <1>6, <1>7, <1>8 DEF ScanInv

LEMMA ScanRests ==
  ASSUME ScanInv, UNCHANGED <<image, scanVars>>
  PROVE  ScanInv'
<1>1. /\ image' = image /\ source' = source /\ consumed' = consumed /\ tail' = tail
      /\ matches' = matches /\ reached' = reached
  BY DEF scanVars
<1>2. /\ Maximum' = Maximum /\ \A x : From(x)' = From(x)
      /\ \A x, y : \A p \in Prefix : Seen(p, x, y)' = Seen(p, x, y)
  BY <1>1, SignaturesStay
<1>3. Object' = Object
  BY <1>1 DEF Object
<1> QED
  BY <1>1, <1>2, <1>3 DEF ScanInv

\* An object without a signature in it gives nothing away, when every added run is one.
LEMMA PassedIsClean ==
  ASSUME ScanInv, source = 3, audit_status(reached) = "passed"
  PROVE  image.git = "none" /\ \A p \in Prefix : ~GivesAway(p)
<1>1. /\ GitClean /\ reached[1] = {} /\ reached[2] = {}
      /\ \A p \in Prefix : ~Unprovable(p)
  BY DEF audit_status
<1>2. image \in Images
  BY DEF ScanInv
<1>3. ASSUME NEW p \in Prefix, GivesAway(p) PROVE FALSE
  <2>1. PICK s \in {1, 2} : \E g \in Groups(p) : OccursIn(g, image.content[s])
    BY <1>3 DEF GivesAway, Source
  <2>2. PICK g \in Groups(p) : OccursIn(g, image.content[s])
    BY <2>1
  <2>3. Meaningful(g)
    BY <1>1 DEF Unprovable
  <2>4. g \in Needle(p) /\ Len(g) >= 1 /\ Len(g) \in Nat
    <3>1. g \in Needle(p)
      BY <2>3 DEF Needle
    <3>2. Len(g) \in Nat
      BY <1>2, <3>1, MaximumBounds
    <3> QED
      BY <2>3, <3>1, <3>2, ScanAssumption DEF Meaningful
  <2>5. Maximum \in Nat \ {0}
    BY <1>2, <2>4, MaximumBounds
  <2>6. Len(image.content[s]) \in Nat
    <3>1. image.content[s] \in Seq(Byte)
      BY <1>2, ImagesAssumption
    <3> QED
      BY <3>1, LenProperties
  <2>7. EndsBy(g, image.content[s], Len(image.content[s]))
    BY <2>2, <2>4, <2>6 DEF OccursIn, EndsBy
  <2>8. p \in reached[s]
    BY <2>4, <2>5, <2>7 DEF ScanInv, Seen
  <2> QED
    BY <1>1, <2>8
<1> QED
  BY <1>1, <1>3 DEF GitClean

------------------------------------------------------------------------------
(* The audit Run.  What its steps do for those who rely on it. *)

AuditInv ==
  /\ ScanInv
  /\ task \in {"flask", "django", "seqtk"}
  /\ run \in RunStatus /\ allocated \in BOOLEAN
  /\ created \in 0..MaxRuns /\ (created = 0 <=> run = "none")
  /\ run = "succeeded" => source = 3

\* No Run was created; what ended, or passed, stays so.
AuditGoesOn ==
  /\ task' = task /\ created' = created
  /\ AuditPassed => AuditPassed'
  /\ Terminal => Terminal'
  /\ run = "none" <=> run' = "none"

LEMMA AuditStarts ==
  ASSUME AuditInit
  PROVE  AuditInv
<1>1. ScanInv
  BY ScanStarts DEF AuditInit, ScanInit
<1>2. 0 \in 0..MaxRuns
  BY ImagesAssumption
<1>3. run = "none" /\ created = 0 /\ allocated = FALSE /\ task \in {"flask", "django", "seqtk"}
  BY DEF AuditInit
<1> QED
  BY <1>1, <1>2, <1>3 DEF AuditInv, RunStatus

LEMMA PassedStays ==
  ASSUME image' = image, reached' = reached, run' = run
  PROVE  AuditPassed' = AuditPassed /\ Terminal' = Terminal
BY DEF AuditPassed, Terminal, audit_status, GitClean, Unprovable, Groups, Meaningful

LEMMA PassedHasEnded == AuditPassed => run = "succeeded" /\ Terminal
BY DEF AuditPassed, Terminal

LEMMA AuditRests ==
  ASSUME AuditInv, UNCHANGED auditVars
  PROVE  AuditInv' /\ AuditGoesOn
<1>1. UNCHANGED <<task, image, run, created, allocated, scanVars>>
  BY DEF auditVars
<1>2. ScanInv'
  BY <1>1, ScanRests DEF AuditInv
<1>3. image' = image /\ reached' = reached /\ source' = source
  BY <1>1 DEF scanVars
<1> QED
  BY <1>1, <1>2, <1>3, PassedStays DEF AuditInv, AuditGoesOn

\* A step that leaves the scan alone, and does not touch a Run that ended.
LEMMA RunMoves ==
  ASSUME AuditInv, UNCHANGED <<task, image, created, scanVars>>, allocated' \in BOOLEAN,
         run' \in RunStatus, run' # run => run \in {"waiting", "cancelling", "released"},
         run' = "none" => run = "none", run' = "succeeded" => source = 3
  PROVE  AuditInv' /\ AuditGoesOn
<1>1. ScanInv'
  BY ScanRests DEF AuditInv
<1>2. image' = image /\ reached' = reached /\ source' = source
  BY DEF scanVars
<1>3. (AuditPassed => AuditPassed') /\ (Terminal => Terminal')
  <2>1. CASE run' = run
    BY <1>2, <2>1, PassedStays
  <2>2. CASE run' # run
    <3>1. ~Terminal
      BY <2>2 DEF Terminal
    <3> QED
      BY <3>1, PassedHasEnded
  <2> QED
    BY <2>1, <2>2
<1>4. run = "none" <=> run' = "none"
  OBVIOUS
<1> QED
  BY <1>1, <1>2, <1>3, <1>4 DEF AuditInv, AuditGoesOn

LEMMA AuditSteps ==
  ASSUME AuditInv, AuditNext
  PROVE  AuditInv' /\ AuditGoesOn
<1>1. CASE Allocate
  BY <1>1, RunMoves DEF Allocate, AuditInv, RunStatus
<1>2. CASE Scan
  <2>1. ScanStep /\ run = "released" /\ UNCHANGED <<task, run, created, allocated>>
    BY <1>2 DEF Scan
  <2>2. ScanInv'
    BY <2>1, ReadKeeps, CountKeeps DEF AuditInv, ScanStep, scan_filesystem, scan_git_objects
  <2>3. ~Terminal /\ run # "none" /\ run # "succeeded"
    BY <2>1 DEF Terminal
  <2> QED
    BY <2>1, <2>2, <2>3, PassedHasEnded DEF AuditInv, AuditGoesOn
<1>3. CASE Sealed
  <2>1. source = 3
    BY <1>3 DEF Sealed, ScanComplete, AuditInv, ScanInv, Source
  <2> QED
    BY <1>3, <2>1, RunMoves DEF Sealed, AuditInv, RunStatus
<1>4. CASE AuditFails
  BY <1>4, RunMoves DEF AuditFails, AuditInv, RunStatus
<1> QED
  BY <1>1, <1>2, <1>3, <1>4 DEF AuditNext

LEMMA MarkSteps ==
  ASSUME AuditInv, MarkReady
  PROVE  AuditInv' /\ AuditGoesOn
BY RunMoves DEF MarkReady, AuditInv, RunStatus

LEMMA CancelSteps ==
  ASSUME AuditInv, CancelUnreleased
  PROVE  AuditInv' /\ AuditGoesOn
BY RunMoves DEF CancelUnreleased, AuditInv, RunStatus

LEMMA CreateSteps ==
  ASSUME AuditInv, Create
  PROVE  /\ AuditInv' /\ task' = task /\ created' = created + 1 /\ created < MaxRuns
         /\ created \in Nat /\ MaxRuns \in Nat
<1>1. ScanInv'
  BY ScanRestarts DEF Create, AuditInv, ScanInv
<1>2. MaxRuns \in Nat
  BY ImagesAssumption
<1>3. /\ created' # 0 /\ created' \in 0..MaxRuns /\ run' = "waiting" /\ task' = task
      /\ allocated' = FALSE
  BY <1>2 DEF Create, AuditInv
<1>4. AuditInv'
  BY <1>1, <1>3 DEF AuditInv, RunStatus
<1>5. created' = created + 1 /\ created < MaxRuns /\ created \in Nat
  BY <1>2 DEF Create, AuditInv
<1> QED
  BY <1>2, <1>3, <1>4, <1>5

------------------------------------------------------------------------------
(* The admission.  A claim is one Run's for good: whoever is past the submission knows
   that it was created, a receipt that it passed.  An Environment that is gone outlived
   its Run; a receipt says it is gone when it is. *)

Undone == \A c \in Caller : at[c] = "idle"
Later == {"bind", "await", "release", "follow", "recover", "judge", "publish"}

FlaskTypes ==
  /\ at \in [Caller -> Step]
  /\ record \in [state : {"absent", "claimed", "bound", "allocated"}, run : 0..MaxRuns]
  /\ receipt \in {0, record.run}

FlaskInv ==
  /\ FlaskTypes
  /\ task # "flask" => record = Absent /\ Undone
  /\ task = "flask" =>
       /\ created <= 1 /\ record.run \in {0, created}
       /\ record.state = "absent" => created = 0 /\ Undone
       /\ \A c \in Caller :
            /\ at[c] = "submit" => created = 0 /\ \A d \in Caller : d # c => at[d] = "idle"
            /\ at[c] \in Later => created = 1
            /\ at[c] = "publish" => AuditPassed
  /\ receipt # 0 => AuditPassed

ProbeReceipt ==
  [status : {"none", "started", "incomplete", "passed", "blocked"},
   cleanup : {"not_created", "deleted_verified", "delete_unverified", "delete_failed",
              "retained_for_ambiguous_run"},
   run : 0..MaxRuns]
Probe ==
  [at : ProbeStep, receipt : ProbeReceipt, named : BOOLEAN, submitted : BOOLEAN,
   terminal : BOOLEAN]

Backed(r) ==
  /\ r.status = "passed" => AuditPassed
  /\ r.cleanup = "deleted_verified" => environment = "deleted"

ProbeInv ==
  /\ probe \in Probe /\ file \in ProbeReceipt
  /\ environment \in {"absent", "present", "deleted"}
  /\ task # "django" => environment = "absent"
  /\ task = "django" =>
       /\ ~probe.submitted => run = "none"
       /\ probe.at \in {"start", "environment", "submit"} => ~probe.submitted /\ ~probe.terminal
       /\ probe.terminal => Terminal
       /\ environment = "deleted" =>
            probe.at \in {"close", "settle", "end"} /\ (Terminal \/ run = "none")
       /\ Backed(probe.receipt) /\ Backed(file)

AdoptedInv ==
  /\ adopted \in BOOLEAN
  /\ adopted => AuditPassed /\ (task = "django" => environment = "deleted")

AdmissionInv == AuditInv /\ FlaskInv /\ ProbeInv /\ AdoptedInv

LEMMA GoIs ==
  ASSUME NEW p \in Probe, NEW to \in ProbeStep
  PROVE  /\ Go(p, to) \in Probe /\ Go(p, to).at = to /\ Go(p, to).receipt = p.receipt
         /\ Go(p, to).named = p.named /\ Go(p, to).submitted = p.submitted
         /\ Go(p, to).terminal = p.terminal
BY DEF Go, Probe

LEMMA NoteIs ==
  ASSUME NEW p \in Probe
  PROVE  /\ \A v \in {"started", "incomplete", "passed", "blocked"} :
              /\ Note(p, "status", v) \in Probe
              /\ Note(p, "status", v).receipt.status = v
              /\ Note(p, "status", v).receipt.cleanup = p.receipt.cleanup
         /\ \A v \in {"deleted_verified", "delete_unverified", "delete_failed",
                      "retained_for_ambiguous_run"} :
              /\ Note(p, "cleanup", v) \in Probe
              /\ Note(p, "cleanup", v).receipt.cleanup = v
              /\ Note(p, "cleanup", v).receipt.status = p.receipt.status
         /\ \A v \in 0..MaxRuns :
              /\ Note(p, "run", v) \in Probe
              /\ Note(p, "run", v).receipt.status = p.receipt.status
              /\ Note(p, "run", v).receipt.cleanup = p.receipt.cleanup
         /\ \A f, v :
              /\ Note(p, f, v).at = p.at /\ Note(p, f, v).named = p.named
              /\ Note(p, f, v).submitted = p.submitted /\ Note(p, f, v).terminal = p.terminal
BY DEF Note, Probe, ProbeReceipt

LEMMA AdmissionStarts ==
  ASSUME Init
  PROVE  AdmissionInv
<1>1. AuditInv
  BY AuditStarts DEF Init
<1>2. MaxRuns \in Nat /\ run = "none" /\ created = 0
  BY ImagesAssumption DEF Init, AuditInit
<1>3. FlaskInv
  BY <1>2 DEF Init, FlaskInv, FlaskTypes, Step, Absent, Record, Undone, Later
<1>4. ProbeInv
  BY <1>2 DEF Init, ProbeInv, Probe, ProbeReceipt, ProbeStep, NoReceipt, Backed
<1>5. AdoptedInv
  BY DEF Init, AdoptedInv
<1> QED
  BY <1>1, <1>3, <1>4, <1>5 DEF AdmissionInv

LEMMA FlaskRests ==
  ASSUME FlaskInv, UNCHANGED flaskVars, AuditGoesOn
  PROVE  FlaskInv'
BY DEF FlaskInv, FlaskTypes, flaskVars, AuditGoesOn, Undone

LEMMA ProbeRests ==
  ASSUME ProbeInv, UNCHANGED <<probe, file, environment>>, AuditGoesOn
  PROVE  ProbeInv'
BY DEF ProbeInv, AuditGoesOn, Backed

LEMMA AdoptedRests ==
  ASSUME AdoptedInv, UNCHANGED <<environment, adopted>>, AuditGoesOn
  PROVE  AdoptedInv'
BY DEF AdoptedInv, AuditGoesOn

LEMMA FlaskAlone ==
  ASSUME AdmissionInv, Rest, AuditInv' /\ AuditGoesOn, FlaskInv'
  PROVE  AdmissionInv'
BY ProbeRests, AdoptedRests DEF AdmissionInv, Rest, probeVars

\* A Run is created where none was: nothing was accepted yet.
LEMMA CreatedFirst ==
  ASSUME AdmissionInv, Create, created = 0 \/ run = "none"
  PROVE  /\ ~AuditPassed /\ ~adopted /\ receipt = 0
         /\ UNCHANGED adopted => AdoptedInv'
<1>1. run = "none"
  BY DEF AdmissionInv, AuditInv
<1>2. ~AuditPassed
  BY <1>1, PassedHasEnded
<1> QED
  BY <1>2 DEF AdmissionInv, AdoptedInv, FlaskInv

LEMMA BeginStep ==
  ASSUME AdmissionInv, task = "flask", NEW c \in Caller, Begin(c)
  PROVE  AdmissionInv'
<1>1. AuditInv' /\ AuditGoesOn /\ Rest /\ receipt' = receipt
  BY AuditRests DEF AdmissionInv, Begin
<1>2. FlaskInv /\ task' = "flask" /\ created' = created /\ (AuditPassed => AuditPassed')
  BY <1>1 DEF AdmissionInv, AuditGoesOn
<1>3. CASE record.state = "absent" /\ record' = Record("claimed", 0) /\ Move(c, "idle", "submit")
  <2>1. /\ created = 0 /\ \A d \in Caller : at[d] = "idle"
        /\ at' = [at EXCEPT ![c] = "submit"] /\ receipt = 0
    BY <1>2, <1>3 DEF FlaskInv, Undone, Move, Begin
  <2>2. FlaskTypes'
    BY <1>1, <1>2, <1>3, <2>1, ImagesAssumption DEF FlaskInv, FlaskTypes, Step, Record
  <2>3. FlaskInv'
    BY <1>1, <1>2, <1>3, <2>1, <2>2 DEF FlaskInv, FlaskTypes, Record, Undone, Later
  <2> QED
    BY <1>1, <2>3, FlaskAlone
<1>4. CASE record.run # 0 /\ Move(c, "idle", "recover") /\ UNCHANGED record
  <2>1. at' = [at EXCEPT ![c] = "recover"] /\ at[c] = "idle"
    BY <1>4 DEF Move
  <2>2. FlaskTypes'
    BY <1>1, <1>2, <1>4, <2>1 DEF FlaskInv, FlaskTypes, Step
  <2>3. record.state # "absent" /\ created = 1
    BY <1>2, <1>4 DEF FlaskInv, AdmissionInv, AuditInv
  <2>4. FlaskInv'
    BY <1>1, <1>2, <1>4, <2>1, <2>2, <2>3 DEF FlaskInv, FlaskTypes, Undone, Later
  <2> QED
    BY <1>1, <2>4, FlaskAlone
<1> QED
  BY <1>3, <1>4 DEF Begin

LEMMA SubmitStep ==
  ASSUME AdmissionInv, task = "flask", NEW c \in Caller, Submit(c)
  PROVE  AdmissionInv'
<1>1. /\ record' = record /\ receipt' = receipt /\ Rest /\ FlaskInv /\ at[c] = "submit"
      /\ at \in [Caller -> Step]
  BY DEF Submit, AdmissionInv, FlaskInv, FlaskTypes, Move
<1>2. /\ created = 0 /\ record.state # "absent" /\ record.run = 0
      /\ \A d \in Caller : d # c => at[d] = "idle"
  BY <1>1 DEF FlaskInv, Undone
<1>3. CASE Create /\ \E to \in {"bind", "idle"} : Move(c, "submit", to)
  <2>1. AuditInv' /\ task' = "flask" /\ created' = 1 /\ receipt = 0 /\ AdoptedInv'
    BY <1>1, <1>2, <1>3, CreateSteps, CreatedFirst DEF AdmissionInv, Rest, probeVars
  <2>2. PICK to \in {"bind", "idle"} : at' = [at EXCEPT ![c] = to]
    BY <1>3 DEF Move
  <2>3. FlaskTypes'
    BY <1>1, <2>2 DEF FlaskInv, FlaskTypes, Step
  <2>4. \A d \in Caller : at'[d] = IF d = c THEN to ELSE "idle"
    BY <1>1, <1>2, <2>2
  <2>5. FlaskInv'
    BY <1>1, <1>2, <2>1, <2>3, <2>4 DEF FlaskInv
  <2>6. ProbeInv'
    BY <1>1, <2>1 DEF AdmissionInv, ProbeInv, Rest, probeVars
  <2> QED
    BY <2>1, <2>5, <2>6 DEF AdmissionInv
<1>4. CASE UNCHANGED auditVars /\ Move(c, "submit", "idle")
  <2>1. AuditInv' /\ AuditGoesOn
    BY <1>4, AuditRests DEF AdmissionInv
  <2>2. at' = [at EXCEPT ![c] = "idle"]
    BY <1>4 DEF Move
  <2>3. FlaskTypes'
    BY <1>1, <2>2 DEF FlaskInv, FlaskTypes, Step
  <2>4. \A d \in Caller : at'[d] = "idle"
    BY <1>1, <1>2, <2>2
  <2>5. FlaskInv'
    BY <1>1, <1>2, <2>1, <2>3, <2>4 DEF FlaskInv, AuditGoesOn, Undone, Later
  <2> QED
    BY <1>1, <2>1, <2>5, FlaskAlone
<1> QED
  BY <1>3, <1>4 DEF Submit

\* A step of a process that is past the submission, or that leaves.
LEMMA LaterStep ==
  ASSUME AdmissionInv, task = "flask", NEW c \in Caller, AuditInv' /\ AuditGoesOn, Rest,
         at[c] # "idle", NEW to \in Later \cup {"idle"}, at' = [at EXCEPT ![c] = to],
         to # "idle" => at[c] \in Later, to = "publish" => AuditPassed,
         record' = record \/ (record' \in {Record("bound", created), Record("allocated", created)}
                              /\ at[c] \in Later /\ receipt \in {0, created}),
         receipt' = receipt \/ (receipt' = record'.run /\ AuditPassed)
  PROVE  AdmissionInv'
<1>1. FlaskInv /\ task' = "flask" /\ created' = created /\ (AuditPassed => AuditPassed')
  BY DEF AdmissionInv, AuditGoesOn
<1>2. created \in 0..MaxRuns
  BY DEF AdmissionInv, AuditInv
<1>3. at \in [Caller -> Step] /\ \A d \in Caller : at'[d] = IF d = c THEN to ELSE at[d]
  BY <1>1 DEF FlaskInv, FlaskTypes
<1>4. record.state # "absent" /\ (at[c] \in Later => created = 1)
  BY <1>1 DEF FlaskInv, Undone
<1>5. /\ record'.state # "absent" /\ record'.run \in {0, created}
      /\ record' \in [state : {"absent", "claimed", "bound", "allocated"}, run : 0..MaxRuns]
      /\ receipt \in {0, record'.run}
  BY <1>1, <1>2, <1>4 DEF FlaskInv, FlaskTypes, Record
<1>6. FlaskTypes'
  BY <1>1, <1>3, <1>5 DEF FlaskInv, FlaskTypes, Step, Later
<1>7. receipt' # 0 => AuditPassed'
  BY <1>1 DEF FlaskInv
<1>8. ASSUME NEW d \in Caller
      PROVE  /\ at'[d] = "submit" => created' = 0 /\ \A e \in Caller : e # d => at'[e] = "idle"
             /\ at'[d] \in Later => created' = 1
             /\ at'[d] = "publish" => AuditPassed'
  <2>1. at'[d] \in Later => created' = 1
    BY <1>1, <1>3, <1>4 DEF FlaskInv, Later
  <2>2. at'[d] = "publish" => AuditPassed'
    BY <1>1, <1>3 DEF FlaskInv
  <2>3. at'[d] = "submit" => FALSE
    <3> SUFFICES ASSUME at'[d] = "submit" PROVE FALSE
      OBVIOUS
    <3>1. d # c /\ at[d] = "submit"
      BY <1>3 DEF Later
    <3> QED
      BY <1>1, <3>1 DEF FlaskInv
  <2> QED
    BY <2>1, <2>2, <2>3
<1>9. FlaskInv'
  BY <1>1, <1>5, <1>6, <1>7, <1>8 DEF FlaskInv
<1> QED
  BY <1>9, FlaskAlone

LEMMA FlaskSteps ==
  ASSUME AdmissionInv, AdmitFlask
  PROVE  AdmissionInv'
<1>1. task = "flask" /\ AuditInv /\ FlaskInv
  BY DEF AdmitFlask, AdmissionInv
<1>2. PICK c \in Caller :
        \/ Begin(c) \/ Submit(c) \/ Bind(c) \/ Await(c) \/ Release(c) \/ Abort(c)
        \/ Ended(c) \/ Judge(c) \/ Publish(c) \/ GiveUp(c)
  BY DEF AdmitFlask
<1>3. receipt \in {0, created} \/ created = 0
  BY <1>1 DEF FlaskInv, FlaskTypes
<1>4. at[c] \in Later => receipt \in {0, created}
  BY <1>1 DEF FlaskInv, FlaskTypes
<1>5. CASE Begin(c)
  BY <1>1, <1>5, BeginStep
<1>6. CASE Submit(c)
  BY <1>1, <1>6, SubmitStep
<1>7. CASE Bind(c)
  <2>1. AuditInv' /\ AuditGoesOn
    BY <1>1, <1>7, AuditRests DEF Bind
  <2>2. /\ at[c] = "bind" /\ at' = [at EXCEPT ![c] = "await"] /\ Rest
        /\ record' = Record("bound", created) /\ receipt' = receipt
    BY <1>7 DEF Bind, Move
  <2>3. at[c] \in Later /\ "await" \in Later
    BY <2>2 DEF Later
  <2> QED
    BY <1>1, <1>4, <2>1, <2>2, <2>3, LaterStep
<1>8. CASE Await(c)
  <2>1. AuditInv' /\ AuditGoesOn
    BY <1>1, <1>8, AuditRests DEF Await
  <2>2. /\ at[c] = "await" /\ at' = [at EXCEPT ![c] = "release"] /\ Rest
        /\ record' = Record("allocated", created) /\ receipt' = receipt
    BY <1>8 DEF Await, Move
  <2>3. at[c] \in Later /\ "release" \in Later
    BY <2>2 DEF Later
  <2> QED
    BY <1>1, <1>4, <2>1, <2>2, <2>3, LaterStep
<1>9. CASE Release(c)
  <2>1. AuditInv' /\ AuditGoesOn
    BY <1>1, <1>9, MarkSteps DEF Release
  <2>2. /\ at[c] = "release" /\ at' = [at EXCEPT ![c] = "follow"] /\ Rest
        /\ record' = record /\ receipt' = receipt
    BY <1>9 DEF Release, Move
  <2>3. at[c] \in Later /\ "follow" \in Later
    BY <2>2 DEF Later
  <2> QED
    BY <1>1, <2>1, <2>2, <2>3, LaterStep
<1>10. CASE Abort(c)
  <2>1. AuditInv' /\ AuditGoesOn
    BY <1>1, <1>10, CancelSteps DEF Abort
  <2>2. /\ at[c] # "idle" /\ at' = [at EXCEPT ![c] = "idle"] /\ Rest
        /\ record' = record /\ receipt' = receipt
    BY <1>10 DEF Abort, Move
  <2> QED
    BY <1>1, <2>1, <2>2, LaterStep
<1>11. CASE Ended(c)
  <2>1. AuditInv' /\ AuditGoesOn
    BY <1>1, <1>11, AuditRests DEF Ended
  <2>2. /\ at[c] \in {"follow", "recover"} /\ at' = [at EXCEPT ![c] = "judge"] /\ Rest
        /\ record' = record /\ receipt' = receipt
    BY <1>11 DEF Ended, Move
  <2>3. at[c] \in Later /\ at[c] # "idle" /\ "judge" \in Later
    BY <2>2 DEF Later
  <2> QED
    BY <1>1, <2>1, <2>2, <2>3, LaterStep
<1>12. CASE Judge(c)
  <2>1. AuditInv' /\ AuditGoesOn
    BY <1>1, <1>12, AuditRests DEF Judge
  <2>2. Rest /\ receipt' = receipt
    BY <1>12 DEF Judge
  <2>3. CASE AuditPassed /\ allocated /\ record.run = created
    <3>1. /\ at[c] = "judge" /\ at' = [at EXCEPT ![c] = "publish"]
          /\ record' = Record("allocated", created)
      BY <1>12, <2>3 DEF Judge, Move
    <3>2. at[c] \in Later /\ "publish" \in Later
      BY <3>1 DEF Later
    <3> QED
      BY <1>1, <1>4, <2>1, <2>2, <2>3, <3>1, <3>2, LaterStep
  <2>4. CASE ~(AuditPassed /\ allocated /\ record.run = created)
    <3>1. at[c] = "judge" /\ at' = [at EXCEPT ![c] = "idle"] /\ record' = record
      BY <1>12, <2>4 DEF Judge, Move
    <3> QED
      BY <1>1, <2>1, <2>2, <3>1, LaterStep
  <2> QED
    BY <2>3, <2>4
<1>13. CASE Publish(c)
  <2>1. AuditInv' /\ AuditGoesOn
    BY <1>1, <1>13, AuditRests DEF Publish
  <2>2. /\ at[c] = "publish" /\ at' = [at EXCEPT ![c] = "idle"] /\ Rest
        /\ record' = record /\ receipt' = IF receipt = 0 THEN record.run ELSE receipt
    BY <1>13 DEF Publish, Move
  <2>3. AuditPassed
    BY <1>1, <2>2 DEF FlaskInv
  <2> QED
    BY <1>1, <2>1, <2>2, <2>3, LaterStep
<1>14. CASE GiveUp(c)
  <2>1. AuditInv' /\ AuditGoesOn
    BY <1>1, <1>14, AuditRests DEF GiveUp
  <2>2. /\ at[c] # "idle" /\ at' = [at EXCEPT ![c] = "idle"] /\ Rest
        /\ record' = record /\ receipt' = receipt
    BY <1>14 DEF GiveUp
  <2> QED
    BY <1>1, <2>1, <2>2, LaterStep
<1> QED
  BY <1>2, <1>5, <1>6, <1>7, <1>8, <1>9, <1>10, <1>11, <1>12, <1>13, <1>14

\* A step of the probe that creates no Run; `p` is what it knows afterwards.
LEMMA ProbeStays ==
  ASSUME AdmissionInv, task = "django", AuditInv' /\ AuditGoesOn, Aside,
         probe' \in Probe, file' \in ProbeReceipt,
         environment' \in {"absent", "present", "deleted"},
         environment = "deleted" => environment' = "deleted",
         probe'.submitted = probe.submitted,
         probe'.at \in {"start", "environment", "submit"} =>
           probe.at \in {"start", "environment", "submit"},
         probe'.terminal => probe.terminal \/ (Terminal /\ probe.at = "observe"),
         environment' = "deleted" =>
           /\ probe'.at \in {"close", "settle", "end"}
           /\ environment = "deleted" \/ Terminal \/ run = "none",
         probe'.receipt.status = "passed" => probe.receipt.status = "passed" \/ AuditPassed,
         file'.status = "passed" =>
           file.status = "passed" \/ probe.receipt.status = "passed" \/ AuditPassed,
         probe'.receipt.cleanup = "deleted_verified" =>
           probe.receipt.cleanup = "deleted_verified" \/ environment' = "deleted",
         file'.cleanup = "deleted_verified" =>
           file.cleanup = "deleted_verified" \/ probe.receipt.cleanup = "deleted_verified"
  PROVE  AdmissionInv'
<1>1. /\ ProbeInv /\ task' = "django" /\ (AuditPassed => AuditPassed') /\ (Terminal => Terminal')
      /\ run = "none" <=> run' = "none"
  BY DEF AdmissionInv, AuditGoesOn
<1>2. /\ probe'.receipt.status = "passed" => AuditPassed'
      /\ probe'.receipt.cleanup = "deleted_verified" => environment' = "deleted"
      /\ file'.status = "passed" => AuditPassed'
      /\ file'.cleanup = "deleted_verified" => environment' = "deleted"
  <2>1. /\ probe.receipt.status = "passed" => AuditPassed
        /\ probe.receipt.cleanup = "deleted_verified" => environment = "deleted"
        /\ file.status = "passed" => AuditPassed
        /\ file.cleanup = "deleted_verified" => environment = "deleted"
    BY <1>1 DEF ProbeInv, Backed
  <2> QED
    BY <1>1, <2>1
<1>3. probe'.terminal => Terminal'
  BY <1>1 DEF ProbeInv
<1>4. probe'.at \in {"start", "environment", "submit"} => ~probe'.submitted /\ ~probe'.terminal
  BY <1>1 DEF ProbeInv
<1>5. environment' = "deleted" => Terminal' \/ run' = "none"
  BY <1>1 DEF ProbeInv
<1>6. ProbeInv'
  <2>1. Backed(probe.receipt)' /\ Backed(file)'
    BY <1>2 DEF Backed
  <2>2. ~probe'.submitted => run' = "none"
    BY <1>1 DEF ProbeInv
  <2> QED
    BY <1>1, <1>3, <1>4, <1>5, <2>1, <2>2 DEF ProbeInv
<1>7. FlaskInv'
  BY FlaskRests DEF AdmissionInv, Aside
<1>8. AdoptedInv'
  BY <1>1 DEF AdmissionInv, AdoptedInv, Aside
<1> QED
  BY <1>6, <1>7, <1>8 DEF AdmissionInv

LEMMA IncompleteIs ==
  ASSUME NEW p \in Probe
  PROVE  /\ Incomplete(p) \in Probe /\ Incomplete(p).at = "cleanup"
         /\ Incomplete(p).receipt.status = "incomplete"
         /\ Incomplete(p).receipt.cleanup = p.receipt.cleanup
         /\ Incomplete(p).submitted = p.submitted /\ Incomplete(p).terminal = p.terminal
<1>1. /\ Go(p, "cleanup") \in Probe /\ Go(p, "cleanup").at = "cleanup"
      /\ Go(p, "cleanup").receipt = p.receipt
      /\ Go(p, "cleanup").submitted = p.submitted /\ Go(p, "cleanup").terminal = p.terminal
  BY GoIs DEF ProbeStep
<1> DEFINE g == Go(p, "cleanup")
<1> HIDE DEF g
<1>2. Incomplete(p) = Note(g, "status", "incomplete") /\ g \in Probe
  BY <1>1 DEF g, Incomplete
<1>3. /\ Note(g, "status", "incomplete") \in Probe
      /\ Note(g, "status", "incomplete").receipt.status = "incomplete"
      /\ Note(g, "status", "incomplete").receipt.cleanup = g.receipt.cleanup
      /\ Note(g, "status", "incomplete").at = g.at
      /\ Note(g, "status", "incomplete").submitted = g.submitted
      /\ Note(g, "status", "incomplete").terminal = g.terminal
  <2>1. /\ \A v \in {"started", "incomplete", "passed", "blocked"} :
              /\ Note(g, "status", v) \in Probe
              /\ Note(g, "status", v).receipt.status = v
              /\ Note(g, "status", v).receipt.cleanup = g.receipt.cleanup
        /\ \A f, v :
              /\ Note(g, f, v).at = g.at /\ Note(g, f, v).named = g.named
              /\ Note(g, f, v).submitted = g.submitted /\ Note(g, f, v).terminal = g.terminal
    BY <1>2, NoteIs, Zenon
  <2> QED
    BY <2>1, Zenon
<1> QED
  BY <1>1, <1>2, <1>3 DEF g

\* It moves on, and may give up; what it knows and what it wrote is as before.
LEMMA ProbeMoves ==
  ASSUME AdmissionInv, task = "django", AuditInv' /\ AuditGoesOn, Aside,
         NEW p \in Probe, probe' = p,
         p.submitted = probe.submitted, p.terminal = probe.terminal,
         p.receipt.cleanup = probe.receipt.cleanup,
         p.receipt.status \in {probe.receipt.status, "started", "incomplete"},
         file' \in {file, p.receipt},
         p.at \in {"start", "environment", "submit"} =>
           probe.at \in {"start", "environment", "submit"},
         environment' = environment \/
           (probe.at \notin {"close", "settle", "end"} /\ environment' \in {"absent", "present"}),
         probe.at \in {"close", "settle", "end"} => p.at \in {"close", "settle", "end"}
  PROVE  AdmissionInv'
<1>1. ProbeInv
  BY DEF AdmissionInv
<1>2. p.receipt \in ProbeReceipt
  BY DEF Probe
<1>3. environment = "deleted" => environment' = "deleted"
  BY <1>1 DEF ProbeInv
<1>4. /\ environment' \in {"absent", "present", "deleted"}
      /\ environment' = "deleted" => environment = "deleted" /\ p.at \in {"close", "settle", "end"}
  BY <1>1 DEF ProbeInv
<1>5. file' \in ProbeReceipt
  BY <1>1, <1>2 DEF ProbeInv
<1> QED
  BY <1>1, <1>2, <1>3, <1>4, <1>5, ProbeStays DEF ProbeInv

LEMMA SubmitProbeStep ==
  ASSUME AdmissionInv, task = "django", SubmitProbe
  PROVE  AdmissionInv'
<1> DEFINE p == [probe EXCEPT !.submitted = TRUE]
<1>1. /\ ProbeInv /\ probe.at = "submit" /\ Aside /\ file' = file /\ environment' = environment
      /\ FlaskInv /\ AuditInv /\ AdoptedInv
  BY DEF AdmissionInv, SubmitProbe
<1>2. /\ run = "none" /\ ~probe.terminal /\ environment # "deleted"
  BY <1>1 DEF ProbeInv
<1>3. /\ p \in Probe /\ p.at = "submit" /\ p.submitted = TRUE /\ p.terminal = probe.terminal
      /\ p.receipt = probe.receipt
  BY <1>1 DEF ProbeInv, Probe
<1> HIDE DEF p
<1>4. PICK q \in Probe :
        /\ probe' = q /\ q.submitted = TRUE /\ ~q.terminal /\ q.at \in {"bind", "cleanup"}
        /\ q.receipt.cleanup = probe.receipt.cleanup
        /\ q.receipt.status \in {probe.receipt.status, "incomplete"}
        /\ Create \/ (UNCHANGED auditVars)
  <2>1. CASE probe' = Go(p, "bind") /\ Create
    <3>1. /\ Go(p, "bind") \in Probe /\ Go(p, "bind").at = "bind"
          /\ Go(p, "bind").receipt = p.receipt /\ Go(p, "bind").submitted = p.submitted
          /\ Go(p, "bind").terminal = p.terminal
      BY <1>3, GoIs DEF ProbeStep
    <3> QED
      BY <1>2, <1>3, <2>1, <3>1
  <2>2. CASE probe' = Incomplete(p) /\ (Create \/ UNCHANGED auditVars)
    BY <1>2, <1>3, <2>2, IncompleteIs
  <2> QED
    BY <2>1, <2>2 DEF SubmitProbe, p
<1>5. ProbeInv /\ q.receipt \in ProbeReceipt
  BY <1>1 DEF Probe
<1>6. CASE Create
  <2>1. AuditInv' /\ task' = "django" /\ ~AuditPassed /\ AdoptedInv' /\ ~adopted
    BY <1>1, <1>2, <1>6, CreateSteps, CreatedFirst DEF Aside
  <2>2. FlaskInv'
    BY <1>1, <2>1 DEF FlaskInv, FlaskTypes, Aside, flaskVars, Undone, Absent, Record
  <2>3. /\ probe'.receipt.status # "passed" /\ file'.status # "passed"
        /\ probe'.receipt.cleanup # "deleted_verified" /\ file'.cleanup # "deleted_verified"
    BY <1>1, <1>2, <1>4, <2>1 DEF ProbeInv, Backed
  <2>4. Backed(probe.receipt)' /\ Backed(file)'
    BY <2>3 DEF Backed
  <2>5. ProbeInv'
    BY <1>1, <1>2, <1>4, <2>1, <2>4 DEF ProbeInv
  <2> QED
    BY <2>1, <2>2, <2>5 DEF AdmissionInv
<1>7. CASE UNCHANGED auditVars
  <2>1. AuditInv' /\ AuditGoesOn
    BY <1>1, <1>7, AuditRests
  <2>2. /\ probe'.receipt.status = "passed" => AuditPassed
        /\ file'.status = "passed" => AuditPassed
        /\ probe'.receipt.cleanup # "deleted_verified" /\ file'.cleanup # "deleted_verified"
    BY <1>1, <1>2, <1>4 DEF ProbeInv, Backed
  <2>3. task' = "django" /\ run' = "none" /\ (AuditPassed => AuditPassed')
    BY <1>2, <2>1 DEF AuditGoesOn
  <2>4. Backed(probe.receipt)' /\ Backed(file)'
    BY <2>2, <2>3 DEF Backed
  <2>5. ProbeInv'
    BY <1>1, <1>2, <1>4, <2>3, <2>4 DEF ProbeInv
  <2>6. FlaskInv' /\ AdoptedInv'
    BY <1>1, <2>1, FlaskRests, AdoptedRests DEF Aside
  <2> QED
    BY <2>1, <2>5, <2>6 DEF AdmissionInv
<1> QED
  BY <1>4, <1>6, <1>7

Known(q, p, to) ==
  /\ q \in Probe /\ q.at = to /\ q.submitted = p.submitted /\ q.terminal = p.terminal
  /\ q.named = p.named

LEMMA NoteStatus ==
  ASSUME NEW p \in Probe, NEW to \in ProbeStep,
         NEW v \in {"started", "incomplete", "passed", "blocked"}
  PROVE  /\ Known(Note(p, "status", v), p, p.at)
         /\ Note(p, "status", v).receipt.status = v
         /\ Note(p, "status", v).receipt.cleanup = p.receipt.cleanup
         /\ Known(Go(Note(p, "status", v), to), p, to)
         /\ Go(Note(p, "status", v), to).receipt.status = v
         /\ Go(Note(p, "status", v), to).receipt.cleanup = p.receipt.cleanup
         /\ Known(Note(Go(p, to), "status", v), p, to)
         /\ Note(Go(p, to), "status", v).receipt.status = v
         /\ Note(Go(p, to), "status", v).receipt.cleanup = p.receipt.cleanup
<1> DEFINE n(q) == Note(q, "status", v)
<1>1. ASSUME NEW q \in Probe
      PROVE  Known(n(q), q, q.at) /\ n(q).receipt.status = v
             /\ n(q).receipt.cleanup = q.receipt.cleanup
  <2>1. /\ \A w \in {"started", "incomplete", "passed", "blocked"} :
              /\ Note(q, "status", w) \in Probe
              /\ Note(q, "status", w).receipt.status = w
              /\ Note(q, "status", w).receipt.cleanup = q.receipt.cleanup
        /\ \A f, w :
              /\ Note(q, f, w).at = q.at /\ Note(q, f, w).named = q.named
              /\ Note(q, f, w).submitted = q.submitted /\ Note(q, f, w).terminal = q.terminal
    BY NoteIs, Zenon
  <2> QED
    BY <2>1, Zenon DEF Known
<1>2. ASSUME NEW q \in Probe
      PROVE  Known(Go(q, to), q, to) /\ Go(q, to).receipt = q.receipt
  BY GoIs, Zenon DEF Known
<1> HIDE DEF n
<1>3. n(p) \in Probe /\ Go(p, to) \in Probe
  BY <1>1, <1>2 DEF Known
<1>4. /\ Known(n(p), p, p.at) /\ n(p).receipt.status = v
      /\ n(p).receipt.cleanup = p.receipt.cleanup
  BY <1>1
<1>5. Known(Go(n(p), to), n(p), to) /\ Go(n(p), to).receipt = n(p).receipt
  BY <1>2, <1>3
<1>6. Known(Go(p, to), p, to) /\ Go(p, to).receipt = p.receipt
  BY <1>2
<1>7. /\ Known(n(Go(p, to)), Go(p, to), Go(p, to).at) /\ n(Go(p, to)).receipt.status = v
      /\ n(Go(p, to)).receipt.cleanup = Go(p, to).receipt.cleanup
  BY <1>1, <1>3
<1>8. Known(Go(n(p), to), p, to) /\ Known(n(Go(p, to)), p, to)
  BY <1>4, <1>5, <1>6, <1>7 DEF Known
<1> QED
  BY <1>4, <1>5, <1>6, <1>7, <1>8 DEF n

LEMMA NoteRun ==
  ASSUME NEW p \in Probe, NEW to \in ProbeStep, NEW v \in 0..MaxRuns
  PROVE  /\ Known(Note(Go(p, to), "run", v), p, to)
         /\ Note(Go(p, to), "run", v).receipt.status = p.receipt.status
         /\ Note(Go(p, to), "run", v).receipt.cleanup = p.receipt.cleanup
<1> DEFINE q == Go(p, to)
<1>1. Known(q, p, to) /\ q.receipt = p.receipt
  BY GoIs, Zenon DEF Known
<1> HIDE DEF q
<1>2. q \in Probe
  BY <1>1 DEF Known
<1>3. /\ Known(Note(q, "run", v), q, q.at)
      /\ Note(q, "run", v).receipt.status = q.receipt.status
      /\ Note(q, "run", v).receipt.cleanup = q.receipt.cleanup
  <2>1. /\ \A w \in 0..MaxRuns :
              /\ Note(q, "run", w) \in Probe
              /\ Note(q, "run", w).receipt.status = q.receipt.status
              /\ Note(q, "run", w).receipt.cleanup = q.receipt.cleanup
        /\ \A f, w :
              /\ Note(q, f, w).at = q.at /\ Note(q, f, w).named = q.named
              /\ Note(q, f, w).submitted = q.submitted /\ Note(q, f, w).terminal = q.terminal
    BY <1>2, NoteIs, Zenon
  <2> QED
    BY <2>1, Zenon DEF Known
<1>4. Known(Note(q, "run", v), p, to)
  BY <1>1, <1>3 DEF Known
<1> QED
  BY <1>1, <1>3, <1>4 DEF q

LEMMA NoteCleanup ==
  ASSUME NEW p \in Probe, NEW to \in ProbeStep,
         NEW v \in {"deleted_verified", "delete_unverified", "delete_failed",
                    "retained_for_ambiguous_run"}
  PROVE  /\ Known(Note(Go(p, to), "cleanup", v), p, to)
         /\ Note(Go(p, to), "cleanup", v).receipt.status = p.receipt.status
         /\ Note(Go(p, to), "cleanup", v).receipt.cleanup = v
<1> DEFINE q == Go(p, to)
<1>1. Known(q, p, to) /\ q.receipt = p.receipt
  BY GoIs, Zenon DEF Known
<1> HIDE DEF q
<1>2. q \in Probe
  BY <1>1 DEF Known
<1>3. /\ Known(Note(q, "cleanup", v), q, q.at)
      /\ Note(q, "cleanup", v).receipt.status = q.receipt.status
      /\ Note(q, "cleanup", v).receipt.cleanup = v
  <2>1. /\ \A w \in {"deleted_verified", "delete_unverified", "delete_failed",
                      "retained_for_ambiguous_run"} :
              /\ Note(q, "cleanup", w) \in Probe
              /\ Note(q, "cleanup", w).receipt.cleanup = w
              /\ Note(q, "cleanup", w).receipt.status = q.receipt.status
        /\ \A f, w :
              /\ Note(q, f, w).at = q.at /\ Note(q, f, w).named = q.named
              /\ Note(q, f, w).submitted = q.submitted /\ Note(q, f, w).terminal = q.terminal
    BY <1>2, NoteIs, Zenon
  <2> QED
    BY <2>1, Zenon DEF Known
<1>4. Known(Note(q, "cleanup", v), p, to)
  BY <1>1, <1>3 DEF Known
<1> QED
  BY <1>1, <1>3, <1>4 DEF q

LEMMA ObserveStep ==
  ASSUME AdmissionInv, task = "django", Observe
  PROVE  AdmissionInv'
<1> DEFINE p == [probe EXCEPT !.terminal = TRUE]
           v == IF AuditPassed THEN "passed" ELSE "blocked"
<1>1. /\ ProbeInv /\ probe.at = "observe" /\ Terminal /\ Aside /\ environment' = environment
      /\ environment # "deleted" /\ AuditInv' /\ AuditGoesOn
  BY AuditRests DEF AdmissionInv, ProbeInv, Observe
<1>2. /\ p \in Probe /\ p.submitted = probe.submitted /\ p.receipt = probe.receipt
      /\ p.at = "observe"
  BY <1>1 DEF ProbeInv, Probe
<1> HIDE DEF p
<1>3. v \in {"passed", "blocked"} /\ (v = "passed" => AuditPassed)
  OBVIOUS
<1>4. \/ Persist(Note(Go(p, "cleanup"), "status", v))
      \/ probe' = Incomplete(p) /\ UNCHANGED file
  BY DEF Observe, p
<1> HIDE DEF v
<1>5. /\ probe' \in Probe /\ probe'.at = "cleanup" /\ probe'.submitted = probe.submitted
      /\ probe'.receipt.status \in {v, "incomplete"}
      /\ probe'.receipt.cleanup = probe.receipt.cleanup
      /\ file' \in {file, probe'.receipt}
  <2>1. CASE Persist(Note(Go(p, "cleanup"), "status", v))
    <3>1. "cleanup" \in ProbeStep
      BY DEF ProbeStep
    <3> QED
      BY <1>2, <1>3, <2>1, <3>1, NoteStatus DEF Known, Persist
  <2>2. CASE probe' = Incomplete(p) /\ UNCHANGED file
    BY <1>2, <2>2, IncompleteIs
  <2> QED
    BY <1>4, <2>1, <2>2
<1>6. file' \in ProbeReceipt
  BY <1>1, <1>5 DEF Probe, ProbeInv
<1>7. /\ probe'.receipt.status = "passed" => AuditPassed
      /\ file'.status = "passed" => file.status = "passed" \/ AuditPassed
  BY <1>3, <1>5
<1>8. environment \in {"absent", "present", "deleted"}
  BY <1>1 DEF ProbeInv
<1> QED
  BY <1>1, <1>5, <1>6, <1>7, <1>8, ProbeStays

LEMMA CleanupStep ==
  ASSUME AdmissionInv, task = "django", Cleanup
  PROVE  AdmissionInv'
<1>1. /\ ProbeInv /\ probe.at = "cleanup" /\ Aside /\ file' = file
      /\ environment # "deleted" /\ AuditInv' /\ AuditGoesOn
      /\ probe \in Probe /\ "close" \in ProbeStep /\ environment \in {"absent", "present"}
  BY AuditRests DEF AdmissionInv, ProbeInv, Cleanup, ProbeStep
<1>2. probe.receipt.cleanup # "deleted_verified"
  BY <1>1 DEF ProbeInv, Backed
<1>3. MayDelete => Terminal \/ run = "none"
  BY <1>1 DEF ProbeInv, MayDelete
<1> DEFINE n(v) == Note(Go(probe, "close"), "cleanup", v)
<1>4. ASSUME NEW v \in {"deleted_verified", "delete_unverified", "delete_failed",
                        "retained_for_ambiguous_run"}
      PROVE  Known(n(v), probe, "close") /\ n(v).receipt.status = probe.receipt.status
             /\ n(v).receipt.cleanup = v
  BY <1>1, NoteCleanup
<1>5. Known(Go(probe, "close"), probe, "close") /\ Go(probe, "close").receipt = probe.receipt
  BY <1>1, GoIs DEF Known
<1>6. LET w == Note(n("delete_failed"), "status", "incomplete")
      IN  Known(w, probe, "close") /\ w.receipt.status = "incomplete"
          /\ w.receipt.cleanup = "delete_failed"
  <2> HIDE DEF n
  <2>1. Known(n("delete_failed"), probe, "close") /\ n("delete_failed").receipt.cleanup = "delete_failed"
    BY <1>4
  <2> DEFINE m == n("delete_failed")
             w == Note(m, "status", "incomplete")
  <2>2. m \in Probe /\ m.at = "close"
    BY <2>1 DEF Known
  <2> HIDE DEF m
  <2>3. Known(w, m, m.at) /\ w.receipt.status = "incomplete" /\ w.receipt.cleanup = m.receipt.cleanup
    BY <1>1, <2>2, NoteStatus
  <2> HIDE DEF w
  <2>4. Known(w, probe, "close")
    BY <2>1, <2>3 DEF Known, m
  <2> QED
    BY <2>1, <2>3, <2>4 DEF m, w
<1>7. /\ Known(probe', probe, "close")
      /\ probe'.receipt.status \in {probe.receipt.status, "incomplete"}
      /\ probe'.receipt.cleanup = "deleted_verified" => environment' = "deleted"
      /\ environment' \in {environment, "deleted"}
      /\ environment' = "deleted" => MayDelete
  <2>1. CASE MayDelete /\ environment' = "deleted" /\ probe' = n("deleted_verified")
    <3> HIDE DEF n
    <3> QED
      BY <1>4, <2>1
  <2>2. CASE /\ MayDelete /\ environment' \in {environment, "deleted"}
             /\ probe' \in {n("delete_unverified"), Note(n("delete_failed"), "status", "incomplete")}
    <3> HIDE DEF n
    <3> QED
      BY <1>4, <1>6, <2>2
  <2>3. CASE /\ ~MayDelete /\ environment' = environment
             /\ probe' \in {n("retained_for_ambiguous_run"), Go(probe, "close")}
    <3> HIDE DEF n
    <3> QED
      BY <1>1, <1>2, <1>4, <1>5, <2>3
  <2> QED
    BY <2>1, <2>2, <2>3, Zenon DEF Cleanup
<1> HIDE DEF n
<1>8. probe' \in Probe /\ probe'.at = "close" /\ probe'.submitted = probe.submitted /\ probe'.terminal = probe.terminal
  BY <1>7 DEF Known
<1>9. file' \in ProbeReceipt
  BY <1>1 DEF ProbeInv
<1> QED
  BY <1>1, <1>3, <1>7, <1>8, <1>9, ProbeStays

LEMMA ProbeSteps ==
  ASSUME AdmissionInv, ProbeDjango
  PROVE  AdmissionInv'
<1>1. task = "django" /\ ProbeInv /\ AuditInv /\ probe \in Probe
  BY DEF ProbeDjango, AdmissionInv, ProbeInv
<1>2. UNCHANGED auditVars => AuditInv' /\ AuditGoesOn
  BY <1>1, AuditRests
<1>3. ProbeStep = {"start", "environment", "submit", "bind", "await", "release", "follow",
                   "observe", "cleanup", "close", "settle", "end"}
  BY DEF ProbeStep
<1>4. /\ Incomplete(probe) \in Probe /\ Incomplete(probe).at = "cleanup"
      /\ Incomplete(probe).receipt.status = "incomplete"
      /\ Incomplete(probe).receipt.cleanup = probe.receipt.cleanup
      /\ Incomplete(probe).submitted = probe.submitted
      /\ Incomplete(probe).terminal = probe.terminal
  BY <1>1, IncompleteIs
<1>5. \A to \in ProbeStep :
        /\ Go(probe, to) \in Probe /\ Go(probe, to).at = to
        /\ Go(probe, to).receipt = probe.receipt
        /\ Go(probe, to).submitted = probe.submitted
        /\ Go(probe, to).terminal = probe.terminal
  BY <1>1, GoIs
<1>6. CASE Start
  <2> DEFINE q == Go(Note(probe, "status", "started"), "environment")
  <2>1. /\ Known(q, probe, "environment") /\ q.receipt.status = "started"
        /\ q.receipt.cleanup = probe.receipt.cleanup
    BY <1>1, <1>3, NoteStatus
  <2>2. /\ probe' = q /\ file' = q.receipt /\ probe.at = "start" /\ Aside
        /\ environment' = environment /\ AuditInv' /\ AuditGoesOn
    BY <1>2, <1>6 DEF Start, Persist
  <2> HIDE DEF q
  <2> QED
    BY <1>1, <2>1, <2>2, ProbeMoves DEF Known
<1>7. CASE CreateEnvironment
  <2>1. probe.at = "environment" /\ Aside /\ AuditInv' /\ AuditGoesOn
    BY <1>2, <1>7 DEF CreateEnvironment
  <2>2. CASE environment' = "present" /\ Persist([Go(probe, "submit") EXCEPT !.named = TRUE])
    <3> DEFINE g == Go(probe, "submit")
               q == [g EXCEPT !.named = TRUE]
    <3>1. /\ g \in Probe /\ g.at = "submit" /\ g.receipt = probe.receipt
          /\ g.submitted = probe.submitted /\ g.terminal = probe.terminal
      BY <1>3, <1>5
    <3>2. probe' = q /\ file' = q.receipt
      BY <2>2 DEF Persist
    <3> HIDE DEF g
    <3>3. /\ q \in Probe /\ q.at = "submit" /\ q.receipt = probe.receipt
          /\ q.submitted = probe.submitted /\ q.terminal = probe.terminal
      BY <3>1 DEF Probe
    <3> HIDE DEF q
    <3> QED
      BY <1>1, <2>1, <2>2, <3>2, <3>3, ProbeMoves
  <2>3. CASE /\ environment' \in {"absent", "present"}
             /\ probe' = Incomplete(probe) /\ UNCHANGED file
    BY <1>1, <1>4, <2>1, <2>3, ProbeMoves
  <2> QED
    BY <1>7, <2>2, <2>3 DEF CreateEnvironment
<1>8. CASE ImageDrift
  <2>1. /\ probe.at = "submit" /\ Aside /\ AuditInv' /\ AuditGoesOn
        /\ probe' = Incomplete(probe) /\ file' = file /\ environment' = environment
    BY <1>2, <1>8 DEF ImageDrift
  <2> QED
    BY <1>1, <1>4, <2>1, ProbeMoves
<1>9. CASE SubmitProbe
  BY <1>1, <1>9, SubmitProbeStep
<1>10. CASE BindProbe
  <2>1. created \in 0..MaxRuns /\ Aside /\ environment' = environment /\ AuditInv' /\ AuditGoesOn
    BY <1>1, <1>2, <1>10 DEF AuditInv, BindProbe
  <2>2. PICK to \in {"await", "release"} :
          /\ Persist(Note(Go(probe, to), "run", created)) /\ probe.at \in {"bind", "await"}
    BY <1>10 DEF BindProbe
  <2> DEFINE q == Note(Go(probe, to), "run", created)
  <2>3. /\ Known(q, probe, to) /\ q.receipt.status = probe.receipt.status
        /\ q.receipt.cleanup = probe.receipt.cleanup
    BY <1>1, <1>3, <2>1, NoteRun
  <2>4. probe' = q /\ file' = q.receipt
    BY <2>2 DEF Persist
  <2> HIDE DEF q
  <2> QED
    BY <1>1, <2>1, <2>2, <2>3, <2>4, ProbeMoves DEF Known
<1>11. CASE ReleaseProbe
  <2>1. /\ probe.at = "release" /\ Aside /\ AuditInv' /\ AuditGoesOn
        /\ probe' = Go(probe, "follow") /\ file' = file /\ environment' = environment
    BY <1>1, <1>11, MarkSteps DEF ReleaseProbe
  <2>2. /\ Go(probe, "follow") \in Probe /\ Go(probe, "follow").at = "follow"
        /\ Go(probe, "follow").receipt = probe.receipt
        /\ Go(probe, "follow").submitted = probe.submitted
        /\ Go(probe, "follow").terminal = probe.terminal
    BY <1>3, <1>5
  <2> QED
    BY <1>1, <2>1, <2>2, ProbeMoves
<1>12. CASE AbortProbe
  <2>1. /\ probe.at \in {"bind", "await", "release"} /\ Aside /\ AuditInv' /\ AuditGoesOn
        /\ probe' = Incomplete(probe) /\ file' = file /\ environment' = environment
    BY <1>1, <1>12, CancelSteps DEF AbortProbe
  <2> QED
    BY <1>1, <1>4, <2>1, ProbeMoves
<1>13. CASE FollowProbe
  <2>1. /\ probe.at \in {"follow", "observe"} /\ Aside /\ AuditInv' /\ AuditGoesOn
        /\ probe' \in {Go(probe, "observe"), Incomplete(probe)}
        /\ file' = file /\ environment' = environment
    BY <1>2, <1>13 DEF FollowProbe
  <2>2. /\ Go(probe, "observe") \in Probe /\ Go(probe, "observe").at = "observe"
        /\ Go(probe, "observe").receipt = probe.receipt
        /\ Go(probe, "observe").submitted = probe.submitted
        /\ Go(probe, "observe").terminal = probe.terminal
    BY <1>3, <1>5
  <2>3. CASE probe' = Go(probe, "observe")
    BY <1>1, <2>1, <2>2, <2>3, ProbeMoves
  <2>4. CASE probe' = Incomplete(probe)
    BY <1>1, <1>4, <2>1, <2>4, ProbeMoves
  <2> QED
    BY <2>1, <2>3, <2>4
<1>14. CASE Observe
  BY <1>1, <1>14, ObserveStep
<1>15. CASE Cleanup
  BY <1>1, <1>15, CleanupStep
<1>16. /\ Known(Note(probe, "status", "incomplete"), probe, probe.at)
       /\ Note(probe, "status", "incomplete").receipt.status = "incomplete"
       /\ Note(probe, "status", "incomplete").receipt.cleanup = probe.receipt.cleanup
  BY <1>1, NoteStatus DEF Probe
<1>17. ASSUME NEW p \in {probe, Note(probe, "status", "incomplete")}, NEW to \in ProbeStep
       PROVE  /\ Go(p, to) \in Probe /\ Go(p, to).at = to
              /\ Go(p, to).receipt.status \in {probe.receipt.status, "incomplete"}
              /\ Go(p, to).receipt.cleanup = probe.receipt.cleanup
              /\ Go(p, to).submitted = probe.submitted
              /\ Go(p, to).terminal = probe.terminal
  <2>1. /\ p \in Probe /\ p.receipt.status \in {probe.receipt.status, "incomplete"}
        /\ p.receipt.cleanup = probe.receipt.cleanup
        /\ p.submitted = probe.submitted /\ p.terminal = probe.terminal
    BY <1>1, <1>16 DEF Known
  <2> QED
    BY <2>1, GoIs
<1>18. CASE Close
  <2>1. PICK p \in {probe, Note(probe, "status", "incomplete")} : probe' = Go(p, "settle")
    BY <1>18 DEF Close
  <2>2. /\ probe.at = "close" /\ Aside /\ AuditInv' /\ AuditGoesOn
        /\ file' = file /\ environment' = environment
    BY <1>2, <1>18 DEF Close
  <2> DEFINE q == Go(p, "settle")
  <2>3. /\ q \in Probe /\ q.at = "settle"
        /\ q.receipt.status \in {probe.receipt.status, "incomplete"}
        /\ q.receipt.cleanup = probe.receipt.cleanup
        /\ q.submitted = probe.submitted /\ q.terminal = probe.terminal
    BY <1>3, <1>17
  <2> HIDE DEF q
  <2> QED
    BY <1>1, <2>1, <2>2, <2>3, ProbeMoves DEF q
<1>19. CASE Settle
  <2>1. PICK p \in {probe, Note(probe, "status", "incomplete")} : Persist(Go(p, "end"))
    <3>1. CASE probe.receipt.status = "passed" /\ probe.receipt.cleanup # "deleted_verified"
      BY <1>19, <3>1 DEF Settle
    <3>2. CASE ~(probe.receipt.status = "passed" /\ probe.receipt.cleanup # "deleted_verified")
      BY <1>19, <3>2 DEF Settle
    <3> QED
      BY <3>1, <3>2
  <2>2. /\ probe.at = "settle" /\ Aside /\ AuditInv' /\ AuditGoesOn
        /\ environment' = environment
    BY <1>2, <1>19 DEF Settle
  <2> DEFINE q == Go(p, "end")
  <2>3. /\ q \in Probe /\ q.at = "end"
        /\ q.receipt.status \in {probe.receipt.status, "incomplete"}
        /\ q.receipt.cleanup = probe.receipt.cleanup
        /\ q.submitted = probe.submitted /\ q.terminal = probe.terminal
    BY <1>3, <1>17
  <2>4. probe' = q /\ file' = q.receipt
    BY <2>1 DEF Persist
  <2> HIDE DEF q
  <2> QED
    BY <1>1, <2>2, <2>3, <2>4, ProbeMoves
<1>20. CASE Die
  <2>1. /\ Aside /\ AuditInv' /\ AuditGoesOn /\ probe' = Go(probe, "end")
        /\ file' = file /\ environment' = environment
    BY <1>2, <1>20 DEF Die
  <2>2. /\ Go(probe, "end") \in Probe /\ Go(probe, "end").at = "end"
        /\ Go(probe, "end").receipt = probe.receipt
        /\ Go(probe, "end").submitted = probe.submitted
        /\ Go(probe, "end").terminal = probe.terminal
    BY <1>3, <1>5
  <2> QED
    BY <1>1, <2>1, <2>2, ProbeMoves
<1> QED
  BY <1>6, <1>7, <1>8, <1>9, <1>10, <1>11, <1>12, <1>13, <1>14, <1>15, <1>18, <1>19, <1>20
     DEF ProbeDjango

\* An episode is accepted, by a task adapter or by a tool.
LEMMA Accepted ==
  ASSUME AdmissionInv, UNCHANGED <<auditVars, flaskVars, probe, file, environment>>,
         adopted' = TRUE,
         \/ \E e \in Episodes : load_flask_admission(e)
         \/ task = "django" /\ \E e \in Episodes : load_django_admission(e)
  PROVE  AdmissionInv'
<1>1. AuditInv' /\ AuditGoesOn
  BY AuditRests DEF AdmissionInv
<1>2. FlaskInv' /\ ProbeInv'
  BY <1>1, FlaskRests, ProbeRests DEF AdmissionInv
<1>3. AuditPassed /\ (task = "django" => environment = "deleted")
  <2>1. CASE \E e \in Episodes : load_flask_admission(e)
    <3>1. receipt # 0
      BY <2>1 DEF load_flask_admission
    <3>2. AuditPassed /\ task # "django"
      BY <3>1 DEF AdmissionInv, FlaskInv, FlaskTypes, Absent, Record
    <3> QED
      BY <3>2
  <2>2. CASE task = "django" /\ \E e \in Episodes : load_django_admission(e)
    BY <2>2 DEF load_django_admission, AdmissionInv, ProbeInv, Backed
  <2> QED
    BY <2>1, <2>2
<1>4. AdoptedInv'
  BY <1>1, <1>3 DEF AdoptedInv, AuditGoesOn
<1> QED
  BY <1>1, <1>2, <1>4 DEF AdmissionInv

LEMMA AdmissionRests ==
  ASSUME AdmissionInv, UNCHANGED vars
  PROVE  AdmissionInv'
<1>1. AuditInv' /\ AuditGoesOn
  BY AuditRests DEF AdmissionInv, vars
<1> QED
  BY <1>1, FlaskRests, ProbeRests, AdoptedRests DEF AdmissionInv, vars, probeVars

LEMMA AdmissionSteps ==
  ASSUME AdmissionInv, Next
  PROVE  AdmissionInv'
<1>1. CASE AdmitFlask
  BY <1>1, FlaskSteps
<1>2. CASE ProbeDjango
  BY <1>2, ProbeSteps
<1>3. CASE AdoptFlask
  BY <1>3, Accepted DEF AdoptFlask
<1>4. CASE AdoptDjango
  BY <1>4, Accepted DEF AdoptDjango
<1>5. CASE Axern
  <2>1. AuditInv' /\ AuditGoesOn /\ UNCHANGED <<flaskVars, probeVars>>
    BY <1>5, AuditSteps DEF Axern, AdmissionInv
  <2> QED
    BY <2>1, FlaskRests, ProbeRests, AdoptedRests DEF AdmissionInv, probeVars
<1> QED
  BY <1>1, <1>2, <1>3, <1>4, <1>5 DEF Next

\* A tool looks at the admission, and accepts an episode on the strength of a receipt.
LEMMA ToolsAdmit ==
  ASSUME AdmissionInv, Tools, UNCHANGED <<auditVars, flaskVars, probe, file, environment>>
  PROVE  AdmissionInv'
<1>1. CASE UNCHANGED adopted
  BY <1>1, AdmissionRests DEF vars, probeVars
<1>2. CASE \E t \in Tool : Resolved(t)
  BY <1>2, Accepted DEF Resolved
<1>3. ASSUME ~UNCHANGED adopted PROVE \E t \in Tool : Resolved(t)
  <2>1. Flask
    BY <1>3, Zenon DEF Tools, Aloof
  <2>2. ParityResolves \/ ClaudeResolves
    BY <1>3, <2>1, Zenon
       DEF Flask, Aloof, Calm, StartParity, ParityInputs, ParityAdmits, ParityQualifies,
           Qualified, ParityRuns, Ran, ParityReviews, ParityFails, ParityCloses, StartClaude,
           ClaudeConfig, ClaudeGate, ClaudeQualifies, ClaudeRuns, ClaudeReviews, ClaudeFails,
           ClaudeCleans, ClaudeCloses
  <2> QED
    BY <2>2 DEF ParityResolves, ClaudeResolves, Tool
<1> QED
  BY <1>1, <1>2, <1>3

------------------------------------------------------------------------------
(* The tools.  Each belongs to one benchmark and is launched once, after those it
   needs; what it says in the end is about things that it alone makes. *)

TaskOf ==
  [t \in Tool |-> IF t \in {"flask_oracle", "parity", "claude"} THEN "flask"
                  ELSE IF t = "django_oracle" THEN "django" ELSE "seqtk"]

Built == {"container", "image"}
Created == {"inference", "verification", "isolation"}
Makes ==
  [t \in Tool |-> IF t \in Oracle THEN {"container"} ELSE IF t = "native" THEN Built
                  ELSE IF t = "claude" THEN Model
                  ELSE IF t = "axern" THEN Created \cup {"derived"} ELSE {}]

Paper ==
  [status : {"none", "started", "complete", "failed"}, cases : Nat,
   cleanup : {"not_started", "pending", "deleted_and_absent", "ambiguous", "failed",
              "completed"}]
Hold ==
  [receipt : Paper, owned : SUBSET Resource, active : SUBSET Stage,
   box : {"none", "running", "ended", "removed"},
   exit : {"none", "zero", "nonzero", "unapplied", "unmarked", "timed_out"}]

Launched(t) == paper[t].status # "none"

ToolTypes ==
  /\ tool \in Tool \cup {"none"} /\ held \in Hold /\ paper \in [Tool -> Paper]
  /\ present \subseteq Resource /\ bound \subseteq Stage
  /\ work \in [Stage -> {"none", "live", "succeeded", "failed"}]

Order ==
  /\ tool = "none" => pc = "idle"
  /\ tool # "none" => Launched(tool) /\ held.receipt.status # "none"
  /\ \A t \in Tool : Launched(t) => task = TaskOf[t]
  /\ Launched("claude") => Launched("parity") /\ tool \in {"none", "claude"}
  /\ Launched("parity") => Launched("flask_oracle") /\ tool \in {"none", "parity", "claude"}
  /\ Launched("axern") => Launched("native") /\ tool \in {"none", "axern"}

\* An oracle that waits for no container has none.
OracleInv ==
  /\ \A t \in Oracle : paper[t].status = "complete" => "container" \notin present
  /\ \A t \in Oracle : task = TaskOf[t] /\ ~Launched(t) => "container" \notin present
  /\ tool \in Oracle =>
       /\ paper[tool].status = "started" /\ held.receipt.status = "started"
       /\ "container" \in present => held.box \in {"running", "ended"}
       /\ pc \in {"assets", "inputs", "empty"} => held.box = "none"

\* What a native run has built is owned, unless the run has failed.
NativeInv ==
  /\ (paper["native"].status = "complete" /\ paper["native"].cleanup = "completed") =>
       present \cap Built = {}
  /\ (task = "seqtk" /\ ~Launched("native")) => present \cap Built = {}
  /\ tool = "native" =>
       /\ paper["native"].status = "started"
       /\ pc # "cleanup" => held.receipt.status = "started"
       /\ (pc # "cleanup" \/ held.receipt.status = "complete") =>
            present \cap Built \subseteq held.owned

\* An episode with a model is complete only when its four Runs have succeeded.
ClaudeInv ==
  /\ task = "flask" => work[5] = "none" /\ work[6] = "none"
  /\ paper["claude"].status = "complete" =>
       tool = "none" /\ present \cap Model = {} /\ Live = {}
  /\ tool = "claude" =>
       /\ paper["claude"].status = "started"
       /\ pc \notin {"cleanup", "close"} => held.receipt.status = "started"
       /\ held.receipt.status = "complete" => Live = {}
       /\ (pc = "close" /\ held.receipt.status = "complete") => present \cap Model = {}

\* As long as no case has failed, every Environment that was asked for is owned.
AxernInv ==
  /\ paper["axern"].status = "complete" =>
       tool = "none" /\ present \cap (Created \cup {"derived"}) = {} /\ Live = {}
  /\ (task = "seqtk" /\ ~Launched("axern")) => present \cap (Created \cup {"derived"}) = {}
  /\ tool = "axern" =>
       /\ paper["axern"].status = "started" /\ held.receipt.status # "complete"
       /\ held.receipt.status = "started" =>
            /\ present \cap Created \subseteq held.owned
            /\ "derived" \in present => pc = "derived"
            /\ pc # "cancel" /\ (pc \in {"runs", "environments"} => Live = {})

ToolInv ==
  ToolTypes /\ Order /\ OracleInv /\ NativeInv /\ ClaudeInv /\ AxernInv

\* A step of one tool.
Turn(t) ==
  /\ task' = task /\ task = TaskOf[t]
  /\ tool = t \/ (tool = "none" /\ ~Launched(t))
  /\ tool' \in {"none", t} /\ (tool' = "none" => pc' = "idle")
  /\ tool' # "none" => held'.receipt.status # "none"
  /\ \A u \in Tool \ {t} : paper'[u] = paper[u]
  /\ paper'[t].status # "none"
  /\ tool = "none" =>
       /\ t = "parity" => Launched("flask_oracle")
       /\ t = "claude" => Launched("parity")
       /\ t = "axern" => Launched("native")
  /\ present' \subseteq present \cup Makes[t]
  /\ t # "axern" => \A s \in {5, 6} : work'[s] \in {"none", work[s]}

LEMMA TurnKeeps ==
  ASSUME ToolInv, NEW t \in Tool, Turn(t), ToolTypes'
  PROVE  /\ Order'
         /\ t \notin Oracle => OracleInv'
         /\ t # "native" => NativeInv'
         /\ t # "claude" => ClaudeInv'
         /\ t # "axern" => AxernInv'
<1>1. Order' 
  <2>1. \A u \in Tool \ {t} : Launched(u)' = Launched(u)
    BY DEF Turn, Launched
  <2>2. Launched(t)'
    BY DEF Turn, Launched
  <2>3. Tool = {"flask_oracle", "django_oracle", "native", "parity", "claude", "axern"}
    BY DEF Tool
  <2>4. tool' = "none" => pc' = "idle"
    BY DEF Turn
  <2>5. tool' # "none" => Launched(tool)' /\ held'.receipt.status # "none"
    BY <2>2 DEF Turn, Launched
  <2>6. \A u \in Tool : Launched(u)' => task' = TaskOf[u]
    BY <2>1 DEF Turn, ToolInv, Order
  <2>7. tool = t \/ (tool = "none" /\ ~Launched(t))
    BY DEF Turn
  <2> DEFINE L(u) == paper[u].status # "none"
             M(u) == paper'[u].status # "none"
  <2>a. /\ \A u \in Tool \ {t} : M(u) <=> L(u)
        /\ M(t) /\ (tool = t \/ (tool = "none" /\ ~L(t))) /\ tool' \in {"none", t}
    BY <2>1, <2>2, <2>7 DEF Launched, Turn
  <2>b. /\ L("claude") => L("parity") /\ tool \in {"none", "claude"}
        /\ L("parity") => L("flask_oracle") /\ tool \in {"none", "parity", "claude"}
        /\ L("axern") => L("native") /\ tool \in {"none", "axern"}
        /\ tool # "none" => L(tool)
    BY DEF Launched, ToolInv, Order
  <2>c. tool = "none" =>
          /\ t = "parity" => L("flask_oracle")
          /\ t = "claude" => L("parity")
          /\ t = "axern" => L("native")
    BY DEF Launched, Turn
  <2>e. /\ L("claude") \/ L("parity") => t \in {"flask_oracle", "parity", "claude"}
        /\ L("axern") => t \in {"native", "axern"}
    BY <2>3 DEF Launched, Turn, ToolInv, Order, TaskOf
  <2> HIDE DEF L, M
  <2>d. /\ M("claude") => M("parity") /\ tool' \in {"none", "claude"}
        /\ M("parity") => M("flask_oracle") /\ tool' \in {"none", "parity", "claude"}
        /\ M("axern") => M("native") /\ tool' \in {"none", "axern"}
    BY <2>3, <2>a, <2>b, <2>c, <2>e
  <2>8. Launched("claude")' => Launched("parity")' /\ tool' \in {"none", "claude"}
    BY <2>d DEF Launched, M
  <2>9. Launched("parity")' => Launched("flask_oracle")' /\ tool' \in {"none", "parity", "claude"}
    BY <2>d DEF Launched, M
  <2>10. Launched("axern")' => Launched("native")' /\ tool' \in {"none", "axern"}
    BY <2>d DEF Launched, M
  <2> QED
    BY <2>4, <2>5, <2>6, <2>8, <2>9, <2>10 DEF Order
<1>2. Tool = {"flask_oracle", "django_oracle", "native", "parity", "claude", "axern"}
  BY DEF Tool
<1>3. /\ tool = t \/ (tool = "none" /\ ~Launched(t))
      /\ tool' \in {"none", t} /\ task' = task /\ task = TaskOf[t]
      /\ \A u \in Tool \ {t} : paper'[u] = paper[u]
      /\ present' \subseteq present \cup Makes[t]
  BY DEF Turn
<1>4. /\ Launched("claude") => t = "claude"
      /\ Launched("axern") => t = "axern"
  BY <1>2, <1>3 DEF ToolInv, Order, TaskOf
<1>5. ASSUME t \notin Oracle PROVE OracleInv'
  <2>1. "container" \in present' => t = "native" \/ "container" \in present
    BY <1>2, <1>3, <1>5 DEF Makes, Model, Created
  <2>2. t = "native" => \A u \in Oracle : ~Launched(u) /\ task # TaskOf[u]
    BY <1>2, <1>3 DEF ToolInv, Order, TaskOf, Oracle
  <2>3. \A u \in Oracle : u \in Tool \ {t}
    BY <1>2, <1>5 DEF Oracle
  <2>4. tool' \notin Oracle
    BY <1>3, <1>5 DEF Oracle
  <2> QED
    BY <1>3, <2>1, <2>2, <2>3, <2>4 DEF ToolInv, OracleInv, Launched
<1>6. ASSUME t # "native" PROVE NativeInv'
  <2>1. paper'["native"] = paper["native"] /\ tool' # "native"
    BY <1>2, <1>3, <1>6
  <2>2. task = "seqtk" => present' \cap Built \subseteq present \cap Built
    BY <1>2, <1>3, <1>6 DEF Makes, TaskOf, Built, Created
  <2>3. Launched("native") => task = "seqtk"
    BY <1>2 DEF ToolInv, Order, TaskOf
  <2> QED
    BY <1>3, <2>1, <2>2, <2>3 DEF ToolInv, NativeInv, Launched
<1>7. ASSUME t # "claude" PROVE ClaudeInv'
  <2>1. paper'["claude"].status = "none" /\ tool' # "claude"
    BY <1>2, <1>3, <1>4, <1>7 DEF Launched
  <2>2. task = "flask" => work'[5] = "none" /\ work'[6] = "none"
    BY <1>2, <1>3 DEF Turn, TaskOf, ToolInv, ClaudeInv
  <2> QED
    BY <1>3, <2>1, <2>2 DEF ClaudeInv
<1>8. ASSUME t # "axern" PROVE AxernInv'
  <2>1. paper'["axern"].status = "none" /\ tool' # "axern" /\ ~Launched("axern")
    BY <1>2, <1>3, <1>4, <1>8 DEF Launched
  <2>2. task = "seqtk" => present' \cap (Created \cup {"derived"}) \subseteq present
    BY <1>2, <1>3, <1>8 DEF Makes, TaskOf, Built, Created
  <2> QED
    BY <1>3, <2>1, <2>2 DEF ToolInv, AxernInv
<1> QED
  BY <1>1, <1>5, <1>6, <1>7, <1>8

LEMMA StartedIs ==
  /\ Started \in Hold /\ Started.receipt.status = "started"
  /\ Started.owned = {} /\ Started.box = "none" /\ Started.receipt \in Paper
BY DEF Started, Receipt, Hold, Paper

LEMMA LaunchIs ==
  ASSUME ToolTypes, NEW t \in Tool, Launch(t)
  PROVE  /\ tool = "none" /\ ~Launched(t) /\ tool' = t /\ held' = Started
         /\ paper' \in [Tool -> Paper] /\ paper'[t].status = "started"
         /\ \A u \in Tool \ {t} : paper'[u] = paper[u]
BY StartedIs DEF ToolTypes, Launch, Launched

LEMMA SaveIs ==
  ASSUME ToolTypes, tool \in Tool, NEW h \in Hold, Save(h)
  PROVE  /\ held' = h /\ paper' \in [Tool -> Paper] /\ paper'[tool] = h.receipt
         /\ \A u \in Tool \ {tool} : paper'[u] = paper[u]
<1>1. h.receipt \in Paper
  BY DEF Hold
<1> QED
  BY <1>1 DEF ToolTypes, Save

\* What is held after the updates of a step.
LEMMA HeldIs ==
  ASSUME held \in Hold
  PROVE  /\ \A v \in {"started", "complete", "failed"} :
              LET h == Noted("status", v)
              IN  /\ h \in Hold /\ h.receipt.status = v /\ h.owned = held.owned
                  /\ h.receipt.cleanup = held.receipt.cleanup /\ h.box = held.box
         /\ \A v \in {"pending", "deleted_and_absent", "failed", "completed"} :
              LET h == Noted("cleanup", v)
              IN  /\ h \in Hold /\ h.receipt.status = held.receipt.status
                  /\ h.owned = held.owned /\ h.receipt.cleanup = v
         /\ /\ OneMore \in Hold /\ OneMore.receipt.status = held.receipt.status
            /\ OneMore.owned = held.owned
<1>1. ASSUME NEW v \in {"started", "complete", "failed"}
      PROVE  LET h == Noted("status", v)
             IN  /\ h \in Hold /\ h.receipt.status = v /\ h.owned = held.owned
                 /\ h.receipt.cleanup = held.receipt.cleanup /\ h.box = held.box
  BY DEF Noted, Hold, Paper
<1>2. ASSUME NEW v \in {"pending", "deleted_and_absent", "failed", "completed"}
      PROVE  LET h == Noted("cleanup", v)
             IN  /\ h \in Hold /\ h.receipt.status = held.receipt.status
                 /\ h.owned = held.owned /\ h.receipt.cleanup = v
  BY DEF Noted, Hold, Paper
<1>3. held.receipt \in Paper /\ held.receipt.cases \in Nat
  BY DEF Hold, Paper
<1>4. held.receipt.cases + 1 \in Nat
  BY <1>3
<1>5. /\ OneMore \in Hold /\ OneMore.receipt.status = held.receipt.status
      /\ OneMore.owned = held.owned
  <2> DEFINE n == held.receipt.cases + 1
  <2>1. n \in Nat
    BY <1>4
  <2>2. OneMore = [held EXCEPT !.receipt["cases"] = n]
    BY DEF OneMore, Noted
  <2> HIDE DEF n
  <2> QED
    BY <2>1, <2>2 DEF Hold, Paper
<1> QED
  BY <1>1, <1>2, <1>5

LEMMA BoxIs ==
  ASSUME NEW h \in Hold
  PROVE  /\ Empty(h) \in Hold /\ Empty(h).receipt = h.receipt /\ Empty(h).box = "none"
         /\ \A b \in {"running", "ended", "removed"} :
              /\ [h EXCEPT !.box = b] \in Hold /\ [h EXCEPT !.box = b].receipt = h.receipt
              /\ [h EXCEPT !.box = b].box = b
         /\ \A e \in {"zero", "nonzero", "unapplied", "unmarked", "timed_out"} :
              /\ [h EXCEPT !.box = "ended", !.exit = e] \in Hold
              /\ [h EXCEPT !.box = "ended", !.exit = e].receipt = h.receipt
              /\ [h EXCEPT !.box = "ended", !.exit = e].box = "ended"
BY DEF Empty, Hold

------------------------------------------------------------------------------
(* The oracles. *)

LEMMA OracleOwn ==
  ASSUME ToolInv, NEW t \in Oracle, Turn(t), ToolTypes',
         tool' = t =>
           /\ paper'[t].status = "started" /\ held'.receipt.status = "started"
           /\ "container" \in present' => held'.box \in {"running", "ended"}
           /\ pc' \in {"assets", "inputs", "empty"} => held'.box = "none",
         paper'[t].status = "complete" => "container" \notin present'
  PROVE  ToolInv'
<1>1. t \in Tool /\ t \notin {"native", "claude", "axern"} /\ "none" \notin Oracle
  BY DEF Oracle, Tool
<1>2. Order' /\ NativeInv' /\ ClaudeInv' /\ AxernInv'
  BY <1>1, TurnKeeps
<1>3. /\ task' = task /\ task = TaskOf[t] /\ tool' \in {"none", t}
      /\ \A u \in Tool \ {t} : paper'[u] = paper[u]
      /\ paper'[t].status # "none"
  BY DEF Turn
<1>4. \A u \in Oracle : u # t => TaskOf[u] # TaskOf[t] /\ u \in Tool
  BY DEF Oracle, Tool, TaskOf
<1>5. \A u \in Oracle : u # t => paper'[u].status = "none"
  BY <1>3, <1>4 DEF ToolInv, Order, Launched
<1>6. OracleInv'
  BY <1>1, <1>3, <1>4, <1>5 DEF OracleInv, Launched
<1> QED
  BY <1>2, <1>6 DEF ToolInv

\* It goes on or stops, and waits for no container unless it runs one.
LEMMA OracleStep ==
  ASSUME ToolInv, task' = task, tool \in Oracle, UNCHANGED <<work, bound>>,
         NEW h \in Hold, h.receipt.status = "started", Keep(h) \/ Save(h),
         tool' = tool \/ (tool' = "none" /\ pc' = "idle"),
         present' \subseteq present \cup {"container"},
         tool' = tool /\ "container" \in present' => h.box \in {"running", "ended"},
         tool' = tool /\ pc' \in {"assets", "inputs", "empty"} => h.box = "none"
  PROVE  ToolInv'
<1>1. tool \in Tool /\ tool # "none" /\ Makes[tool] = {"container"}
  BY DEF Oracle, Tool, Makes
<1>2. ToolTypes /\ Launched(tool) /\ task = TaskOf[tool] /\ paper[tool].status = "started"
  BY <1>1 DEF ToolInv, Order, OracleInv
<1>3. /\ held' = h /\ paper' \in [Tool -> Paper] /\ paper'[tool].status = "started"
      /\ \A u \in Tool \ {tool} : paper'[u] = paper[u]
  BY <1>1, <1>2, SaveIs DEF Keep, ToolTypes
<1>4. Turn(tool)
  BY <1>1, <1>2, <1>3 DEF Turn, ToolInv
<1>5. present' \subseteq Resource
  BY <1>2 DEF ToolTypes, Resource
<1>6. ToolTypes'
  BY <1>1, <1>2, <1>3, <1>5 DEF ToolTypes
<1> QED
  BY <1>3, <1>4, <1>6, OracleOwn

LEMMA OracleStart ==
  ASSUME ToolInv, task' = task, NEW t \in Oracle, task = TaskOf[t], Launch(t),
         UNCHANGED <<present, work, bound>>, pc' # "idle"
  PROVE  ToolInv'
<1>1. t \in Tool /\ t # "none" /\ Makes[t] = {"container"} /\ t \notin {"parity", "claude", "axern"}
  BY DEF Oracle, Tool, Makes
<1>2. ToolTypes /\ "container" \notin present'
  <2>1. ~Launched(t)
    BY DEF Launch, Launched
  <2> QED
    BY <2>1 DEF ToolInv, OracleInv
<1>3. /\ tool = "none" /\ ~Launched(t) /\ tool' = t /\ held' = Started
      /\ paper' \in [Tool -> Paper] /\ paper'[t].status = "started"
      /\ \A u \in Tool \ {t} : paper'[u] = paper[u]
  BY <1>1, <1>2, LaunchIs
<1>4. Turn(t)
  BY <1>1, <1>3, StartedIs DEF Turn
<1>5. ToolTypes'
  BY <1>1, <1>2, <1>3, StartedIs DEF ToolTypes
<1> QED
  BY <1>2, <1>3, <1>4, <1>5, StartedIs, OracleOwn

\* The last receipt says that it is complete.
LEMMA OracleQuit ==
  ASSUME ToolInv, task' = task, tool \in Oracle, UNCHANGED <<present, work, bound>>,
         "container" \notin present, Quit([OneMore EXCEPT !.receipt.status = "complete"])
  PROVE  ToolInv'
<1> DEFINE h == [OneMore EXCEPT !.receipt.status = "complete"]
<1>1. tool \in Tool /\ tool # "none" /\ tool \notin {"axern"}
  BY DEF Oracle, Tool
<1>2. ToolTypes /\ Launched(tool) /\ task = TaskOf[tool] /\ held \in Hold
  BY <1>1 DEF ToolInv, Order, ToolTypes
<1>3. h \in Hold /\ h.receipt.status = "complete"
  <2> DEFINE g == OneMore
  <2>1. g \in Hold
    BY <1>2, HeldIs
  <2> HIDE DEF g
  <2>2. [g EXCEPT !.receipt.status = "complete"] \in Hold
        /\ [g EXCEPT !.receipt.status = "complete"].receipt.status = "complete"
    BY <2>1 DEF Hold, Paper
  <2> QED
    BY <2>2 DEF g
<1>4. Save(h) /\ tool' = "none" /\ pc' = "idle"
  BY DEF Quit, Goto
<1> HIDE DEF h
<1>5. /\ held' = h /\ paper' \in [Tool -> Paper] /\ paper'[tool].status = "complete"
      /\ \A u \in Tool \ {tool} : paper'[u] = paper[u]
  BY <1>1, <1>2, <1>3, <1>4, SaveIs
<1>6. Turn(tool)
  BY <1>1, <1>2, <1>4, <1>5 DEF Turn
<1>7. ToolTypes'
  BY <1>2, <1>3, <1>4, <1>5 DEF ToolTypes
<1> QED
  BY <1>1, <1>4, <1>6, <1>7, OracleOwn

LEMMA OracleKnows ==
  ASSUME ToolInv, tool \in Oracle
  PROVE  /\ held \in Hold /\ held.receipt.status = "started" /\ tool # "none"
         /\ "container" \in present => held.box \in {"running", "ended"}
         /\ pc \in {"assets", "inputs", "empty"} => held.box = "none"
BY DEF ToolInv, ToolTypes, OracleInv, Oracle

LEMMA OracleStopsStep ==
  ASSUME ToolInv, task' = task, tool \in Oracle, OracleStops
  PROVE  ToolInv'
<1>1. /\ Keep(held) /\ tool' = "none" /\ pc' = "idle" /\ present' = present
      /\ UNCHANGED <<work, bound>>
  BY DEF OracleStops, Stop, Goto, Rested
<1>2. held \in Hold /\ held.receipt.status = "started" /\ tool # "none"
  BY OracleKnows
<1> QED
  BY <1>1, <1>2, OracleStep

LEMMA DockerRunStep ==
  ASSUME ToolInv, task' = task, tool \in Oracle, pc \in {"audit", "install", "case"}, DockerRun
  PROVE  ToolInv'
<1> DEFINE h == [held EXCEPT !.box = "running"]
<1>1. /\ Keep(h) /\ tool' = tool /\ pc' = pc /\ present' = present \cup {"container"}
      /\ UNCHANGED <<work, bound>>
  BY DEF DockerRun, Rested
<1>2. h \in Hold /\ h.receipt.status = "started" /\ h.box = "running"
  BY OracleKnows, BoxIs
<1> HIDE DEF h
<1> QED
  BY <1>1, <1>2, OracleStep

\* The container of a step is gone, and the next step begins.
LEMMA ProceedStep ==
  ASSUME ToolInv, task' = task, tool \in Oracle, NEW step, Proceed(step),
         NEW h \in Hold, h.receipt.status = "started", h.box = "none", Keep(h) \/ Save(h),
         "container" \notin present
  PROVE  ToolInv'
<1>1. /\ tool' = tool /\ pc' = step /\ present' = present /\ UNCHANGED <<work, bound>>
  BY DEF Proceed, Goto, Rested
<1> QED
  BY <1>1, OracleStep

LEMMA ContainerSteps ==
  ASSUME ToolInv, task' = task, OracleContainer
  PROVE  ToolInv'
<1>1. tool \in Oracle /\ UNCHANGED <<work, bound>>
  BY DEF OracleContainer, ContainerEnds, EnsureRemoved, Rested
<1>2. /\ held \in Hold /\ held.receipt.status = "started" /\ tool # "none"
      /\ pc \in {"assets", "inputs", "empty"} => held.box = "none"
  BY <1>1, OracleKnows
<1>3. CASE ContainerEnds
  <2>1. PICK e \in {"zero", "nonzero", "unapplied", "unmarked", "timed_out"} :
          /\ Keep([held EXCEPT !.box = "ended", !.exit = e])
          /\ present' \subseteq present /\ tool' = tool /\ pc' = pc /\ held.box = "running"
    BY <1>3 DEF ContainerEnds
  <2> DEFINE h == [held EXCEPT !.box = "ended", !.exit = e]
  <2>2. h \in Hold /\ h.receipt.status = "started" /\ h.box = "ended"
    BY <1>2, BoxIs
  <2>3. Keep(h)
    BY <2>1
  <2> HIDE DEF h
  <2> QED
    BY <1>1, <1>2, <2>1, <2>2, <2>3, OracleStep
<1>4. CASE EnsureRemoved
  <2>1. CASE /\ present' = present \ {"container"} /\ UNCHANGED <<tool, pc>>
             /\ Keep([held EXCEPT !.box = "removed"])
    <3> DEFINE h == [held EXCEPT !.box = "removed"]
    <3>1. h \in Hold /\ h.receipt.status = "started" /\ h.box = "removed"
      BY <1>2, BoxIs
    <3>2. Keep(h) /\ pc \notin {"assets", "inputs", "empty"}
      BY <1>2, <1>4, <2>1 DEF EnsureRemoved
    <3> HIDE DEF h
    <3> QED
      BY <1>1, <2>1, <3>1, <3>2, OracleStep
  <2>2. CASE UNCHANGED present /\ Stop
    <3>1. OracleStops
      BY <1>1, <2>2 DEF OracleStops, Rested
    <3> QED
      BY <1>1, <3>1, OracleStopsStep
  <2> QED
    BY <1>4, <2>1, <2>2 DEF EnsureRemoved
<1> QED
  BY <1>3, <1>4 DEF OracleContainer

\* Neither of the receipts a judged step goes on with says more than that it started.
LEMMA JudgedIs ==
  ASSUME ToolInv, tool \in Oracle
  PROVE  /\ Empty(held) \in Hold /\ Empty(held).receipt.status = "started"
         /\ Empty(held).box = "none"
         /\ Empty(OneMore) \in Hold /\ Empty(OneMore).receipt.status = "started"
         /\ Empty(OneMore).box = "none"
         /\ held.box \in {"none", "removed"} => "container" \notin present
<1>1. held \in Hold /\ held.receipt.status = "started"
  BY OracleKnows
<1>2. OneMore \in Hold /\ OneMore.receipt.status = "started"
  BY <1>1, HeldIs
<1>3. held.box \in {"none", "removed"} => "container" \notin present
  BY OracleKnows
<1> QED
  BY <1>1, <1>2, <1>3, BoxIs

LEMMA OracleSteps ==
  ASSUME ToolInv, task' = task,
         \/ task = "flask" /\ FlaskOracle
         \/ task = "django" /\ DjangoOracle
  PROVE  ToolInv'
<1>1. "flask_oracle" \in Oracle /\ "django_oracle" \in Oracle
  BY DEF Oracle
<1>2. TaskOf["flask_oracle"] = "flask" /\ TaskOf["django_oracle"] = "django"
  BY DEF TaskOf, Tool
<1>3. CASE task = "flask" /\ StartFlaskOracle
  <2>1. Launch("flask_oracle") /\ pc' = "assets" /\ UNCHANGED <<present, work, bound>>
    BY <1>3 DEF StartFlaskOracle, Goto, Rested
  <2> QED
    BY <1>1, <1>2, <1>3, <2>1, OracleStart
<1>4. CASE task = "django" /\ StartDjangoOracle
  <2>1. Launch("django_oracle") /\ pc' = "inputs" /\ UNCHANGED <<present, work, bound>>
    BY <1>4 DEF StartDjangoOracle, Goto, Rested
  <2> QED
    BY <1>1, <1>2, <1>4, <2>1, OracleStart
<1>5. CASE tool \in Oracle /\ OracleStops
  BY <1>5, OracleStopsStep
<1>6. CASE tool \in Oracle /\ pc \in {"assets", "inputs"} /\ Keep(held) /\ \E s : Proceed(s)
  <2>1. held \in Hold /\ held.receipt.status = "started" /\ held.box = "none"
        /\ "container" \notin present
    BY <1>6, OracleKnows
  <2> QED
    BY <1>6, <2>1, ProceedStep
<1>7. CASE tool \in Oracle /\ pc \in {"audit", "install", "case"} /\ DockerRun
  BY <1>7, DockerRunStep
<1>8. CASE /\ tool \in Oracle /\ held.box = "removed" /\ \E s : Proceed(s)
           /\ Save(Empty(held)) \/ Save(Empty(OneMore))
  <2>1. PICK s : Proceed(s)
    BY <1>8
  <2>2. CASE Save(Empty(held))
    <3> DEFINE h == Empty(held)
    <3>1. h \in Hold /\ h.receipt.status = "started" /\ h.box = "none" /\ "container" \notin present
      BY <1>8, JudgedIs
    <3>2. Save(h)
      BY <2>2
    <3> HIDE DEF h
    <3> QED
      BY <1>8, <2>1, <3>1, <3>2, ProceedStep
  <2>3. CASE Save(Empty(OneMore))
    <3> DEFINE h == Empty(OneMore)
    <3>1. h \in Hold /\ h.receipt.status = "started" /\ h.box = "none" /\ "container" \notin present
      BY <1>8, JudgedIs
    <3>2. Save(h)
      BY <2>3
    <3> HIDE DEF h
    <3> QED
      BY <1>8, <2>1, <3>1, <3>2, ProceedStep
  <2> QED
    BY <1>8, <2>2, <2>3
<1>9. CASE /\ tool \in Oracle /\ (pc = "empty" \/ held.box = "removed")
           /\ Quit([OneMore EXCEPT !.receipt.status = "complete"])
           /\ UNCHANGED present /\ Rested
  <2>1. "container" \notin present
    BY <1>9, OracleKnows
  <2> QED
    BY <1>9, <2>1, OracleQuit DEF Rested
<1>10. CASE task = "flask" /\ FlaskOracle
  <2>1. CASE FlaskAssets
    BY <1>1, <1>5, <1>6, <2>1 DEF FlaskAssets
  <2>2. CASE FlaskInputs
    BY <1>1, <1>5, <1>6, <2>2 DEF FlaskInputs
  <2>3. CASE FlaskAuditRun \/ FlaskInstallRun \/ FlaskCaseRun
    BY <1>1, <1>7, <2>3 DEF FlaskAuditRun, FlaskInstallRun, FlaskCaseRun
  <2>4. CASE FlaskAudited
    BY <1>1, <1>5, <1>8, <2>4 DEF FlaskAudited, Judging
  <2>5. CASE FlaskInstalled
    BY <1>1, <1>5, <1>8, <2>5 DEF FlaskInstalled, Judging
  <2>6. CASE FlaskGraded
    <3>1. tool \in Oracle /\ held.box = "removed"
      BY <1>1, <2>6 DEF FlaskGraded, Judging
    <3>2. (\E s : Save(Empty(OneMore)) /\ Proceed(s)) \/ OracleStops
      BY <2>6, Zenon DEF FlaskGraded
    <3> QED
      BY <1>5, <1>8, <3>1, <3>2
  <2>7. CASE FlaskEmpty
    BY <1>1, <1>5, <1>9, <2>7 DEF FlaskEmpty
  <2> QED
    BY <1>3, <1>10, <2>1, <2>2, <2>3, <2>4, <2>5, <2>6, <2>7 DEF FlaskOracle
<1>11. CASE task = "django" /\ DjangoOracle
  <2>1. CASE DjangoInputs
    BY <1>1, <1>5, <1>6, <2>1 DEF DjangoInputs
  <2>2. CASE DjangoAuditRun \/ DjangoCaseRun
    BY <1>1, <1>7, <2>2 DEF DjangoAuditRun, DjangoCaseRun
  <2>3. CASE DjangoAudited
    BY <1>1, <1>5, <1>8, <2>3 DEF DjangoAudited, Judging
  <2>4. CASE DjangoGraded
    <3>1. tool \in Oracle /\ held.box = "removed"
      BY <1>1, <2>4 DEF DjangoGraded, Judging
    <3>2. \/ \E s : Save(Empty(OneMore)) /\ Proceed(s)
          \/ /\ Quit([OneMore EXCEPT !.receipt.status = "complete"])
             /\ UNCHANGED present /\ Rested
          \/ OracleStops
      BY <2>4, Zenon DEF DjangoGraded
    <3> QED
      BY <1>5, <1>8, <1>9, <3>1, <3>2
  <2> QED
    BY <1>4, <1>11, <2>1, <2>2, <2>3, <2>4 DEF DjangoOracle
<1> QED
  BY <1>10, <1>11

------------------------------------------------------------------------------
(* The native run of seqtk. *)

LEMMA OwnIs ==
  ASSUME NEW h \in Hold, NEW r \in Resource
  PROVE  /\ [h EXCEPT !.owned = @ \cup {r}] \in Hold
         /\ [h EXCEPT !.owned = @ \cup {r}].receipt = h.receipt
         /\ [h EXCEPT !.owned = @ \cup {r}].owned = h.owned \cup {r}
         /\ [h EXCEPT !.owned = @ \ {r}] \in Hold
         /\ [h EXCEPT !.owned = @ \ {r}].receipt = h.receipt
         /\ [h EXCEPT !.owned = @ \ {r}].owned = h.owned \ {r}
BY DEF Hold

LEMMA NativeKnows ==
  ASSUME ToolInv, tool = "native"
  PROVE  /\ ToolTypes /\ held \in Hold /\ task = "seqtk" /\ "native" \in Tool
         /\ held.receipt.status # "none" /\ paper["native"].status = "started"
         /\ pc # "cleanup" => held.receipt.status = "started"
         /\ (pc # "cleanup" \/ held.receipt.status = "complete") =>
              present \cap Built \subseteq held.owned
<1>1. "native" \in Tool /\ TaskOf["native"] = "seqtk"
  BY DEF Tool, TaskOf, Oracle
<1> QED
  BY <1>1 DEF ToolInv, ToolTypes, Order, NativeInv

LEMMA NativeOwn ==
  ASSUME ToolInv, Turn("native"), ToolTypes', NativeInv'
  PROVE  ToolInv'
<1>1. "native" \in Tool /\ "native" \notin Oracle
  BY DEF Tool, Oracle
<1> QED
  BY <1>1, TurnKeeps DEF ToolInv

LEMMA NativeStep ==
  ASSUME ToolInv, task' = task, tool = "native", UNCHANGED <<work, bound>>,
         NEW h \in Hold, h.receipt.status # "none", Keep(h),
         tool' = tool \/ (tool' = "none" /\ pc' = "idle"),
         present' \subseteq present \cup Built,
         tool' = tool =>
           /\ pc' # "cleanup" => h.receipt.status = "started"
           /\ (pc' # "cleanup" \/ h.receipt.status = "complete") =>
                present' \cap Built \subseteq h.owned
  PROVE  ToolInv'
<1>1. /\ "native" \in Tool /\ Makes["native"] = Built /\ TaskOf["native"] = "seqtk"
      /\ Built \subseteq Resource
  BY DEF Tool, Makes, Oracle, TaskOf, Built, Resource
<1>2. ToolTypes /\ task = "seqtk" /\ paper["native"].status = "started"
  BY NativeKnows
<1>3. held' = h /\ paper' = paper
  BY DEF Keep
<1>4. Turn("native")
  BY <1>1, <1>2, <1>3 DEF Turn
<1>5. ToolTypes'
  BY <1>1, <1>2, <1>3 DEF ToolTypes
<1>6. NativeInv'
  BY <1>2, <1>3 DEF NativeInv, Launched
<1> QED
  BY <1>4, <1>5, <1>6, NativeOwn

LEMMA NativeStops ==
  ASSUME ToolInv, task' = task, tool = "native", UNCHANGED <<work, bound, present>>, Stop
  PROVE  ToolInv'
<1>1. Keep(held) /\ tool' = "none" /\ pc' = "idle" /\ tool' # tool
  BY DEF Stop, Goto
<1>2. held \in Hold /\ held.receipt.status # "none"
  BY NativeKnows
<1> QED
  BY <1>1, <1>2, NativeStep

\* A failure leads to the cleanup, with a receipt that does not say it is complete.
LEMMA NativeFailsStep ==
  ASSUME ToolInv, task' = task, tool = "native", pc # "cleanup", NativeContinues, NativeFails,
         present' \subseteq present \cup Built
  PROVE  ToolInv'
<1>1. Keep(held) /\ pc' = "cleanup" /\ tool' = tool /\ UNCHANGED <<work, bound>>
  BY DEF NativeFails, NativeContinues, Goto, Rested
<1>2. held \in Hold /\ held.receipt.status = "started"
  BY NativeKnows
<1> QED
  BY <1>1, <1>2, NativeStep

LEMMA NativeGoes ==
  ASSUME ToolInv, task' = task, tool = "native", pc # "cleanup", tool' = tool,
         UNCHANGED <<work, bound>>, pc' # "cleanup",
         NEW h \in Hold, h.receipt.status = "started", Keep(h),
         NEW r \in Built,
         \/ present' = present \cup {r} /\ h.owned = held.owned \cup {r}
         \/ present' = present \ {r} /\ h.owned = held.owned \ {r}
         \/ present' = present /\ h.owned = held.owned
  PROVE  ToolInv'
<1>1. present \cap Built \subseteq held.owned
  BY NativeKnows
<1>2. present' \cap Built \subseteq h.owned /\ present' \subseteq present \cup Built
  BY <1>1
<1> QED
  BY <1>2, NativeStep

LEMMA NativeCreatesContainer ==
  ASSUME ToolInv, task' = task, tool = "native", pc # "cleanup", NativeContinues,
         NEW to, to # "cleanup", CreatesContainer(to)
  PROVE  ToolInv'
<1>1. tool' = tool /\ UNCHANGED <<work, bound>> /\ "container" \in Built /\ "container" \in Resource
  BY DEF NativeContinues, Rested, Built, Resource
<1>2. held \in Hold /\ held.receipt.status = "started"
  BY NativeKnows
<1>3. CASE present' = present \cup {"container"} /\ Keep(Own("container")) /\ Goto(to)
  <2> DEFINE h == Own("container")
  <2>1. h \in Hold /\ h.receipt.status = "started" /\ h.owned = held.owned \cup {"container"}
    BY <1>1, <1>2, OwnIs DEF Own
  <2>2. Keep(h) /\ pc' = to
    BY <1>3 DEF Goto
  <2> HIDE DEF h
  <2> QED
    BY <1>1, <1>3, <2>1, <2>2, NativeGoes
<1>4. CASE present' \in {present, present \cup {"container"}} /\ NativeFails
  BY <1>1, <1>4, NativeFailsStep
<1> QED
  BY <1>3, <1>4 DEF CreatesContainer

LEMMA NativeRemovesContainer ==
  ASSUME ToolInv, task' = task, tool = "native", pc # "cleanup", NativeContinues,
         NEW to, to # "cleanup", NEW h \in Hold, h.receipt.status = "started",
         h.owned = held.owned \ {"container"}, RemovesContainer(h, to)
  PROVE  ToolInv'
<1>1. tool' = tool /\ UNCHANGED <<work, bound>> /\ "container" \in Built
  BY DEF NativeContinues, Rested, Built
<1>2. CASE present' = present \ {"container"} /\ Keep(h) /\ Goto(to)
  BY <1>1, <1>2, NativeGoes DEF Goto
<1>3. CASE present' \in {present, present \ {"container"}} /\ NativeFails
  BY <1>3, NativeFailsStep
<1> QED
  BY <1>2, <1>3 DEF RemovesContainer

LEMMA DoneIs ==
  ASSUME held \in Hold, held.receipt.status = "started"
  PROVE  /\ Done \in Hold /\ Done.receipt.status = "started"
         /\ Done.owned = held.owned \ {"container"}
<1> DEFINE g == OneMore
<1>1. g \in Hold /\ g.receipt.status = "started" /\ g.owned = held.owned
  BY HeldIs
<1>2. Done = [g EXCEPT !.owned = @ \ {"container"}, !.exit = "none"]
  BY DEF Done
<1> HIDE DEF g
<1> QED
  BY <1>1, <1>2 DEF Hold

LEMMA NativeCleans ==
  ASSUME ToolInv, task' = task, NativeCleanup
  PROVE  ToolInv'
<1>1. tool = "native" /\ pc = "cleanup" /\ UNCHANGED <<work, bound>>
  BY DEF NativeCleanup, Native, Rested
<1>2. /\ ToolTypes /\ held \in Hold /\ task = "seqtk" /\ held.receipt.status # "none"
      /\ "native" \in Tool
      /\ held.receipt.status = "complete" => present \cap Built \subseteq held.owned
  BY <1>1, NativeKnows
<1>3. PICK removed \in SUBSET held.owned :
        /\ present' = present \ removed
        /\ Quit(Noted("cleanup", IF removed = held.owned THEN "completed" ELSE "failed"))
  BY DEF NativeCleanup
<1> DEFINE v == IF removed = held.owned THEN "completed" ELSE "failed"
           h == Noted("cleanup", v)
<1>4. v \in {"completed", "failed"} /\ (v = "completed" => removed = held.owned)
  OBVIOUS
<1>5. Save(h) /\ tool' = "none" /\ pc' = "idle"
  BY <1>3 DEF Quit, Goto
<1> HIDE DEF v
<1>6. h \in Hold /\ h.receipt.status = held.receipt.status /\ h.receipt.cleanup = v
  BY <1>2, <1>4, HeldIs
<1> HIDE DEF h
<1>7. /\ held' = h /\ paper' \in [Tool -> Paper] /\ paper'["native"] = h.receipt
      /\ \A u \in Tool \ {"native"} : paper'[u] = paper[u]
  BY <1>1, <1>2, <1>5, <1>6, SaveIs
<1>8. TaskOf["native"] = "seqtk"
  BY DEF TaskOf, Tool, Oracle
<1>9. Turn("native")
  BY <1>1, <1>2, <1>3, <1>5, <1>6, <1>7, <1>8 DEF Turn
<1>10. ToolTypes'
  BY <1>1, <1>2, <1>3, <1>5, <1>6, <1>7 DEF ToolTypes
<1>11. (h.receipt.status = "complete" /\ h.receipt.cleanup = "completed") =>
         present' \cap Built = {}
  BY <1>2, <1>3, <1>4, <1>6
<1>12. NativeInv'
  BY <1>2, <1>5, <1>6, <1>7, <1>11 DEF NativeInv, Launched
<1> QED
  BY <1>9, <1>10, <1>12, NativeOwn

LEMMA NativeSteps ==
  ASSUME ToolInv, task' = task, task = "seqtk", SeqtkNative
  PROVE  ToolInv'
<1>1. CASE StartNative
  <2>1. Launch("native") /\ pc' = "inputs" /\ UNCHANGED <<present, work, bound>>
    BY <1>1 DEF StartNative, Goto, Rested
  <2>2. "native" \in Tool /\ TaskOf["native"] = "seqtk"
    BY DEF Tool, TaskOf, Oracle
  <2>3. ToolTypes
    BY DEF ToolInv
  <2>4. /\ tool = "none" /\ ~Launched("native") /\ tool' = "native" /\ held' = Started
        /\ paper' \in [Tool -> Paper] /\ paper'["native"].status = "started"
        /\ \A u \in Tool \ {"native"} : paper'[u] = paper[u]
    BY <2>1, <2>2, <2>3, LaunchIs
  <2>5. present \cap Built = {}
    BY <2>4 DEF ToolInv, NativeInv
  <2>6. Turn("native")
    BY <2>1, <2>2, <2>4, StartedIs DEF Turn
  <2>7. ToolTypes'
    BY <2>1, <2>2, <2>3, <2>4, StartedIs DEF ToolTypes
  <2>8. NativeInv'
    BY <2>1, <2>4, <2>5, StartedIs DEF NativeInv, Launched
  <2> QED
    BY <2>6, <2>7, <2>8, NativeOwn
<1>2. CASE NativeCleanup
  BY <1>2, NativeCleans
<1>3. CASE ~StartNative /\ ~NativeCleanup
  <2>1. /\ tool = "native" /\ pc # "cleanup" /\ UNCHANGED <<work, bound>>
        /\ held \in Hold /\ held.receipt.status = "started"
    <3>1. tool = "native" /\ pc # "cleanup" /\ UNCHANGED <<work, bound>>
      BY <1>3, Zenon
         DEF SeqtkNative, NativeInputs, NativeImage, NativeCreates, NativeCompiles,
             NativeRefuses, NativeCommits, NativeRemoves, NativeBranch, NativeTests,
             NativeResult, NativeCompares, Native, NativeContinues, Rested
    <3> QED
      BY <3>1, NativeKnows
  <2>2. "image" \in Built /\ "image" \in Resource /\ "container" \in Resource
    BY DEF Built, Resource
  <2>3. ASSUME Keep(held), UNCHANGED <<tool, present>>, pc' # "cleanup" PROVE ToolInv'
    BY <2>1, <2>2, <2>3, NativeGoes
  <2>4. CASE NativeInputs \/ NativeImage
    <3>1. CASE Stop /\ UNCHANGED present
      BY <2>1, <3>1, NativeStops
    <3>2. CASE Keep(held) /\ UNCHANGED <<tool, present>> /\ pc' # "cleanup"
      BY <2>3, <3>2
    <3> QED
      BY <2>4, <3>1, <3>2 DEF NativeInputs, NativeImage, Goto
  <2>5. CASE NativeCreates \/ NativeBranch
    BY <2>1, <2>5, NativeCreatesContainer DEF NativeCreates, NativeBranch
  <2>6. CASE NativeCompiles
    <3>1. CASE NativeFails /\ UNCHANGED present
      BY <2>1, <2>6, <3>1, NativeFailsStep DEF NativeCompiles
    <3>2. CASE \E code \in {"zero", "nonzero"} :
                 Keep([held EXCEPT !.exit = code]) /\ Goto("compiled")
      <4>1. PICK code \in {"zero", "nonzero"} :
                 Keep([held EXCEPT !.exit = code]) /\ Goto("compiled")
        BY <3>2
      <4> DEFINE h == [held EXCEPT !.exit = code]
      <4>2. h \in Hold /\ h.receipt.status = "started" /\ h.owned = held.owned
        BY <2>1 DEF Hold
      <4>3. Keep(h) /\ pc' = "compiled" /\ UNCHANGED <<tool, present>>
        BY <2>6, <4>1 DEF Goto, NativeCompiles, NativeContinues
      <4> HIDE DEF h
      <4> QED
        BY <2>1, <2>2, <4>2, <4>3, NativeGoes
    <3> QED
      BY <2>6, <3>1, <3>2 DEF NativeCompiles
  <2>7. CASE NativeRefuses \/ NativeResult
    <3>1. NextCase(Done) # "cleanup" /\ RemovesContainer(Done, NextCase(Done)) /\ NativeContinues
      BY <2>7 DEF NativeRefuses, NativeResult, NextCase
    <3>2. Done \in Hold /\ Done.receipt.status = "started" /\ Done.owned = held.owned \ {"container"}
      BY <2>1, DoneIs
    <3> QED
      BY <2>1, <3>1, <3>2, NativeRemovesContainer
  <2>8. CASE NativeCommits
    <3>1. CASE present' = present \cup {"image"} /\ Keep(Own("image")) /\ Goto("remove")
      <4> DEFINE h == Own("image")
      <4>1. h \in Hold /\ h.receipt.status = "started" /\ h.owned = held.owned \cup {"image"}
        BY <2>1, <2>2, OwnIs DEF Own
      <4>2. Keep(h) /\ pc' = "remove" /\ tool' = tool
        BY <2>8, <3>1 DEF Goto, NativeCommits, NativeContinues
      <4> HIDE DEF h
      <4> QED
        BY <2>1, <2>2, <3>1, <4>1, <4>2, NativeGoes
    <3>2. CASE present' \in {present, present \cup {"image"}} /\ NativeFails
      BY <2>1, <2>2, <2>8, <3>2, NativeFailsStep DEF NativeCommits
    <3> QED
      BY <2>8, <3>1, <3>2 DEF NativeCommits
  <2>9. CASE NativeRemoves
    <3> DEFINE h == Disown("container")
    <3>1. h \in Hold /\ h.receipt.status = "started" /\ h.owned = held.owned \ {"container"}
      BY <2>1, <2>2, OwnIs DEF Disown
    <3>2. RemovesContainer(h, "branch") /\ NativeContinues
      BY <2>9 DEF NativeRemoves
    <3> HIDE DEF h
    <3> QED
      BY <2>1, <3>1, <3>2, NativeRemovesContainer
  <2>10. CASE NativeTests
    <3>1. CASE NativeFails
      BY <2>1, <2>10, <3>1, NativeFailsStep DEF NativeTests
    <3>2. CASE Keep(held) /\ Goto("result")
      BY <2>3, <2>10, <3>2 DEF NativeTests, NativeContinues, Goto
    <3> QED
      BY <2>10, <3>1, <3>2 DEF NativeTests
  <2>11. CASE NativeCompares
    <3>1. /\ tool' = tool /\ pc' = "cleanup" /\ present' = present
          /\ \/ Keep(Noted("status", "complete"))
             \/ Keep(held)
      BY <2>11 DEF NativeCompares, NativeContinues, Goto
    <3>2. present \cap Built \subseteq held.owned
      BY <2>1, NativeKnows
    <3>3. CASE Keep(held)
      BY <2>1, <3>1, <3>2, <3>3, NativeStep
    <3>4. CASE Keep(Noted("status", "complete"))
      <4> DEFINE h == Noted("status", "complete")
      <4>1. h \in Hold /\ h.receipt.status = "complete" /\ h.owned = held.owned
        BY <2>1, HeldIs
      <4>2. Keep(h)
        BY <3>4
      <4> HIDE DEF h
      <4> QED
        BY <2>1, <3>1, <3>2, <4>1, <4>2, NativeStep
    <3> QED
      BY <3>1, <3>3, <3>4
  <2> QED
    BY <1>3, <2>4, <2>5, <2>6, <2>7, <2>8, <2>9, <2>10, <2>11 DEF SeqtkNative
<1> QED
  BY <1>1, <1>2, <1>3

------------------------------------------------------------------------------
(* The acceptance of Flask. *)

LEMMA FlaskTool ==
  ASSUME ToolInv, tool \in {"parity", "claude"}
  PROVE  /\ ToolTypes /\ held \in Hold /\ task = "flask" /\ tool \in Tool /\ tool # "none"
         /\ TaskOf[tool] = "flask" /\ held.receipt.status # "none"
         /\ paper[tool].status # "none" /\ work[5] = "none" /\ work[6] = "none"
         /\ Failed \in Hold /\ Failed.receipt.status = "failed"
<1>1. tool \in Tool /\ TaskOf[tool] = "flask" /\ tool # "none"
  BY DEF Tool, TaskOf
<1>2. held \in Hold /\ task = "flask"
  BY <1>1 DEF ToolInv, ToolTypes, Order
<1>3. Failed \in Hold /\ Failed.receipt.status = "failed"
  BY <1>2, HeldIs DEF Failed
<1> QED
  BY <1>1, <1>2, <1>3 DEF ToolInv, ToolTypes, Order, ClaudeInv, Launched

LEMMA FreshIs ==
  /\ Fresh \in [Stage -> {"none", "live", "succeeded", "failed"}]
  /\ \A s \in Stage : Fresh[s] = "none"
BY DEF Fresh, Stage

\* A step of either tool of the acceptance, from its launch on.
LEMMA FlaskToolTurn ==
  ASSUME ToolInv, task' = task, tool \in {"parity", "claude"},
         tool' = tool \/ (tool' = "none" /\ pc' = "idle"),
         NEW h \in Hold, h.receipt.status # "none", held' = h,
         NEW r \in Paper, r.status # "none", paper' \in {paper, [paper EXCEPT ![tool] = r]},
         UNCHANGED <<work, bound>> \/ (work' = Fresh /\ bound' = {}),
         present' \subseteq present \cup Makes[tool]
  PROVE  /\ Turn(tool) /\ ToolTypes'
         /\ paper'[tool] \in {paper[tool], r}
<1>1. /\ ToolTypes /\ task = "flask" /\ tool \in Tool /\ tool # "none" /\ TaskOf[tool] = "flask"
      /\ paper[tool].status # "none" /\ work[5] = "none" /\ work[6] = "none"
  BY FlaskTool
<1>2. /\ paper' \in [Tool -> Paper] /\ paper'[tool] \in {paper[tool], r}
      /\ \A u \in Tool \ {tool} : paper'[u] = paper[u]
  BY <1>1 DEF ToolTypes
<1>3. \A s \in {5, 6} : work'[s] = "none"
  BY <1>1, FreshIs DEF Stage
<1>4. paper'[tool].status # "none"
  BY <1>1, <1>2
<1>5. Turn(tool)
  BY <1>1, <1>2, <1>3, <1>4 DEF Turn
<1>6. work' \in [Stage -> {"none", "live", "succeeded", "failed"}] /\ bound' \subseteq Stage
  BY <1>1, FreshIs DEF ToolTypes
<1>7. present' \subseteq Resource
  BY <1>1 DEF ToolTypes, Makes, Model, Resource, Oracle, Tool
<1>8. ToolTypes'
  BY <1>1, <1>2, <1>6, <1>7 DEF ToolTypes
<1> QED
  BY <1>2, <1>5, <1>8

LEMMA ParityOwn ==
  ASSUME ToolInv, Turn("parity"), ToolTypes'
  PROVE  ToolInv'
<1>1. "parity" \in Tool /\ "parity" \notin Oracle
  BY DEF Tool, Oracle
<1> QED
  BY <1>1, TurnKeeps DEF ToolInv

LEMMA ParityStep ==
  ASSUME ToolInv, task' = task, tool = "parity", present' = present,
         tool' = tool \/ (tool' = "none" /\ pc' = "idle"),
         NEW h \in Hold, h.receipt.status # "none", Keep(h) \/ Save(h),
         UNCHANGED <<work, bound>> \/ (work' = Fresh /\ bound' = {})
  PROVE  ToolInv'
<1>1. h.receipt \in Paper /\ held' = h /\ paper' \in {paper, [paper EXCEPT ![tool] = h.receipt]}
  BY DEF Hold, Keep, Save
<1>2. Turn(tool) /\ ToolTypes'
  BY <1>1, FlaskToolTurn
<1> QED
  BY <1>2, ParityOwn

LEMMA ParitySteps ==
  ASSUME ToolInv, task' = task,
         \/ StartParity \/ ParityInputs \/ ParityAdmits \/ ParityResolves \/ ParityQualifies
         \/ ParityRuns \/ ParityReviews \/ ParityFails \/ ParityCloses
  PROVE  ToolInv'
<1>1. CASE StartParity
  <2>1. /\ Launch("parity") /\ pc' = "inputs" /\ UNCHANGED <<present, work, bound>>
        /\ task = "flask" /\ Launched("flask_oracle")
    BY <1>1 DEF StartParity, Goto, Rested, Launched
  <2>2. "parity" \in Tool /\ TaskOf["parity"] = "flask" /\ ToolTypes
    BY DEF Tool, TaskOf, ToolInv
  <2>3. /\ tool = "none" /\ ~Launched("parity") /\ tool' = "parity" /\ held' = Started
        /\ paper' \in [Tool -> Paper] /\ paper'["parity"].status = "started"
        /\ \A u \in Tool \ {"parity"} : paper'[u] = paper[u]
    BY <2>1, <2>2, LaunchIs
  <2>4. Turn("parity")
    BY <2>1, <2>2, <2>3, StartedIs DEF Turn
  <2>5. ToolTypes'
    BY <2>1, <2>2, <2>3, StartedIs DEF ToolTypes
  <2> QED
    BY <2>4, <2>5, ParityOwn
<1>2. CASE ~StartParity
  <2>1. tool = "parity" /\ present' = present
    BY <1>2, Zenon
       DEF ParityInputs, ParityAdmits, ParityResolves, Resolved, ParityQualifies, Qualified,
           ParityRuns, Ran, ParityReviews, Reviewed, ParityFails, ParityCloses, Doing, Calm
  <2>2. held \in Hold /\ held.receipt.status # "none" /\ Failed \in Hold
        /\ Failed.receipt.status = "failed" /\ tool # "none"
    BY <2>1, FlaskTool
  <2>3. CASE ParityInputs \/ ParityAdmits \/ ParityResolves \/ ParityQualifies \/ ParityRuns
    <3>1. (Keep(held) \/ Save(held)) /\ tool' = tool /\ UNCHANGED <<work, bound>>
      BY <2>3, Zenon
         DEF ParityInputs, ParityAdmits, ParityResolves, Resolved, ParityQualifies, Qualified,
             ParityRuns, Ran, Calm, Rested
    <3> QED
      BY <2>1, <2>2, <3>1, ParityStep
  <2>4. CASE ParityReviews
    <3>1. OneMore \in Hold /\ OneMore.receipt.status # "none"
      BY <2>2, HeldIs
    <3>2. CASE OneMore.receipt.cases < MaxCases
      <4>1. Save(OneMore) /\ work' = Fresh /\ bound' = {} /\ tool' = tool
        BY <2>4, <3>2 DEF ParityReviews
      <4> DEFINE h == OneMore
      <4>2. h \in Hold /\ h.receipt.status # "none" /\ Save(h)
        BY <3>1, <4>1
      <4> HIDE DEF h
      <4> QED
        BY <2>1, <4>1, <4>2, ParityStep
    <3>3. CASE ~(OneMore.receipt.cases < MaxCases)
      <4> DEFINE g == OneMore
                 h == [g EXCEPT !.receipt.status = "complete"]
      <4>1. /\ held' = h /\ paper' = [paper EXCEPT ![tool] = g.receipt]
            /\ UNCHANGED <<tool, work, bound>>
        BY <2>4, <3>3 DEF ParityReviews, Rested
      <4>2. g \in Hold /\ g.receipt.status # "none"
        BY <3>1
      <4> HIDE DEF g
      <4>3. h \in Hold /\ h.receipt.status # "none" /\ g.receipt \in Paper
        BY <4>2 DEF Hold, Paper
      <4> HIDE DEF h
      <4>4. Turn(tool) /\ ToolTypes'
        BY <2>1, <4>1, <4>2, <4>3, FlaskToolTurn
      <4> QED
        BY <2>1, <4>4, ParityOwn
    <3> QED
      BY <3>2, <3>3
  <2>5. CASE ParityFails \/ ParityCloses
    <3>1. /\ \/ Keep(Failed) /\ tool' = tool
             \/ Save(Failed) /\ tool' = "none" /\ pc' = "idle"
             \/ Save(held) /\ tool' = "none" /\ pc' = "idle"
          /\ UNCHANGED <<work, bound>>
      BY <2>5 DEF ParityFails, ParityCloses, Calm, Rested, Quit, Goto
    <3> DEFINE f == Failed
    <3>2. f \in Hold /\ f.receipt.status = "failed"
      BY <2>2
    <3>3. /\ \/ Keep(f) /\ tool' = tool
             \/ Save(f) /\ tool' = "none" /\ pc' = "idle"
             \/ Save(held) /\ tool' = "none" /\ pc' = "idle"
      BY <3>1
    <3> HIDE DEF f
    <3> QED
      BY <2>1, <2>2, <3>1, <3>2, <3>3, ParityStep
  <2> QED
    BY <1>2, <2>3, <2>4, <2>5
<1> QED
  BY <1>1, <1>2

LEMMA ClaudeOwn ==
  ASSUME ToolInv, Turn("claude"), ToolTypes', ClaudeInv'
  PROVE  ToolInv'
<1>1. "claude" \in Tool /\ "claude" \notin Oracle
  BY DEF Tool, Oracle
<1> QED
  BY <1>1, TurnKeeps DEF ToolInv

LEMMA LiveStays ==
  /\ work' = work => Live' = Live
  /\ work' = Fresh => Live' = {}
BY FreshIs DEF Live

LEMMA ClaudeStep ==
  ASSUME ToolInv, task' = task, tool = "claude", tool' = tool,
         NEW h \in Hold, h.receipt.status # "none",
         Keep(h) \/ (Save(h) /\ h.receipt.status = "started"),
         UNCHANGED <<work, bound>> \/ (work' = Fresh /\ bound' = {}),
         present' \subseteq present,
         pc' \notin {"cleanup", "close"} => h.receipt.status = "started",
         h.receipt.status = "complete" => Live = {},
         (pc' = "close" /\ h.receipt.status = "complete") => present' \cap Model = {}
  PROVE  ToolInv'
<1>1. h.receipt \in Paper /\ held' = h
  BY DEF Hold, Keep, Save
<1>2. paper' = paper \/ (paper' = [paper EXCEPT ![tool] = h.receipt] /\ h.receipt.status = "started")
  BY DEF Keep, Save
<1>3. Turn(tool) /\ ToolTypes' /\ paper'[tool] \in {paper[tool], h.receipt}
  BY <1>1, <1>2, FlaskToolTurn
<1>4. paper[tool].status = "started"
  BY DEF ToolInv, ClaudeInv
<1>5. paper'[tool].status = "started"
  <2>1. CASE paper' = paper
    BY <1>4, <2>1
  <2>2. CASE paper' = [paper EXCEPT ![tool] = h.receipt] /\ h.receipt.status = "started"
    BY <1>3, <1>4, <2>2
  <2> QED
    BY <1>2, <2>1, <2>2
<1>6. Live = {} => Live' = {}
  BY LiveStays
<1>7. work'[5] = "none" /\ work'[6] = "none"
  BY FlaskTool, FreshIs DEF Stage
<1>8. ClaudeInv'
  BY <1>1, <1>5, <1>6, <1>7 DEF ClaudeInv
<1> QED
  BY <1>3, <1>8, ClaudeOwn

LEMMA ClaudeEnds ==
  ASSUME ToolInv, task' = task, tool = "claude", pc = "close", ClaudeCloses
  PROVE  ToolInv'
<1>1. /\ held \in Hold /\ held.receipt.status # "none" /\ Failed \in Hold
      /\ Failed.receipt.status = "failed" /\ tool # "none" /\ task = "flask"
      /\ work[5] = "none" /\ work[6] = "none" /\ tool \in Tool /\ ToolTypes
  BY FlaskTool
<1>2. PICK h \in {held, Failed} : Quit(h)
  BY DEF ClaudeCloses
<1>3. /\ Save(h) /\ tool' = "none" /\ pc' = "idle" /\ UNCHANGED <<work, bound, present>>
  BY <1>2 DEF ClaudeCloses, Rested, Quit, Goto
<1>4. h \in Hold /\ h.receipt.status # "none" /\ h.receipt \in Paper
  BY <1>1 DEF Hold
<1>5. h.receipt.status = "complete" => Live = {} /\ present \cap Model = {}
  BY <1>1 DEF ToolInv, ClaudeInv
<1>6. held' = h /\ paper' = [paper EXCEPT ![tool] = h.receipt] /\ paper'[tool] = h.receipt
  BY <1>1, <1>3, <1>4, SaveIs DEF Save
<1>7. Turn(tool) /\ ToolTypes'
  BY <1>3, <1>4, <1>6, FlaskToolTurn
<1>8. Live' = Live
  BY <1>3, LiveStays
<1>9. ClaudeInv'
  BY <1>1, <1>3, <1>5, <1>6, <1>8 DEF ClaudeInv
<1> QED
  BY <1>7, <1>9, ClaudeOwn

LEMMA ClaudeStarts ==
  ASSUME ToolInv, task' = task, StartClaude
  PROVE  ToolInv'
<1>1. /\ Launch("claude") /\ pc' = "config" /\ UNCHANGED <<work, bound>>
      /\ present' = present \cup Model /\ task = "flask" /\ Launched("parity")
  BY DEF StartClaude, Goto, Rested, Launched
<1>2. /\ "claude" \in Tool /\ TaskOf["claude"] = "flask" /\ ToolTypes
      /\ Makes["claude"] = Model /\ Model \subseteq Resource
  BY DEF Tool, TaskOf, ToolInv, Makes, Oracle, Model, Resource
<1>3. /\ tool = "none" /\ ~Launched("claude") /\ tool' = "claude" /\ held' = Started
      /\ paper' \in [Tool -> Paper] /\ paper'["claude"].status = "started"
      /\ \A u \in Tool \ {"claude"} : paper'[u] = paper[u]
  BY <1>1, <1>2, LaunchIs
<1>4. Turn("claude")
  BY <1>1, <1>2, <1>3, StartedIs DEF Turn
<1>5. ToolTypes'
  BY <1>1, <1>2, <1>3, StartedIs DEF ToolTypes
<1>6. ClaudeInv'
  BY <1>1, <1>3, StartedIs DEF ClaudeInv, ToolInv
<1> QED
  BY <1>4, <1>5, <1>6, ClaudeOwn

LEMMA ClaudeCleansStep ==
  ASSUME ToolInv, task' = task, ClaudeCleans
  PROVE  ToolInv'
<1>1. tool = "claude" /\ pc = "cleanup" /\ pc' = "close" /\ tool' = tool /\ UNCHANGED <<work, bound>>
  BY DEF ClaudeCleans, Doing, Goto, Rested
<1>2. held \in Hold /\ held.receipt.status # "none"
  BY <1>1, FlaskTool
<1>3. held.receipt.status = "complete" => Live = {}
  BY <1>1 DEF ToolInv, ClaudeInv
<1>4. CASE present' = present \ Model /\ Keep(Noted("cleanup", "deleted_and_absent"))
  <2> DEFINE h == Noted("cleanup", "deleted_and_absent")
  <2>1. h \in Hold /\ h.receipt.status = held.receipt.status
    BY <1>2, HeldIs
  <2>2. Keep(h)
    BY <1>4
  <2> HIDE DEF h
  <2> QED
    BY <1>1, <1>2, <1>3, <1>4, <2>1, <2>2, ClaudeStep
<1>5. CASE /\ present' \subseteq present
           /\ Keep([held EXCEPT !.receipt.cleanup = "ambiguous", !.receipt.status = "failed"])
  <2> DEFINE h == [held EXCEPT !.receipt.cleanup = "ambiguous", !.receipt.status = "failed"]
             r == [held.receipt EXCEPT !.cleanup = "ambiguous", !.status = "failed"]
  <2>1. r \in Paper /\ r.status = "failed"
    BY <1>2 DEF Hold, Paper
  <2>2. h = [held EXCEPT !.receipt = r]
    BY <1>2 DEF Hold, Paper
  <2> HIDE DEF h, r
  <2>3. h \in Hold /\ h.receipt.status = "failed"
    BY <1>2, <2>1, <2>2 DEF Hold
  <2>4. Keep(h)
    BY <1>5 DEF h
  <2> QED
    BY <1>1, <1>5, <2>3, <2>4, ClaudeStep
<1> QED
  BY <1>4, <1>5 DEF ClaudeCleans

LEMMA ClaudeSteps ==
  ASSUME ToolInv, task' = task,
         \/ StartClaude \/ ClaudeConfig \/ ClaudeGate \/ ClaudeResolves \/ ClaudeQualifies
         \/ ClaudeRuns \/ ClaudeReviews \/ ClaudeFails \/ ClaudeCleans \/ ClaudeCloses
  PROVE  ToolInv'
<1>1. CASE StartClaude
  BY <1>1, ClaudeStarts
<1>2. CASE ClaudeCleans
  BY <1>2, ClaudeCleansStep
<1>3. CASE ClaudeCloses
  BY <1>3, ClaudeEnds DEF ClaudeCloses, Doing
<1>4. CASE ~StartClaude /\ ~ClaudeCleans /\ ~ClaudeCloses
  <2>1. tool = "claude" /\ tool' = tool /\ present' = present /\ pc \notin {"cleanup", "close"}
    BY <1>4
       DEF ClaudeConfig, ClaudeGate, ClaudeResolves, Resolved, ClaudeQualifies, Qualified,
           ClaudeRuns, Ran, ClaudeReviews, Reviewed, ClaudeFails, Doing, Calm
  <2>2. /\ held \in Hold /\ held.receipt.status = "started" /\ Failed \in Hold
        /\ Failed.receipt.status = "failed"
    <3>1. held.receipt.status = "started"
      BY <2>1 DEF ToolInv, ClaudeInv
    <3> QED
      BY <2>1, <3>1, FlaskTool
  <2>3. CASE ClaudeConfig \/ ClaudeResolves \/ ClaudeQualifies \/ ClaudeRuns
    <3>1. (Keep(held) \/ Save(held)) /\ UNCHANGED <<work, bound>>
      BY <2>3, Zenon
         DEF ClaudeConfig, ClaudeResolves, Resolved, ClaudeQualifies, Qualified, ClaudeRuns, Ran,
             Calm, Rested
    <3> QED
      BY <2>1, <2>2, <3>1, ClaudeStep
  <2>4. CASE ClaudeGate
    <3> DEFINE h == Noted("cleanup", "pending")
    <3>1. h \in Hold /\ h.receipt.status = "started"
      BY <2>2, HeldIs
    <3>2. Save(h) /\ work' = Fresh /\ bound' = {}
      BY <2>4 DEF ClaudeGate
    <3> HIDE DEF h
    <3> QED
      BY <2>1, <3>1, <3>2, ClaudeStep
  <2>5. CASE ClaudeReviews
    <3> DEFINE h == Noted("status", "complete")
    <3>1. h \in Hold /\ h.receipt.status = "complete"
      BY <2>2, HeldIs
    <3>2. Keep(h) /\ pc' = "cleanup" /\ UNCHANGED <<work, bound>> /\ \A s \in 1..4 : work[s] = "succeeded"
      BY <2>5 DEF ClaudeReviews, Reviewed, Succeeded, Calm, Rested, Goto
    <3>3. Live = {}
      <4>1. work[5] = "none" /\ work[6] = "none"
        BY <2>1, FlaskTool
      <4>2. \A s \in Stage : s \in 1..4 \/ s = 5 \/ s = 6
        BY DEF Stage
      <4> QED
        BY <3>2, <4>1, <4>2 DEF Live
    <3> HIDE DEF h
    <3> QED
      BY <2>1, <3>1, <3>2, <3>3, ClaudeStep
  <2>6. CASE ClaudeFails
    <3> DEFINE f == Failed
    <3>1. f \in Hold /\ f.receipt.status = "failed"
      BY <2>2
    <3>2. Keep(f) /\ pc' \in {"cleanup", "close"} /\ UNCHANGED <<work, bound>>
      BY <2>6 DEF ClaudeFails, Calm, Rested, Goto
    <3> HIDE DEF f
    <3> QED
      BY <2>1, <3>1, <3>2, ClaudeStep
  <2> QED
    BY <1>4, <2>3, <2>4, <2>5, <2>6
<1> QED
  BY <1>1, <1>2, <1>3, <1>4

------------------------------------------------------------------------------
(* The acceptance of seqtk. *)

LEMMA AxernOwn ==
  ASSUME ToolInv, Turn("axern"), ToolTypes', AxernInv'
  PROVE  ToolInv'
<1>1. "axern" \in Tool /\ "axern" \notin Oracle
  BY DEF Tool, Oracle
<1> QED
  BY <1>1, TurnKeeps DEF ToolInv

LEMMA AxernKnows ==
  ASSUME ToolInv, tool = "axern"
  PROVE  /\ ToolTypes /\ held \in Hold /\ task = "seqtk" /\ "axern" \in Tool
         /\ TaskOf["axern"] = "seqtk" /\ Makes["axern"] = Created \cup {"derived"}
         /\ held.receipt.status \in {"started", "failed"} /\ paper["axern"].status = "started"
         /\ Failed \in Hold /\ Failed.receipt.status = "failed"
         /\ held.receipt.status = "started" =>
              /\ present \cap Created \subseteq held.owned
              /\ "derived" \in present => pc = "derived"
              /\ pc # "cancel" /\ (pc \in {"runs", "environments"} => Live = {})
<1>1. "axern" \in Tool /\ TaskOf["axern"] = "seqtk" /\ Makes["axern"] = Created \cup {"derived"}
  BY DEF Tool, TaskOf, Oracle, Makes
<1>2. held \in Hold /\ held.receipt.status # "none" /\ held.receipt.status # "complete"
  BY DEF ToolInv, ToolTypes, Order, AxernInv
<1>3. held.receipt.status \in {"started", "failed"}
  BY <1>2 DEF Hold, Paper
<1>4. Failed \in Hold /\ Failed.receipt.status = "failed"
  BY <1>2, HeldIs DEF Failed
<1> QED
  BY <1>1, <1>2, <1>3, <1>4 DEF ToolInv, ToolTypes, Order, AxernInv

LEMMA AxernStep ==
  ASSUME ToolInv, task' = task, tool = "axern", tool' = tool,
         NEW h \in Hold, h.receipt.status \in {"started", "failed"}, Keep(h),
         work' \in [Stage -> {"none", "live", "succeeded", "failed"}], bound' \subseteq Stage,
         present' \subseteq present \cup (Created \cup {"derived"}),
         h.receipt.status = "started" =>
           /\ present' \cap Created \subseteq h.owned
           /\ "derived" \in present' => pc' = "derived"
           /\ pc' # "cancel" /\ (pc' \in {"runs", "environments"} => Live' = {})
  PROVE  ToolInv'
<1>1. /\ ToolTypes /\ task = "seqtk" /\ "axern" \in Tool
      /\ TaskOf["axern"] = "seqtk" /\ Makes["axern"] = Created \cup {"derived"}
      /\ paper["axern"].status = "started"
  BY AxernKnows
<1>2. held' = h /\ paper' = paper
  BY DEF Keep
<1>3. Turn("axern")
  BY <1>1, <1>2 DEF Turn
<1>4. present' \subseteq Resource
  BY <1>1 DEF ToolTypes, Created, Resource
<1>5. ToolTypes'
  BY <1>1, <1>2, <1>4 DEF ToolTypes
<1>6. AxernInv'
  BY <1>1, <1>2 DEF AxernInv, Launched
<1> QED
  BY <1>3, <1>5, <1>6, AxernOwn

\* A failure is final: from here on the receipt cannot say that it is complete.
LEMMA AxernFailsStep ==
  ASSUME ToolInv, task' = task, tool = "axern", tool' = tool, Keep(Failed),
         work' \in [Stage -> {"none", "live", "succeeded", "failed"}], bound' \subseteq Stage,
         present' \subseteq present \cup (Created \cup {"derived"})
  PROVE  ToolInv'
<1> DEFINE f == Failed
<1>1. f \in Hold /\ f.receipt.status = "failed" /\ Keep(f)
  BY AxernKnows
<1> HIDE DEF f
<1> QED
  BY <1>1, AxernStep

\* The tool ends, with an error or without.
LEMMA AxernEnds ==
  ASSUME ToolInv, task' = task, tool = "axern", UNCHANGED <<work, bound>>,
         present' \subseteq present, NEW h \in Hold, h.receipt.status \in {"complete", "failed"},
         Quit(h),
         h.receipt.status = "complete" =>
           present' \cap (Created \cup {"derived"}) = {} /\ Live = {}
  PROVE  ToolInv'
<1>1. /\ ToolTypes /\ task = "seqtk" /\ "axern" \in Tool
      /\ TaskOf["axern"] = "seqtk" /\ Makes["axern"] = Created \cup {"derived"}
  BY AxernKnows
<1>2. Save(h) /\ tool' = "none" /\ pc' = "idle"
  BY DEF Quit, Goto
<1>3. /\ held' = h /\ paper' \in [Tool -> Paper] /\ paper'["axern"] = h.receipt
      /\ \A u \in Tool \ {"axern"} : paper'[u] = paper[u]
  BY <1>1, <1>2, SaveIs
<1>4. Turn("axern")
  BY <1>1, <1>2, <1>3 DEF Turn
<1>5. ToolTypes'
  BY <1>1, <1>2, <1>3 DEF ToolTypes
<1>6. Live' = Live
  BY LiveStays
<1>7. AxernInv'
  BY <1>2, <1>3, <1>6 DEF AxernInv, Launched
<1> QED
  BY <1>4, <1>5, <1>7, AxernOwn

LEMMA AxernGoes ==
  ASSUME ToolInv, task' = task, tool = "axern", tool' = tool, pc # "derived",
         NEW h \in Hold, h.receipt.status \in {"started", "failed"}, Keep(h),
         held.receipt.status = "failed" => h.receipt.status = "failed",
         h.owned = held.owned, present' = present,
         work' \in [Stage -> {"none", "live", "succeeded", "failed"}], bound' \subseteq Stage,
         h.receipt.status = "started" => pc' # "cancel",
         (pc' \in {"runs", "environments"} /\ h.receipt.status = "started") => Live' = {}
  PROVE  ToolInv'
<1>1. h.receipt.status = "started" => held.receipt.status = "started"
  BY AxernKnows
<1>2. h.receipt.status = "started" =>
        present' \cap Created \subseteq h.owned /\ "derived" \notin present'
  BY <1>1, AxernKnows
<1> QED
  BY <1>2, AxernStep

LEMMA AxernStarts ==
  ASSUME ToolInv, task' = task, task = "seqtk", StartAxern
  PROVE  ToolInv'
<1>1. /\ Launch("axern") /\ pc' = "evidence" /\ UNCHANGED <<present, work, bound>>
      /\ Launched("native")
  BY DEF StartAxern, Goto, Rested, Launched
<1>2. /\ "axern" \in Tool /\ TaskOf["axern"] = "seqtk" /\ ToolTypes
  BY DEF Tool, TaskOf, ToolInv, Oracle
<1>3. /\ tool = "none" /\ ~Launched("axern") /\ tool' = "axern" /\ held' = Started
      /\ paper' \in [Tool -> Paper] /\ paper'["axern"].status = "started"
      /\ \A u \in Tool \ {"axern"} : paper'[u] = paper[u]
  BY <1>1, <1>2, LaunchIs
<1>4. present \cap (Created \cup {"derived"}) = {}
  BY <1>3 DEF ToolInv, AxernInv
<1>5. Turn("axern")
  BY <1>1, <1>2, <1>3, StartedIs DEF Turn
<1>6. ToolTypes'
  BY <1>1, <1>2, <1>3, StartedIs DEF ToolTypes
<1>7. AxernInv'
  BY <1>1, <1>3, <1>4, StartedIs DEF AxernInv, Launched
<1> QED
  BY <1>5, <1>6, <1>7, AxernOwn

LEMMA AxernCreatesEnvironment ==
  ASSUME ToolInv, task' = task, tool = "axern", tool' = tool, UNCHANGED <<work, bound>>,
         pc # "derived", NEW e \in Created, NEW to, to \notin {"cancel", "runs", "environments"},
         NEW failing, CreatesEnvironment(e, to, failing)
  PROVE  ToolInv'
<1>1. /\ ToolTypes /\ held \in Hold /\ held.receipt.status \in {"started", "failed"}
      /\ e \in Resource
      /\ held.receipt.status = "started" =>
           present \cap Created \subseteq held.owned /\ "derived" \notin present
  BY AxernKnows DEF Created, Resource
<1>2. work' \in [Stage -> {"none", "live", "succeeded", "failed"}] /\ bound' \subseteq Stage
  BY <1>1 DEF ToolTypes
<1>3. CASE present' = present \cup {e} /\ Keep([held EXCEPT !.owned = @ \cup {e}]) /\ Goto(to)
  <2> DEFINE h == [held EXCEPT !.owned = @ \cup {e}]
  <2>1. h \in Hold /\ h.receipt = held.receipt /\ h.owned = held.owned \cup {e}
    BY <1>1, OwnIs
  <2>2. Keep(h) /\ pc' = to
    BY <1>3 DEF Goto
  <2>3. e # "derived"
    BY DEF Created
  <2> HIDE DEF h
  <2> QED
    BY <1>1, <1>2, <1>3, <2>1, <2>2, <2>3, AxernStep
<1>4. CASE present' \in {present, present \cup {e}} /\ Keep(Failed)
  BY <1>2, <1>4, AxernFailsStep
<1> QED
  BY <1>3, <1>4 DEF CreatesEnvironment

LEMMA AxernProbesStep ==
  ASSUME ToolInv, task' = task, AxernProbes
  PROVE  ToolInv'
<1>1. tool = "axern" /\ pc = "probe" /\ tool' = tool /\ present' = present /\ bound' = bound
  BY DEF AxernProbes, At, Stays
<1>2. /\ ToolTypes /\ held \in Hold /\ held.receipt.status \in {"started", "failed"}
  BY <1>1, AxernKnows
<1> DEFINE s == IF work[5] = "none" THEN 5 ELSE 6
           created0 == [work EXCEPT ![s] = "live"]
           h == [held EXCEPT !.active = @ \cup {s}]
<1>3. s \in Stage
  BY DEF Stage
<1>4. \/ work' = created0 /\ Keep(h) /\ pc' = "probing"
      \/ work' \in {work, created0} /\ Keep(Failed)
  BY DEF AxernProbes, Goto
<1> HIDE DEF s
<1>5. created0 \in [Stage -> {"none", "live", "succeeded", "failed"}] /\ bound' \subseteq Stage
  BY <1>1, <1>2, <1>3 DEF ToolTypes
<1>6. h \in Hold /\ h.receipt = held.receipt /\ h.owned = held.owned
  BY <1>2, <1>3 DEF Hold
<1>7. work' \in [Stage -> {"none", "live", "succeeded", "failed"}]
  BY <1>2, <1>4, <1>5 DEF ToolTypes
<1> HIDE DEF h, created0
<1>8. CASE Keep(h) /\ pc' = "probing"
  BY <1>1, <1>2, <1>5, <1>6, <1>7, <1>8, AxernGoes
<1>9. CASE Keep(Failed)
  BY <1>1, <1>5, <1>7, <1>9, AxernFailsStep
<1> QED
  BY <1>4, <1>8, <1>9

LEMMA AxernDeletesStep ==
  ASSUME ToolInv, task' = task, AxernDeletes
  PROVE  ToolInv'
<1>1. tool = "axern" /\ pc = "environments" /\ UNCHANGED <<work, bound>>
  BY DEF AxernDeletes, At, Rested
<1>2. PICK deleted \in SUBSET held.owned :
        /\ present' = present \ deleted
        /\ \/ /\ held.receipt.status = "started" /\ deleted = held.owned
              /\ Quit(Noted("status", "complete"))
           \/ Quit(Failed)
  BY DEF AxernDeletes
<1>3. CASE Quit(Failed)
  <2> DEFINE f == Failed
  <2>1. f \in Hold /\ f.receipt.status = "failed" /\ Quit(f)
    BY <1>1, <1>3, AxernKnows
  <2> HIDE DEF f
  <2> QED
    BY <1>1, <1>2, <2>1, AxernEnds
<1>4. CASE /\ held.receipt.status = "started" /\ deleted = held.owned
           /\ Quit(Noted("status", "complete"))
  <2> DEFINE h == Noted("status", "complete")
  <2>1. h \in Hold /\ h.receipt.status = "complete" /\ Quit(h)
    BY <1>1, <1>4, AxernKnows, HeldIs
  <2>2. present' \cap (Created \cup {"derived"}) = {} /\ Live = {}
    BY <1>1, <1>2, <1>4, AxernKnows
  <2> HIDE DEF h
  <2> QED
    BY <1>1, <1>2, <2>1, <2>2, AxernEnds
<1> QED
  BY <1>2, <1>3, <1>4

LEMMA AxernSteps ==
  ASSUME ToolInv, task' = task, task = "seqtk", Seqtk
  PROVE  ToolInv'
<1>1. CASE StartAxern
  BY <1>1, AxernStarts
<1>2. CASE AxernProbes
  BY <1>2, AxernProbesStep
<1>3. CASE AxernDeletes
  BY <1>3, AxernDeletesStep
<1>4. CASE ~StartAxern /\ ~AxernProbes /\ ~AxernDeletes
  <2>1. tool = "axern"
    BY <1>4, Zenon
       DEF Seqtk, At, AxernEvidence, AxernExtracts, AxernCreates, AxernIdentity, AxernResolves,
           AxernDerives, AxernRan, AxernChecks, AxernIsolates, AxernProbed, AxernRecords,
           AxernCaseFails, AxernCancels, AxernCancelsRuns
  <2>2. /\ ToolTypes /\ held \in Hold /\ held.receipt.status \in {"started", "failed"}
        /\ Failed \in Hold /\ Failed.receipt.status = "failed" /\ tool # "none"
        /\ held.receipt.status = "started" =>
             /\ present \cap Created \subseteq held.owned
             /\ "derived" \in present => pc = "derived"
             /\ pc # "cancel" /\ (pc \in {"runs", "environments"} => Live = {})
    BY <2>1, AxernKnows
  <2>3. /\ UNCHANGED <<work, bound>> =>
             /\ work' \in [Stage -> {"none", "live", "succeeded", "failed"}]
             /\ bound' \subseteq Stage /\ Live' = Live
    BY <2>2, LiveStays DEF ToolTypes
  <2>4. ASSUME UNCHANGED <<work, bound, present>>, Quit(Failed) PROVE ToolInv'
    <3> DEFINE f == Failed
    <3>1. f \in Hold /\ f.receipt.status = "failed" /\ Quit(f)
      BY <2>2, <2>4
    <3> HIDE DEF f
    <3> QED
      BY <2>1, <2>4, <3>1, AxernEnds
  <2>5. ASSUME UNCHANGED <<work, bound, present, tool>>, Keep(Failed) PROVE ToolInv'
    BY <2>1, <2>3, <2>5, AxernFailsStep
  <2>6. ASSUME UNCHANGED <<work, bound, present, tool>>, Keep(held), pc # "derived",
               pc' \notin {"cancel", "runs", "environments"}
        PROVE ToolInv'
    BY <2>1, <2>2, <2>3, <2>6, AxernGoes
  <2>7. CASE AxernEvidence \/ AxernExtracts
    <3>1. CASE Quit(Failed)
      BY <2>4, <2>7, <3>1 DEF AxernEvidence, AxernExtracts, Rested
    <3>2. CASE ~Quit(Failed)
      <4>1. /\ UNCHANGED <<work, bound, present, tool>> /\ Keep(held) /\ pc # "derived"
            /\ pc' \notin {"cancel", "runs", "environments"}
        BY <2>7, <3>2 DEF AxernEvidence, AxernExtracts, Rested, At, Goto
      <4> QED
        BY <2>6, <4>1
    <3> QED
      BY <3>1, <3>2
  <2>8. CASE AxernCreates
    <3>1. /\ pc \in {"inference", "verification"} /\ tool' = tool /\ UNCHANGED <<work, bound>>
          /\ CreatesEnvironment(pc, IF pc = "inference" THEN "verification" ELSE "identity", "runs")
      BY <2>8 DEF AxernCreates, Rested
    <3> DEFINE to == IF pc = "inference" THEN "verification" ELSE "identity"
    <3>2. to \notin {"cancel", "runs", "environments"} /\ CreatesEnvironment(pc, to, "runs")
      BY <3>1
    <3>3. pc \in Created /\ pc # "derived"
      BY <3>1 DEF Created
    <3> HIDE DEF to
    <3> QED
      BY <2>1, <3>1, <3>2, <3>3, AxernCreatesEnvironment
  <2>9. CASE AxernIdentity \/ AxernResolves
    <3>1. /\ UNCHANGED <<work, bound, present, tool>>
          /\ Keep(Failed) \/ (Keep(held) /\ pc' \in {"resolve", "run"} /\ pc # "derived")
      BY <2>9 DEF AxernIdentity, AxernResolves, AxernFails, Stays, Rested, At, Goto
    <3> QED
      BY <2>5, <2>6, <3>1
  <2>10. CASE AxernDerives
    <3>1. /\ UNCHANGED <<work, bound, tool>> /\ present' = present \cup {"derived"}
          /\ Keep(held) /\ pc' = "derived"
      BY <2>10 DEF AxernDerives, Rested, Goto
    <3>2. "derived" \notin Created
      BY DEF Created
    <3> QED
      BY <2>1, <2>2, <2>3, <3>1, <3>2, AxernStep
  <2>11. CASE AxernRan
    <3>1. /\ UNCHANGED <<work, bound, tool>> /\ Keep(held) /\ pc' = "check"
          /\ \/ pc = "run" /\ present' = present
             \/ pc = "derived" /\ present' = present \ {"derived"}
      BY <2>11 DEF AxernRan, Rested, Goto, At
    <3> QED
      BY <2>1, <2>2, <2>3, <3>1, AxernStep
  <2>12. CASE AxernChecks
    <3>1. /\ UNCHANGED <<work, bound, present, tool>> /\ Keep(held) /\ pc # "derived"
          /\ pc' \notin {"cancel", "runs", "environments"}
      BY <2>12 DEF AxernChecks, Stays, Rested, At, Goto
    <3> QED
      BY <2>6, <3>1
  <2>13. CASE AxernIsolates
    <3>1. PICK failing \in {"cancel", "runs"} : CreatesEnvironment("isolation", "probe", failing)
      BY <2>13 DEF AxernIsolates
    <3>2. /\ pc # "derived" /\ tool' = tool /\ UNCHANGED <<work, bound>> /\ "isolation" \in Created
      BY <2>13 DEF AxernIsolates, At, Rested, Created
    <3> QED
      BY <2>1, <3>1, <3>2, AxernCreatesEnvironment
  <2>14. CASE AxernProbed
    <3>1. PICK s \in held.active :
            Keep([held EXCEPT !.active = @ \ {s}]) /\ Goto(IF s = 5 THEN "probe" ELSE "record")
      BY <2>14 DEF AxernProbed
    <3> DEFINE h == [held EXCEPT !.active = @ \ {s}]
    <3>2. h \in Hold /\ h.receipt = held.receipt /\ h.owned = held.owned
      BY <2>2 DEF Hold
    <3>3. Keep(h) /\ pc' \in {"probe", "record"} /\ pc = "probing" /\ UNCHANGED <<work, bound, present, tool>>
      BY <2>14, <3>1 DEF Goto, AxernProbed, At, Stays, Rested
    <3> HIDE DEF h
    <3> QED
      BY <2>1, <2>2, <2>3, <3>2, <3>3, AxernGoes
  <2>15. CASE AxernRecords
    <3> DEFINE h == OneMore
    <3>1. h \in Hold /\ h.receipt.status = held.receipt.status /\ h.owned = held.owned
      BY <2>2, HeldIs
    <3>2. /\ Keep(h) /\ work' = Fresh /\ bound' = {} /\ UNCHANGED <<tool, present>>
          /\ pc = "record" /\ pc' \in {"resolve", "runs"}
      BY <2>15 DEF AxernRecords, At, Stays, Goto
    <3>3. Live' = {} /\ work' \in [Stage -> {"none", "live", "succeeded", "failed"}]
      BY <3>2, LiveStays, FreshIs
    <3> HIDE DEF h
    <3> QED
      BY <2>1, <2>2, <3>1, <3>2, <3>3, AxernGoes
  <2>16. CASE AxernCaseFails
    <3>1. UNCHANGED <<work, bound, present, tool>> /\ Keep(Failed)
      BY <2>16 DEF AxernCaseFails, AxernFails, Stays, Rested
    <3> QED
      BY <2>5, <3>1
  <2>17. CASE AxernCancels
    <3>1. /\ UNCHANGED <<work, bound, tool>> /\ Keep(held) /\ pc = "cancel"
          /\ present' \subseteq present
      BY <2>17 DEF AxernCancels, At, Rested
    <3> QED
      BY <2>1, <2>2, <2>3, <3>1, AxernStep
  <2>18. CASE AxernCancelsRuns
    <3>1. /\ UNCHANGED <<work, bound, tool, present>> /\ pc = "runs" /\ pc' = "environments"
          /\ Keep(held) \/ Keep(Noted("cleanup", "failed"))
      BY <2>18 DEF AxernCancelsRuns, At, Stays, Rested, Goto
    <3>2. CASE Keep(held)
      BY <2>1, <2>2, <2>3, <3>1, <3>2, AxernGoes
    <3>3. CASE Keep(Noted("cleanup", "failed"))
      <4> DEFINE h == Noted("cleanup", "failed")
      <4>1. h \in Hold /\ h.receipt.status = held.receipt.status /\ h.owned = held.owned
        BY <2>2, HeldIs
      <4>2. Keep(h)
        BY <3>3
      <4> HIDE DEF h
      <4> QED
        BY <2>1, <2>2, <2>3, <3>1, <4>1, <4>2, AxernGoes
    <3> QED
      BY <3>1, <3>2, <3>3
  <2> QED
    BY <1>4, <2>7, <2>8, <2>9, <2>10, <2>11, <2>12, <2>13, <2>14, <2>15, <2>16, <2>17, <2>18 DEF Seqtk
<1> QED
  BY <1>1, <1>2, <1>3, <1>4

------------------------------------------------------------------------------
(* A command of the command line, and a tool that is killed. *)

\* The command line and its Runs: only while a command runs can a Run come to be.
LEMMA CliSteps ==
  ASSUME ToolInv, task' = task, CliCreates \/ CliBinds \/ RunEnds
  PROVE  ToolInv'
<1>1. UNCHANGED <<tool, pc, held, paper, present>>
  BY DEF CliCreates, CliBinds, RunEnds
<1>2. ToolTypes
  BY DEF ToolInv
<1>3. \A command : StagesOf(command) \subseteq 1..4
  BY DEF StagesOf
<1>4. /\ work' \in [Stage -> {"none", "live", "succeeded", "failed"}] /\ bound' \subseteq Stage
      /\ work[5] = "none" => work'[5] = "none"
      /\ work[6] = "none" => work'[6] = "none"
  <2>1. CASE CliCreates
    <3>1. PICK s \in StagesOf(pc) : work' = [work EXCEPT ![s] = "live"]
      BY <2>1 DEF CliCreates
    <3>2. s \in 1..4 /\ s \in Stage /\ bound' = bound
      BY <1>3, <2>1 DEF Stage, CliCreates
    <3> QED
      BY <1>2, <3>1, <3>2 DEF ToolTypes
  <2>2. CASE CliBinds
    <3>1. PICK s \in StagesOf(pc) : bound' = bound \cup {s} /\ work' = work
      BY <2>2 DEF CliBinds
    <3>2. s \in Stage
      BY <1>3 DEF Stage
    <3> QED
      BY <1>2, <3>1, <3>2 DEF ToolTypes
  <2>3. CASE RunEnds
    <3>1. PICK s \in Live : \E outcome \in {"failed", "succeeded"} : work' = [work EXCEPT ![s] = outcome]
      BY <2>3 DEF RunEnds
    <3>2. s \in Stage /\ work[s] = "live" /\ bound' = bound
      BY <2>3 DEF Live, RunEnds
    <3> QED
      BY <1>2, <3>1, <3>2 DEF ToolTypes
  <2> QED
    BY <2>1, <2>2, <2>3
<1>5. Live = {} /\ pc \notin {"qualify", "run"} => Live' = {}
  <2> SUFFICES ASSUME Live = {}, pc \notin {"qualify", "run"} PROVE Live' = {}
    OBVIOUS
  <2>1. StagesOf(pc) = {}
    BY DEF StagesOf
  <2>2. work' = work
    BY <2>1 DEF CliCreates, CliBinds, RunEnds
  <2> QED
    BY <2>2, LiveStays
<1>6. ToolTypes' /\ Order' /\ OracleInv' /\ NativeInv'
  BY <1>1, <1>4 DEF ToolInv, ToolTypes, Order, OracleInv, NativeInv, Launched
<1>7. ClaudeInv'
  <2>1. task = "flask" => work'[5] = "none" /\ work'[6] = "none"
    BY <1>4 DEF ToolInv, ClaudeInv
  <2>2. paper["claude"].status = "complete" => Live' = {}
    BY <1>5 DEF ToolInv, ClaudeInv, Order
  <2>3. tool = "claude" /\ held.receipt.status = "complete" => Live' = {}
    BY <1>5 DEF ToolInv, ClaudeInv
  <2> QED
    BY <1>1, <2>1, <2>2, <2>3 DEF ToolInv, ClaudeInv
<1>8. AxernInv'
  <2>1. paper["axern"].status = "complete" => Live' = {}
    BY <1>5 DEF ToolInv, AxernInv, Order
  <2>2. tool = "axern" /\ held.receipt.status = "started" /\ pc \in {"runs", "environments"} =>
          Live' = {}
    BY <1>5 DEF ToolInv, AxernInv
  <2> QED
    BY <1>1, <2>1, <2>2 DEF ToolInv, AxernInv, Launched
<1> QED
  BY <1>6, <1>7, <1>8 DEF ToolInv

LEMMA KilledStep ==
  ASSUME ToolInv, task' = task, Killed
  PROVE  ToolInv'
<1>1. /\ UNCHANGED <<held, paper, present, work, bound>> /\ tool' = "none" /\ pc' = "idle"
  BY DEF Killed, Goto, Rested
<1>2. "none" \notin Oracle
  BY DEF Oracle
<1>3. Live' = Live
  BY <1>1, LiveStays
<1> QED
  BY <1>1, <1>2, <1>3
     DEF ToolInv, ToolTypes, Order, OracleInv, NativeInv, ClaudeInv, AxernInv, Launched

LEMMA ToolsStart ==
  ASSUME ToolInit
  PROVE  ToolInv
<1>1. \A t \in Tool : paper[t].status = "none"
  BY DEF ToolInit, Receipt
<1>2. Receipt \in Paper
  BY DEF Receipt, Paper
<1>3. ToolTypes
  BY <1>2, StartedIs, FreshIs DEF ToolInit, ToolTypes
<1>4. /\ tool = "none" /\ pc = "idle" /\ present = {} /\ work = Fresh
      /\ \A t \in Oracle : t \in Tool /\ t # "none"
      /\ {"native", "parity", "claude", "axern"} \subseteq Tool /\ "none" \notin Oracle
  BY DEF ToolInit, Oracle, Tool
<1>5. work[5] = "none" /\ work[6] = "none"
  BY <1>4, FreshIs DEF Stage
<1> QED
  BY <1>1, <1>3, <1>4, <1>5
     DEF ToolInv, Order, OracleInv, NativeInv, ClaudeInv, AxernInv, Launched

LEMMA ToolsRest ==
  ASSUME ToolInv, task' = task, UNCHANGED toolVars
  PROVE  ToolInv'
<1>1. UNCHANGED <<tool, pc, held, paper, present, work, bound>>
  BY DEF toolVars
<1>2. Live' = Live
  BY <1>1, LiveStays
<1> QED
  BY <1>1, <1>2
     DEF ToolInv, ToolTypes, Order, OracleInv, NativeInv, ClaudeInv, AxernInv, Launched

LEMMA ToolSteps ==
  ASSUME ToolInv, task' = task, Tools
  PROVE  ToolInv'
<1>1. CASE (task = "flask" /\ FlaskOracle) \/ (task = "django" /\ DjangoOracle)
  BY <1>1, OracleSteps
<1>2. CASE OracleContainer
  BY <1>2, ContainerSteps
<1>3. CASE Flask
  BY <1>3, ParitySteps, ClaudeSteps, Zenon DEF Flask
<1>4. CASE task = "seqtk" /\ (SeqtkNative \/ Seqtk)
  BY <1>4, NativeSteps, AxernSteps
<1>5. CASE CliCreates \/ CliBinds \/ RunEnds \/ Killed
  BY <1>5, CliSteps, KilledStep
<1> QED
  BY <1>1, <1>2, <1>3, <1>4, <1>5 DEF Tools

------------------------------------------------------------------------------
(* The theorems. *)

ValidationInv == AdmissionInv /\ ToolInv

(* Both invariants hold in every state: the scan has missed nothing it read, a claim is
   one Run, and what a tool remembers covers what it made. *)
THEOREM ValidationInvariant == ValidationSpec => []ValidationInv
<1>1. ValidationInit => ValidationInv
  BY AdmissionStarts, ToolsStart DEF ValidationInit, ValidationInv
<1>2. ValidationInv /\ [ValidationNext]_ValidationVars => ValidationInv'
  <2> SUFFICES ASSUME ValidationInv, [ValidationNext]_ValidationVars PROVE ValidationInv'
    OBVIOUS
  <2>1. AdmissionInv /\ ToolInv
    BY DEF ValidationInv
  <2>2. CASE Admission
    <3>1. AdmissionInv' /\ UNCHANGED toolVars
      BY <2>1, <2>2, AdmissionSteps DEF Admission
    <3>2. task' = task
      BY <2>2
         DEF Admission, Next, AdmitFlask, ProbeDjango, AdoptFlask, AdoptDjango, Axern, auditVars,
             Begin, Submit, Create, Bind, Await, Release, MarkReady, Abort, CancelUnreleased,
             Ended, Judge, Publish, GiveUp, Start, CreateEnvironment, ImageDrift, SubmitProbe,
             BindProbe, ReleaseProbe, AbortProbe, FollowProbe, Observe, Cleanup, Close, Settle,
             Die, AuditNext, Allocate, Scan, Sealed, AuditFails
    <3> QED
      BY <2>1, <3>1, <3>2, ToolsRest DEF ValidationInv
  <2>3. CASE Tools /\ UNCHANGED <<auditVars, flaskVars, probe, file, environment>>
    <3>1. AdmissionInv'
      BY <2>1, <2>3, ToolsAdmit
    <3>2. ToolInv'
      BY <2>1, <2>3, ToolSteps DEF auditVars
    <3> QED
      BY <3>1, <3>2 DEF ValidationInv
  <2>4. CASE UNCHANGED ValidationVars
    <3>1. UNCHANGED vars /\ UNCHANGED toolVars
      BY <2>4 DEF ValidationVars
    <3>2. task' = task
      BY <3>1 DEF vars, auditVars
    <3> QED
      BY <2>1, <3>1, <3>2, AdmissionRests, ToolsRest DEF ValidationInv
  <2> QED
    BY <2>2, <2>3, <2>4 DEF ValidationNext
<1> QED
  BY <1>1, <1>2, PTL DEF ValidationSpec

(* AdmittedIsClean: an episode is accepted only for an image the audit Run has scanned to
   its end and found nothing in, whatever the patches, the image, the size of a read and
   the length from which a run of added lines is a signature. *)
THEOREM OnlyCleanIsAdmitted == ValidationSpec => []AdmittedIsClean
<1>1. ValidationInv => AdmittedIsClean
  <2> SUFFICES ASSUME AdmissionInv, adopted
               PROVE  run = "succeeded" /\ image.git = "none" /\ \A p \in Prefix : ~GivesAway(p)
    BY DEF ValidationInv, AdmittedIsClean
  <2>1. run = "succeeded" /\ audit_status(reached) = "passed"
    BY DEF AdmissionInv, AdoptedInv, AuditPassed
  <2>2. ScanInv /\ source = 3
    BY <2>1 DEF AdmissionInv, AuditInv
  <2> QED
    BY <2>1, <2>2, PassedIsClean
<1> QED
  BY <1>1, ValidationInvariant, PTL

(* OneAudit: a key of Flask's image is audited by one Run at most, and the receipt names
   that Run, whatever number of processes claims, dies, and comes again. *)
THEOREM OneAuditForAKey == ValidationSpec => []OneAudit
<1>1. ValidationInv => OneAudit
  BY DEF ValidationInv, AdmissionInv, FlaskInv, FlaskTypes, OneAudit
<1> QED
  BY <1>1, ValidationInvariant, PTL

(* ProbeSparesItsRun: the probe never deletes the Environment of a Run that may still be
   active, and an episode of Django is accepted only when the Environment is gone. *)
THEOREM ProbeWaitsForItsRun == ValidationSpec => []ProbeSparesItsRun
<1>1. ValidationInv => ProbeSparesItsRun
  <2> SUFFICES ASSUME AdmissionInv PROVE ProbeSparesItsRun
    BY DEF ValidationInv
  <2>1. environment = "deleted" => Terminal \/ run = "none"
    BY DEF AdmissionInv, ProbeInv
  <2>2. task = "django" /\ adopted => environment = "deleted"
    BY DEF AdmissionInv, AdoptedInv
  <2> QED
    BY <2>1, <2>2 DEF ProbeSparesItsRun, Terminal
<1> QED
  BY <1>1, ValidationInvariant, PTL

(* SuccessLeavesNothing: a validation tool whose receipt reports success left no container,
   image, Environment or active Run of its own behind, for any number of cases. *)
THEOREM SuccessIsTidy == ValidationSpec => []SuccessLeavesNothing
<1>1. ValidationInv => SuccessLeavesNothing
  <2> SUFFICES ASSUME ToolInv PROVE SuccessLeavesNothing
    BY DEF ValidationInv
  <2> QED
    BY DEF ToolInv, OracleInv, NativeInv, ClaudeInv, AxernInv, SuccessLeavesNothing, Built, Created
<1> QED
  BY <1>1, ValidationInvariant, PTL

(* Type correctness of the admission. *)
THEOREM TypeCorrect == ValidationSpec => []TypeOK
<1>1. ASSUME ValidationInv PROVE TypeOK
  <2>1. ScanInv /\ FlaskTypes /\ probe \in Probe /\ adopted \in BOOLEAN
    BY <1>1 DEF ValidationInv, AdmissionInv, AuditInv, FlaskInv, ProbeInv, AdoptedInv
  <2>2. /\ run \in RunStatus /\ created \in 0..MaxRuns /\ allocated \in BOOLEAN
        /\ environment \in {"absent", "present", "deleted"}
    BY <1>1 DEF ValidationInv, AdmissionInv, AuditInv, ProbeInv
  <2>3. source \in 1..3 /\ matches \subseteq Prefix
    BY <2>1 DEF ScanInv
  <2>4. probe.at \in ProbeStep
    BY <2>1 DEF Probe
  <2>5. /\ at \in [Caller -> Step] /\ receipt \in 0..MaxRuns
        /\ record.state \in {"absent", "claimed", "bound", "allocated"}
        /\ record.run \in 0..MaxRuns
    BY <2>1, ImagesAssumption DEF FlaskTypes
  <2> QED
    BY <2>1, <2>2, <2>3, <2>4, <2>5 DEF TypeOK
<1> QED
  BY <1>1, ValidationInvariant, PTL
=============================================================================
