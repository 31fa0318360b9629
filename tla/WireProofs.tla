----------------------------- MODULE WireProofs -----------------------------
(***************************************************************************)
(* Proofs about the bytes of a payload: the code printed for a class writes *)
(* what the compiler lays out, reads it back, and the document tells where. *)
(* Beyond WellNested the structs are Formattable, which TLC evaluates for   *)
(* those of the program (MCGenerators).                                    *)
(*                                                                         *)
(* Layouts, flattened formats and ends of fields are functions defined by  *)
(* recursion over an interval.  What they compute is shown by induction    *)
(* over Nat, in the form of a set that contains 0 and successors; the      *)
(* rounds of Layouts, Images, Packed and Unpacked are four each, one lemma *)
(* applied at a time.                                                      *)
(***************************************************************************)
EXTENDS GeneratorsProofs, SequenceTheorems, WellFoundedInduction

\* Induction over the naturals.
LEMMA Induction ==
    ASSUME NEW S, 0 \in S, \A n \in Nat : n \in S => n + 1 \in S
    PROVE  Nat \subseteq S
<1> DEFINE rest == Nat \ S
<1> SUFFICES ASSUME rest # {} PROVE FALSE
  OBVIOUS
<1>1. PICK n \in rest : \A m \in rest : <<m, n>> \notin OpToRel(<, Nat)
  <2>1. rest \subseteq Nat
    OBVIOUS
  <2> HIDE DEF rest
  <2> QED  BY <2>1, WFMin, NatLessThanWellFounded
<1>2. \A m \in rest : ~(m < n)
  BY <1>1 DEF OpToRel
<1>3. n # 0 /\ n \in Nat
  OBVIOUS
<1>4. n - 1 \in Nat /\ n - 1 < n /\ (n - 1) + 1 = n
  BY <1>3
<1>5. n - 1 \in S
  BY <1>2, <1>4
<1> QED  BY <1>4, <1>5

\* f[i] is the first i sequences of s one after the other.
Joins(f, s, n) == f = [i \in 1..n |-> IF i = 1 THEN s[i] ELSE f[i - 1] \o s[i]]

LEMMA JoinsExists == \A s : \A n \in Nat : \E f : Joins(f, s, n)
<1> TAKE s
<1> DEFINE S == { n \in Nat : \E f : Joins(f, s, n) }
<1>1. 0 \in S
  <2> DEFINE f == [i \in 1..0 |-> s[i]]
  <2>1. Joins(f, s, 0)
    BY DEF Joins
  <2> QED  BY <2>1
<1>2. ASSUME NEW n \in Nat, n \in S PROVE n + 1 \in S
  <2>1. PICK f : Joins(f, s, n)
    BY <1>2
  <2> DEFINE g == [i \in 1..(n + 1) |-> IF i = 1 THEN s[i] ELSE f[i - 1] \o s[i]]
  <2>2. \A i \in 1..n : f[i] = g[i]
    <3> TAKE i \in 1..n
    <3>1. f[i] = IF i = 1 THEN s[i] ELSE f[i - 1] \o s[i]
      BY <2>1 DEF Joins
    <3>2. i \in 1..(n + 1)
      OBVIOUS
    <3> QED  BY <3>1, <3>2
  <2>3. \A i \in 1..(n + 1) : i # 1 => f[i - 1] = g[i - 1]
    <3> SUFFICES ASSUME NEW i \in 1..(n + 1), i # 1 PROVE f[i - 1] = g[i - 1]
      OBVIOUS
    <3>1. i - 1 \in 1..n
      OBVIOUS
    <3> HIDE DEF g
    <3> QED  BY <2>2, <3>1
  <2>4. Joins(g, s, n + 1)
    BY <2>3 DEF Joins
  <2> QED  BY <2>4
<1> HIDE DEF S
<1>3. Nat \subseteq S
  BY <1>1, <1>2, Induction
<1> QED  BY <1>3 DEF S

LEMMA JoinsAt ==
    ASSUME NEW s, NEW f, NEW n, Joins(f, s, n), NEW i \in 1..n
    PROVE  f[i] = IF i = 1 THEN s[i] ELSE f[i - 1] \o s[i]
BY DEF Joins

\* Two such functions agree as far as the sequences do.
LEMMA JoinsAgree ==
    ASSUME NEW s, NEW r, NEW n \in Nat, NEW m \in Nat, NEW f, NEW g, Joins(f, s, n), Joins(g, r, m),
           NEW k \in Nat, k <= n, k <= m, \A i \in 1..k : s[i] = r[i]
    PROVE  \A i \in 1..k : f[i] = g[i]
<1> DEFINE S == { i \in Nat : i \in 1..k => f[i] = g[i] }
<1>1. 0 \in S
  OBVIOUS
<1>2. ASSUME NEW i \in Nat, i \in S PROVE i + 1 \in S
  <2> SUFFICES ASSUME i + 1 \in 1..k PROVE f[i + 1] = g[i + 1]
    OBVIOUS
  <2>1. /\ f[i + 1] = IF i + 1 = 1 THEN s[i + 1] ELSE f[(i + 1) - 1] \o s[i + 1]
        /\ g[i + 1] = IF i + 1 = 1 THEN r[i + 1] ELSE g[(i + 1) - 1] \o r[i + 1]
    <3>1. i + 1 \in 1..n /\ i + 1 \in 1..m
      OBVIOUS
    <3> QED  BY <3>1, JoinsAt
  <2>2. (i + 1) - 1 = i /\ s[i + 1] = r[i + 1]
    OBVIOUS
  <2>3. CASE i = 0
    BY <2>1, <2>2, <2>3
  <2>4. CASE i # 0
    <3>1. f[i] = g[i]
      BY <1>2, <2>4
    <3> QED  BY <2>1, <2>2, <2>4, <3>1
  <2> QED  BY <2>3, <2>4
<1> HIDE DEF S
<1>3. Nat \subseteq S
  BY <1>1, <1>2, Induction
<1> QED  BY <1>3 DEF S

\* What FlattenSeq is.
LEMMA FlattenIs ==
    ASSUME NEW s, Len(s) \in Nat \ {0}
    PROVE  \E f : Joins(f, s, Len(s)) /\ FlattenSeq(s) = f[Len(s)]
<1> DEFINE f == CHOOSE x : x = [i \in 1..Len(s) |-> IF i = 1 THEN s[i] ELSE x[i - 1] \o s[i]]
<1>1. \E x : x = [i \in 1..Len(s) |-> IF i = 1 THEN s[i] ELSE x[i - 1] \o s[i]]
  BY JoinsExists DEF Joins
<1>2. f = [i \in 1..Len(s) |-> IF i = 1 THEN s[i] ELSE f[i - 1] \o s[i]]
  BY <1>1
<1>3. FlattenSeq(s) = f[Len(s)]
  BY DEF FlattenSeq
<1> HIDE DEF f
<1> QED  BY <1>2, <1>3 DEF Joins

\* A sequence of sequences.
IsSeqs(s) == IsSeq(s) /\ \A i \in DOMAIN s : IsSeq(s[i])

\* One sequence after another.
LEMMA Concats ==
    ASSUME NEW a, NEW b, IsSeq(a), IsSeq(b)
    PROVE  /\ IsSeq(a \o b) /\ Len(a \o b) = Len(a) + Len(b) /\ Len(a) \in Nat /\ Len(b) \in Nat
           /\ DOMAIN a = 1..Len(a) /\ DOMAIN b = 1..Len(b)
           /\ DOMAIN (a \o b) = 1..(Len(a) + Len(b))
           /\ \A i \in 1..Len(a) : (a \o b)[i] = a[i]
           /\ \A i \in 1..Len(b) : (a \o b)[Len(a) + i] = b[i]
<1> DEFINE S == ToSet(a) \cup ToSet(b)
<1>1. a \in Seq(S) /\ b \in Seq(S)
  BY DEF IsSeq, ToSet
<1> HIDE DEF S
<1>2. a \o b \in Seq(S)
  BY <1>1
<1>3. IsSeq(a \o b)
  BY <1>2, SeqIsSeq
<1> QED  BY <1>1, <1>2, <1>3

LEMMA FlattenEmpty == FlattenSeq(<<>>) = <<>>
BY DEF FlattenSeq

\* One more sequence is added at the end.
LEMMA FlattenAppend ==
    ASSUME NEW s, IsSeqs(s), NEW x, IsSeq(x)
    PROVE  FlattenSeq(Append(s, x)) = FlattenSeq(s) \o x
<1> DEFINE r == Append(s, x)
           n == Len(s)
<1>1. /\ IsSeq(r) /\ Len(r) = n + 1 /\ n \in Nat /\ DOMAIN s = 1..n
      /\ r[n + 1] = x /\ \A i \in 1..n : r[i] = s[i]
  BY Appends DEF IsSeqs
<1> HIDE DEF r
<1>2. PICK g : Joins(g, r, n + 1) /\ FlattenSeq(r) = g[n + 1]
  BY <1>1, FlattenIs
<1>3. g[n + 1] = IF n + 1 = 1 THEN x ELSE g[(n + 1) - 1] \o x
  <2>1. n + 1 \in 1..(n + 1)
    BY <1>1
  <2> QED  BY <1>1, <1>2, <2>1, JoinsAt
<1>4. ASSUME n = 0 PROVE FlattenSeq(r) = FlattenSeq(s) \o x
  <2>1. s = <<>>
    BY <1>4, <1>1 DEF IsSeqs, IsSeq
  <2>2. <<>> \o x = x
    BY DEF IsSeq
  <2>3. g[n + 1] = x
    BY <1>3, <1>4
  <2>4. FlattenSeq(s) = <<>>
    BY <2>1, FlattenEmpty
  <2> QED  BY <1>2, <2>2, <2>3, <2>4
<1>5. ASSUME n # 0 PROVE FlattenSeq(r) = FlattenSeq(s) \o x
  <2>1. PICK f : Joins(f, s, n) /\ FlattenSeq(s) = f[n]
    BY <1>1, <1>5, FlattenIs
  <2>2. \A i \in 1..n : f[i] = g[i]
    <3>1. n \in Nat /\ n + 1 \in Nat /\ n <= n /\ n <= n + 1 /\ \A i \in 1..n : s[i] = r[i]
      BY <1>1
    <3> HIDE DEF n
    <3> QED  BY <1>2, <2>1, <3>1, JoinsAgree
  <2>3. n \in 1..n /\ (n + 1) - 1 = n
    BY <1>1, <1>5
  <2>4. g[n + 1] = g[n] \o x
    BY <1>1, <1>3, <1>5, <2>3
  <2> QED  BY <1>2, <2>1, <2>2, <2>3, <2>4
<1> QED  BY <1>4, <1>5 DEF r

\* It is a sequence.
LEMMA FlattenIsSeq == ASSUME NEW s, IsSeqs(s) PROVE IsSeq(FlattenSeq(s))
<1> DEFINE n == Len(s)
<1>1. n \in Nat /\ DOMAIN s = 1..n /\ \A i \in 1..n : IsSeq(s[i])
  BY SeqDomain DEF IsSeqs
<1>2. CASE n = 0
  <2>1. s = <<>> /\ IsSeq(<<>>)
    BY <1>2 DEF IsSeqs, IsSeq, ToSet
  <2> QED  BY <2>1, FlattenEmpty
<1>3. CASE n # 0
  <2>1. PICK f : Joins(f, s, n) /\ FlattenSeq(s) = f[n]
    BY <1>1, <1>3, FlattenIs
  <2> HIDE DEF n
  <2> DEFINE S == { i \in Nat : i \in 1..n => IsSeq(f[i]) }
  <2>2. 0 \in S
    OBVIOUS
  <2>3. ASSUME NEW i \in Nat, i \in S PROVE i + 1 \in S
    <3> SUFFICES ASSUME i + 1 \in 1..n PROVE IsSeq(f[i + 1])
      OBVIOUS
    <3>1. f[i + 1] = IF i + 1 = 1 THEN s[i + 1] ELSE f[(i + 1) - 1] \o s[i + 1]
      BY <2>1, JoinsAt
    <3>2. IsSeq(s[i + 1]) /\ (i + 1) - 1 = i
      BY <1>1
    <3>3. CASE i = 0
      BY <3>1, <3>2, <3>3
    <3>4. CASE i # 0
      <4>1. IsSeq(f[i])
        BY <1>1, <2>3, <3>4
      <4>2. i + 1 # 1
        BY <3>4
      <4>3. f[i + 1] = f[i] \o s[i + 1]
        BY <3>1, <3>2, <4>2
      <4> QED  BY <4>1, <4>3, <3>2, Concats
    <3> QED  BY <3>3, <3>4
  <2> HIDE DEF S
  <2>4. Nat \subseteq S
    BY <2>2, <2>3, Induction
  <2> QED  BY <1>1, <1>3, <2>1, <2>4 DEF S
<1> QED  BY <1>2, <1>3

\* What a function over 1..n is.
LEMMA FunIsSeq ==
    ASSUME NEW n \in Nat, NEW f, f = [i \in 1..n |-> f[i]]
    PROVE  IsSeq(f) /\ Len(f) = n /\ DOMAIN f = 1..n
<1>1. f \in Seq(ToSet(f))
  BY DEF ToSet
<1> QED  BY <1>1 DEF IsSeq

\* Sequences with the same elements are the same.
LEMMA SameSeq ==
    ASSUME NEW a, NEW b, IsSeq(a), IsSeq(b), Len(a) = Len(b), \A i \in 1..Len(a) : a[i] = b[i]
    PROVE  a = b
<1> DEFINE S == ToSet(a) \cup ToSet(b)
<1>1. a \in Seq(S) /\ b \in Seq(S)
  BY DEF IsSeq, ToSet
<1> HIDE DEF S
<1> QED  BY <1>1, SeqEqual
-----------------------------------------------------------------------------
(***************************************************************************)
(* The layouts and the images, round by round.                             *)
(***************************************************************************)
ScalarLayouts ==
    [t \in DOMAIN Scalars |-> [size |-> Scalars[t][1], align |-> Scalars[t][1], offset |-> <<>>]]

LayoutStep(known) ==
    [t \in Known(known) \cup DOMAIN known |->
        IF t \in Known(known) THEN LayoutOf(t, UsedBy(t, known)) ELSE known[t]]

ScalarImages == [t \in DOMAIN Scalars |-> ScalarBytes(<<>>, Scalars[t][2], SizeOf(t))]

ImageStep(known) ==
    [t \in Known(known) \cup DOMAIN known |->
        IF t \in Known(known) THEN MemoryOf(t, UsedBy(t, known)) ELSE known[t]]

LEMMA LayoutsAre ==
    /\ Layouts[0] = ScalarLayouts
    /\ \A d \in 0..2 : Layouts[d + 1] = LayoutStep(Layouts[d])
    /\ Layout = Layouts[3]
<1> DEFINE a == ScalarLayouts
           b == LayoutStep(a)
           c == LayoutStep(b)
           e == LayoutStep(c)
           f == [d \in 0..3 |-> IF d = 0 THEN a ELSE IF d = 1 THEN b ELSE IF d = 2 THEN c ELSE e]
           Is(g) == g = [depth \in 0..3 |-> IF depth = 0 THEN ScalarLayouts
                                            ELSE LayoutStep(g[depth - 1])]
<1>1. Is(f)
  <2>1. \A d \in 0..3 : f[d] = IF d = 0 THEN ScalarLayouts ELSE LayoutStep(f[d - 1])
    <3> TAKE d \in 0..3
    <3>1. d \in {0, 1, 2, 3}
      OBVIOUS
    <3>2. f[0] = a /\ f[1] = b /\ f[2] = c /\ f[3] = e
      OBVIOUS
    <3> HIDE DEF f
    <3>3. 1 - 1 = 0 /\ 2 - 1 = 1 /\ 3 - 1 = 2 /\ 1 # 0 /\ 2 # 0 /\ 3 # 0
      OBVIOUS
    <3> QED  BY <3>1, <3>2, <3>3
  <2> DEFINE g == [depth \in 0..3 |-> IF depth = 0 THEN ScalarLayouts ELSE LayoutStep(f[depth - 1])]
  <2>2. \A d \in 0..3 : f[d] = g[d]
    BY <2>1
  <2>3. f = g
    BY <2>2
  <2> QED  BY <2>3
<1> HIDE DEF f
<1>2. Is(Layouts)
  <2>1. Layouts = CHOOSE g : Is(g)
    BY DEF Layouts, ScalarLayouts, LayoutStep
  <2> HIDE DEF Is
  <2> QED  BY <1>1, <2>1
<1>3. Layouts[0] = ScalarLayouts
  BY <1>2
<1>4. ASSUME NEW d \in 0..2 PROVE Layouts[d + 1] = LayoutStep(Layouts[d])
  <2>1. d + 1 \in 0..3 /\ d + 1 # 0 /\ (d + 1) - 1 = d
    OBVIOUS
  <2> QED  BY <1>2, <2>1
<1> QED  BY <1>3, <1>4 DEF Layout
LEMMA ImagesAre ==
    /\ Images[0] = ScalarImages
    /\ \A d \in 0..2 : Images[d + 1] = ImageStep(Images[d])
    /\ Memory = Images[3]
<1> DEFINE a == ScalarImages
           b == ImageStep(a)
           c == ImageStep(b)
           e == ImageStep(c)
           f == [d \in 0..3 |-> IF d = 0 THEN a ELSE IF d = 1 THEN b ELSE IF d = 2 THEN c ELSE e]
           Is(g) == g = [depth \in 0..3 |-> IF depth = 0 THEN ScalarImages
                                            ELSE ImageStep(g[depth - 1])]
<1>1. Is(f)
  <2>1. \A d \in 0..3 : f[d] = IF d = 0 THEN ScalarImages ELSE ImageStep(f[d - 1])
    <3> TAKE d \in 0..3
    <3>1. d \in {0, 1, 2, 3}
      OBVIOUS
    <3>2. f[0] = a /\ f[1] = b /\ f[2] = c /\ f[3] = e
      OBVIOUS
    <3> HIDE DEF f
    <3>3. 1 - 1 = 0 /\ 2 - 1 = 1 /\ 3 - 1 = 2 /\ 1 # 0 /\ 2 # 0 /\ 3 # 0
      OBVIOUS
    <3> QED  BY <3>1, <3>2, <3>3
  <2> DEFINE g == [depth \in 0..3 |-> IF depth = 0 THEN ScalarImages ELSE ImageStep(f[depth - 1])]
  <2>2. \A d \in 0..3 : f[d] = g[d]
    BY <2>1
  <2>3. f = g
    BY <2>2
  <2> QED  BY <2>3
<1> HIDE DEF f
<1>2. Is(Images)
  <2>1. Images = CHOOSE g : Is(g)
    BY DEF Images, ScalarImages, ImageStep
  <2> HIDE DEF Is
  <2> QED  BY <1>1, <2>1
<1>3. Images[0] = ScalarImages
  BY <1>2
<1>4. ASSUME NEW d \in 0..2 PROVE Images[d + 1] = ImageStep(Images[d])
  <2>1. d + 1 \in 0..3 /\ d + 1 # 0 /\ (d + 1) - 1 = d
    OBVIOUS
  <2> QED  BY <1>2, <2>1
<1> QED  BY <1>3, <1>4 DEF Memory

\* A series of tables, each with what can be found from the one before laid over it: an
\* entry depends on those of the types of its fields.
Rounds(T) ==
    /\ DOMAIN T[0] = DOMAIN Scalars
    /\ \A d \in 0..2 : DOMAIN T[d + 1] = Known(T[d]) \cup DOMAIN T[d]
    /\ \A d \in 0..2 : \A t \in DOMAIN T[d] : t \notin Known(T[d]) => T[d + 1][t] = T[d][t]
    /\ \A d, e \in 0..2 : \A t \in Known(T[d]) \cap Known(T[e]) :
           UsedBy(t, T[d]) = UsedBy(t, T[e]) => T[d + 1][t] = T[e + 1][t]

LEMMA LayoutRounds == Rounds(Layouts)
<1>1. Layouts[0] = ScalarLayouts /\ \A d \in 0..2 : Layouts[d + 1] = LayoutStep(Layouts[d])
  BY LayoutsAre
<1>2. DOMAIN Layouts[0] = DOMAIN Scalars
  BY <1>1 DEF ScalarLayouts
<1>3. ASSUME NEW d \in 0..2
      PROVE  /\ DOMAIN Layouts[d + 1] = Known(Layouts[d]) \cup DOMAIN Layouts[d]
             /\ \A t \in DOMAIN Layouts[d] : t \notin Known(Layouts[d]) => Layouts[d + 1][t] = Layouts[d][t]
             /\ \A t \in Known(Layouts[d]) : Layouts[d + 1][t] = LayoutOf(t, UsedBy(t, Layouts[d]))
  BY <1>1 DEF LayoutStep
<1>4. ASSUME NEW d \in 0..2, NEW e \in 0..2, NEW t \in Known(Layouts[d]) \cap Known(Layouts[e]),
             UsedBy(t, Layouts[d]) = UsedBy(t, Layouts[e])
      PROVE  Layouts[d + 1][t] = Layouts[e + 1][t]
  <2>1. /\ Layouts[d + 1][t] = LayoutOf(t, UsedBy(t, Layouts[d]))
        /\ Layouts[e + 1][t] = LayoutOf(t, UsedBy(t, Layouts[e]))
    BY <1>3
  <2> QED  BY <1>4, <2>1
<1> QED  BY <1>2, <1>3, <1>4 DEF Rounds

LEMMA ImageRounds == Rounds(Images)
<1>1. Images[0] = ScalarImages /\ \A d \in 0..2 : Images[d + 1] = ImageStep(Images[d])
  BY ImagesAre
<1>2. DOMAIN Images[0] = DOMAIN Scalars
  BY <1>1 DEF ScalarImages
<1>3. ASSUME NEW d \in 0..2
      PROVE  /\ DOMAIN Images[d + 1] = Known(Images[d]) \cup DOMAIN Images[d]
             /\ \A t \in DOMAIN Images[d] : t \notin Known(Images[d]) => Images[d + 1][t] = Images[d][t]
             /\ \A t \in Known(Images[d]) : Images[d + 1][t] = MemoryOf(t, UsedBy(t, Images[d]))
  BY <1>1 DEF ImageStep
<1>4. ASSUME NEW d \in 0..2, NEW e \in 0..2, NEW t \in Known(Images[d]) \cap Known(Images[e]),
             UsedBy(t, Images[d]) = UsedBy(t, Images[e])
      PROVE  Images[d + 1][t] = Images[e + 1][t]
  <2>1. /\ Images[d + 1][t] = MemoryOf(t, UsedBy(t, Images[d]))
        /\ Images[e + 1][t] = MemoryOf(t, UsedBy(t, Images[e]))
    BY <1>3
  <2> QED  BY <1>4, <2>1
<1> QED  BY <1>2, <1>3, <1>4 DEF Rounds

\* What is in one table is, unchanged, in the next; a struct in it has been found from the
\* one before.
LEMMA RoundsGrow ==
    ASSUME NEW T, Rounds(T), DOMAIN Scalars \cap DOMAIN Structs = {}, NEW d \in 0..2
    PROVE  /\ DOMAIN T[d] \subseteq DOMAIN T[d + 1]
           /\ \A t \in DOMAIN T[d] : T[d + 1][t] = T[d][t]
           /\ DOMAIN T[d] \cap DOMAIN Structs \subseteq Known(T[d])
<1> DEFINE G(e) == /\ \A t \in DOMAIN T[e] : T[e + 1][t] = T[e][t]
                   /\ DOMAIN T[e] \cap DOMAIN Structs \subseteq Known(T[e])
<1>1. \A e \in 0..2 : DOMAIN T[e] \subseteq DOMAIN T[e + 1] /\ Known(T[e]) \subseteq DOMAIN Structs
  BY DEF Rounds, Known
<1>2. G(0)
  <2>1. 0 \in 0..2
    OBVIOUS
  <2> QED  BY <1>1, <2>1 DEF Rounds
<1>3. ASSUME NEW e \in 0..1, G(e) PROVE G(e + 1)
  <2>1. e \in 0..2 /\ e + 1 \in 0..2
    OBVIOUS
  <2>2. ASSUME NEW t \in Known(T[e]) PROVE t \in Known(T[e + 1]) /\ T[(e + 1) + 1][t] = T[e + 1][t]
    <3>1. \A i \in DOMAIN Structs[t] : Structs[t][i].type \in DOMAIN T[e]
      BY DEF Known
    <3>2. t \in Known(T[e + 1])
      BY <1>1, <2>1, <3>1 DEF Known
    <3>3. UsedBy(t, T[e]) = UsedBy(t, T[e + 1])
      BY <1>3, <3>1 DEF UsedBy
    <3> QED  BY <2>1, <3>2, <3>3 DEF Rounds
  <2>3. ASSUME NEW t \in DOMAIN T[e + 1], t \notin Known(T[e])
        PROVE  t \notin DOMAIN Structs /\ T[(e + 1) + 1][t] = T[e + 1][t]
    <3>1. t \in DOMAIN T[e]
      BY <2>1, <2>3 DEF Rounds
    <3>2. t \notin DOMAIN Structs
      BY <1>3, <2>3, <3>1
    <3>3. t \notin Known(T[e + 1])
      BY <3>2, <1>1, <2>1
    <3> QED  BY <2>1, <3>2, <3>3 DEF Rounds
  <2> QED  BY <2>2, <2>3
<1>4. G(1) /\ G(2)
  <2>1. 0 \in 0..1 /\ 1 \in 0..1 /\ 0 + 1 = 1 /\ 1 + 1 = 2
    OBVIOUS
  <2> HIDE DEF G
  <2>2. G(0 + 1)
    BY <1>2, <1>3, <2>1
  <2>3. G(1 + 1)
    BY <1>3, <2>1, <2>2
  <2> QED  BY <2>1, <2>2, <2>3
<1>5. d \in {0, 1, 2}
  OBVIOUS
<1>6. G(d)
  <2> HIDE DEF G
  <2> QED  BY <1>2, <1>4, <1>5
<1> QED  BY <1>1, <1>6
LEMMA ScalarsAreNoStructs == Formattable => DOMAIN Scalars \cap DOMAIN Structs = {}
BY DEF Formattable, IsClass

\* In the last table, each struct is found from the types in that table.
LEMMA RoundsSettle ==
    ASSUME NEW T, Rounds(T), DOMAIN Scalars \cap DOMAIN Structs = {}
    PROVE  /\ \A t \in DOMAIN Scalars : t \in DOMAIN T[3] /\ T[3][t] = T[0][t]
           /\ \A t \in DOMAIN T[3] \cap DOMAIN Structs :
                  /\ t \in Known(T[2]) /\ UsedBy(t, T[2]) = UsedBy(t, T[3])
                  /\ \A i \in DOMAIN Structs[t] : Structs[t][i].type \in DOMAIN T[3]
<1>1. 0 \in 0..2 /\ 1 \in 0..2 /\ 2 \in 0..2 /\ 0 + 1 = 1 /\ 1 + 1 = 2 /\ 2 + 1 = 3
  OBVIOUS
<1>2. /\ DOMAIN T[0] \subseteq DOMAIN T[1] /\ \A t \in DOMAIN T[0] : T[1][t] = T[0][t]
      /\ DOMAIN T[1] \subseteq DOMAIN T[2] /\ \A t \in DOMAIN T[1] : T[2][t] = T[1][t]
      /\ DOMAIN T[2] \subseteq DOMAIN T[3] /\ \A t \in DOMAIN T[2] : T[3][t] = T[2][t]
      /\ DOMAIN T[2] \cap DOMAIN Structs \subseteq Known(T[2])
  BY <1>1, RoundsGrow
<1>3. DOMAIN T[0] = DOMAIN Scalars /\ DOMAIN T[3] = Known(T[2]) \cup DOMAIN T[2]
  BY <1>1 DEF Rounds
<1>4. ASSUME NEW t \in DOMAIN T[3] \cap DOMAIN Structs
      PROVE  /\ t \in Known(T[2]) /\ UsedBy(t, T[2]) = UsedBy(t, T[3])
             /\ \A i \in DOMAIN Structs[t] : Structs[t][i].type \in DOMAIN T[3]
  <2>1. t \in Known(T[2])
    BY <1>2, <1>3
  <2>2. \A i \in DOMAIN Structs[t] : Structs[t][i].type \in DOMAIN T[2]
    BY <2>1 DEF Known
  <2>3. UsedBy(t, T[2]) = UsedBy(t, T[3])
    BY <1>2, <2>2 DEF UsedBy
  <2> QED  BY <1>2, <2>1, <2>2, <2>3
<1> QED  BY <1>2, <1>3, <1>4

\* The tables have layouts and images of the same types.
LEMMA SameTypes == \A d \in 0..3 : DOMAIN Layouts[d] = DOMAIN Images[d]
<1>1. Rounds(Layouts) /\ Rounds(Images)
  BY LayoutRounds, ImageRounds
<1>2. DOMAIN Layouts[0] = DOMAIN Images[0]
  BY <1>1 DEF Rounds
<1>3. ASSUME NEW d \in 0..2, DOMAIN Layouts[d] = DOMAIN Images[d]
      PROVE  DOMAIN Layouts[d + 1] = DOMAIN Images[d + 1]
  <2>1. Known(Layouts[d]) = Known(Images[d])
    BY <1>3 DEF Known
  <2> QED  BY <1>1, <1>3, <2>1 DEF Rounds
<1>4. 0 \in 0..2 /\ 1 \in 0..2 /\ 2 \in 0..2 /\ 0 + 1 = 1 /\ 1 + 1 = 2 /\ 2 + 1 = 3
  OBVIOUS
<1>5. DOMAIN Layouts[1] = DOMAIN Images[1]
  BY <1>2, <1>3, <1>4
<1>6. DOMAIN Layouts[2] = DOMAIN Images[2]
  BY <1>3, <1>4, <1>5
<1>7. DOMAIN Layouts[3] = DOMAIN Images[3]
  BY <1>3, <1>4, <1>6
<1>8. \A d \in 0..3 : d \in {0, 1, 2, 3}
  OBVIOUS
<1> QED  BY <1>2, <1>5, <1>6, <1>7, <1>8

\* A scalar is laid out by its size; a struct from the layouts of its fields, and its image
\* from theirs.
LEMMA LaidOut ==
    ASSUME Formattable
    PROVE  /\ DOMAIN Memory = DOMAIN Layout
           /\ \A t \in DOMAIN Scalars :
                  /\ t \in DOMAIN Layout
                  /\ Layout[t] = [size |-> Scalars[t][1], align |-> Scalars[t][1], offset |-> <<>>]
                  /\ Memory[t] = ScalarBytes(<<>>, Scalars[t][2], SizeOf(t))
           /\ \A t \in DOMAIN Structs :
                  /\ Layout[t] = LayoutOf(t, UsedBy(t, Layout))
                  /\ Memory[t] = MemoryOf(t, UsedBy(t, Memory))
                  /\ \A i \in DOMAIN Structs[t] : Structs[t][i].type \in DOMAIN Layout
<1>1. DOMAIN Scalars \cap DOMAIN Structs = {}
  BY ScalarsAreNoStructs
<1>2. Rounds(Layouts) /\ Rounds(Images)
  BY LayoutRounds, ImageRounds
<1>3. /\ Layout = Layouts[3] /\ Layouts[0] = ScalarLayouts /\ Layouts[3] = LayoutStep(Layouts[2])
      /\ Memory = Images[3] /\ Images[0] = ScalarImages /\ Images[3] = ImageStep(Images[2])
  <2>1. 2 \in 0..2 /\ 2 + 1 = 3
    OBVIOUS
  <2> QED  BY <2>1, LayoutsAre, ImagesAre
<1>4. DOMAIN Memory = DOMAIN Layout
  <2>1. 3 \in 0..3
    OBVIOUS
  <2> QED  BY <1>3, <2>1, SameTypes
<1>5. \A t \in DOMAIN Scalars :
          /\ t \in DOMAIN Layout
          /\ Layout[t] = [size |-> Scalars[t][1], align |-> Scalars[t][1], offset |-> <<>>]
          /\ Memory[t] = ScalarBytes(<<>>, Scalars[t][2], SizeOf(t))
  BY <1>1, <1>2, <1>3, RoundsSettle DEF ScalarLayouts, ScalarImages
<1>6. ASSUME NEW t \in DOMAIN Structs
      PROVE  /\ Layout[t] = LayoutOf(t, UsedBy(t, Layout))
             /\ Memory[t] = MemoryOf(t, UsedBy(t, Memory))
             /\ \A i \in DOMAIN Structs[t] : Structs[t][i].type \in DOMAIN Layout
  <2>1. t \in DOMAIN Layout /\ t \in DOMAIN Memory
    BY <1>4 DEF Formattable
  <2>2. /\ t \in Known(Layouts[2]) /\ UsedBy(t, Layouts[2]) = UsedBy(t, Layout)
        /\ \A i \in DOMAIN Structs[t] : Structs[t][i].type \in DOMAIN Layout
    BY <1>1, <1>2, <1>3, <2>1, RoundsSettle
  <2>3. t \in Known(Images[2]) /\ UsedBy(t, Images[2]) = UsedBy(t, Memory)
    BY <1>1, <1>2, <1>3, <2>1, RoundsSettle
  <2>4. Layout[t] = LayoutOf(t, UsedBy(t, Layouts[2]))
    BY <1>3, <2>2 DEF LayoutStep
  <2>5. Memory[t] = MemoryOf(t, UsedBy(t, Images[2]))
    BY <1>3, <2>3 DEF ImageStep
  <2> QED  BY <2>2, <2>3, <2>4, <2>5
<1> QED  BY <1>4, <1>5, <1>6
-----------------------------------------------------------------------------
(***************************************************************************)
(* Where the fields of a struct lie.                                       *)
(***************************************************************************)
\* The next multiple of a, from n on.
LEMMA AlignUpIs ==
    ASSUME NEW n \in Nat, NEW a \in Nat \ {0}
    PROVE  AlignUp(n, a) \in Nat /\ n <= AlignUp(n, a)
<1> DEFINE q == (n + a - 1) \div a
           r == (n + a - 1) % a
<1>1. n + a - 1 \in Nat
  OBVIOUS
<1>2. q \in Nat /\ r \in 0..(a - 1) /\ n + a - 1 = a * q + r
  BY <1>1
<1>3. AlignUp(n, a) = q * a
  BY DEF AlignUp
<1> HIDE DEF q, r
<1>4. a * q = q * a /\ q * a \in Nat
  BY <1>2
<1>5. n <= a * q
  <2> DEFINE p == a * q
  <2>1. p \in Nat /\ n + a - 1 = p + r
    BY <1>2, <1>4
  <2> HIDE DEF p
  <2>2. n <= p
    BY <1>2, <2>1
  <2> QED  BY <2>2 DEF p
<1> QED  BY <1>3, <1>4, <1>5

\* A finite nonempty set of numbers has a greatest one.
LEMMA MaxIs ==
    ASSUME NEW n \in Nat \ {0}, NEW f, \A i \in 1..n : f[i] \in Nat
    PROVE  Max({ f[i] : i \in 1..n }) \in { f[i] : i \in 1..n }
<1> DEFINE S == { k \in Nat : k \in 1..n => \E m \in 1..k : \A i \in 1..k : f[i] <= f[m] }
<1>1. 0 \in S
  OBVIOUS
<1>2. ASSUME NEW k \in Nat, k \in S PROVE k + 1 \in S
  <2> SUFFICES ASSUME k + 1 \in 1..n PROVE \E m \in 1..(k + 1) : \A i \in 1..(k + 1) : f[i] <= f[m]
    OBVIOUS
  <2>1. CASE k = 0
    <3>1. \A i \in 1..(k + 1) : i = 1
      BY <2>1
    <3>2. 1 \in 1..(k + 1) /\ f[1] <= f[1]
      OBVIOUS
    <3> QED  BY <3>1, <3>2
  <2>2. CASE k # 0
    <3>1. PICK m \in 1..k : \A i \in 1..k : f[i] <= f[m]
      BY <1>2, <2>2
    <3>2. \A i \in 1..(k + 1) : i \in 1..k \/ i = k + 1
      OBVIOUS
    <3>3. f[m] \in Nat /\ f[k + 1] \in Nat /\ m \in 1..(k + 1) /\ k + 1 \in 1..(k + 1)
      OBVIOUS
    <3>4. CASE f[k + 1] <= f[m]
      BY <3>1, <3>2, <3>3, <3>4
    <3>5. CASE ~(f[k + 1] <= f[m])
      <4>1. \A i \in 1..k : f[i] <= f[k + 1]
        <5> TAKE i \in 1..k
        <5>1. f[i] \in Nat /\ f[i] <= f[m]
          BY <3>1
        <5> QED  BY <3>3, <3>5, <5>1
      <4>2. f[k + 1] <= f[k + 1]
        BY <3>3
      <4> QED  BY <3>2, <3>3, <4>1, <4>2
    <3> QED  BY <3>4, <3>5
  <2> QED  BY <2>1, <2>2
<1> HIDE DEF S
<1>3. Nat \subseteq S
  BY <1>1, <1>2, Induction
<1>4. PICK m \in 1..n : \A i \in 1..n : f[i] <= f[m]
  BY <1>3 DEF S
<1> DEFINE A == { f[i] : i \in 1..n }
<1>5. f[m] \in A /\ \A y \in A : f[m] >= y
  BY <1>4
<1> HIDE DEF A
<1>6. Max(A) \in A
  BY <1>5 DEF Max
<1> QED  BY <1>6 DEF A

\* e[i] is where the first i fields of t end.
Ends(e, t, used, n) ==
    e = [i \in 0..n |-> IF i = 0 THEN 0
                        ELSE AlignUp(e[i - 1], used[i].align) + Structs[t][i].n * used[i].size]

LEMMA EndsExist == \A t, used : \A n \in Nat : \E e : Ends(e, t, used, n)
<1> TAKE t, used
<1> DEFINE S == { n \in Nat : \E e : Ends(e, t, used, n) }
           next(x, i) == AlignUp(x, used[i].align) + Structs[t][i].n * used[i].size
<1> HIDE DEF next
<1>1. 0 \in S
  <2> DEFINE e == [i \in 0..0 |-> 0]
  <2>1. Ends(e, t, used, 0)
    BY DEF Ends
  <2> QED  BY <2>1
<1>2. ASSUME NEW n \in Nat, n \in S PROVE n + 1 \in S
  <2>1. PICK e : Ends(e, t, used, n)
    BY <1>2
  <2> DEFINE g == [i \in 0..(n + 1) |-> IF i = 0 THEN 0 ELSE next(e[i - 1], i)]
  <2>2. \A i \in 0..n : e[i] = g[i]
    <3> TAKE i \in 0..n
    <3>1. e[i] = IF i = 0 THEN 0 ELSE next(e[i - 1], i)
      BY <2>1 DEF Ends, next
    <3>2. i \in 0..(n + 1)
      OBVIOUS
    <3> QED  BY <3>1, <3>2
  <2>3. \A i \in 0..(n + 1) : i # 0 => e[i - 1] = g[i - 1]
    <3> SUFFICES ASSUME NEW i \in 0..(n + 1), i # 0 PROVE e[i - 1] = g[i - 1]
      OBVIOUS
    <3>1. i - 1 \in 0..n
      OBVIOUS
    <3> HIDE DEF g
    <3> QED  BY <2>2, <3>1
  <2>4. g = [i \in 0..(n + 1) |-> IF i = 0 THEN 0 ELSE next(g[i - 1], i)]
    BY <2>3
  <2>5. Ends(g, t, used, n + 1)
    <3> HIDE DEF g
    <3> QED  BY <2>4 DEF Ends, next
  <2> QED  BY <2>5
<1> HIDE DEF S
<1>3. Nat \subseteq S
  BY <1>1, <1>2, Induction
<1> QED  BY <1>3 DEF S

LEMMA EndsAt ==
    ASSUME NEW t, NEW used, NEW n, NEW e, Ends(e, t, used, n), NEW i \in 0..n
    PROVE  e[i] = IF i = 0 THEN 0
                  ELSE AlignUp(e[i - 1], used[i].align) + Structs[t][i].n * used[i].size
BY DEF Ends
\* The layouts of the fields are such that the struct can be laid out.
Usable(t, used) ==
    /\ IsSeq(used) /\ Len(used) # 0 /\ DOMAIN Structs[t] = DOMAIN used
    /\ \A i \in DOMAIN used :
           used[i].size \in Nat /\ used[i].align \in Nat \ {0} /\ Structs[t][i].n \in Nat

\* The ends are numbers, and each field begins behind those before it.
LEMMA EndsClimb ==
    ASSUME NEW t, NEW used, Usable(t, used), NEW e, Ends(e, t, used, Len(used))
    PROVE  /\ \A i \in 0..Len(used) : e[i] \in Nat
           /\ \A i \in 1..Len(used) :
                  LET begin == AlignUp(e[i - 1], used[i].align)
                  IN  /\ begin \in Nat /\ e[i - 1] <= begin
                      /\ e[i] = begin + Structs[t][i].n * used[i].size
           /\ \A i, j \in 0..Len(used) : i <= j => e[i] <= e[j]
<1> DEFINE n == Len(used)
           begin(i) == AlignUp(e[i - 1], used[i].align)
           size(i) == Structs[t][i].n * used[i].size
<1>1. n \in Nat /\ DOMAIN used = 1..n
  BY SeqDomain DEF Usable
<1>2. \A i \in 1..n : size(i) \in Nat /\ used[i].align \in Nat \ {0}
  BY <1>1 DEF Usable
<1>3. e[0] = 0 /\ \A i \in 1..n : e[i] = begin(i) + size(i)
  <2>1. 0 \in 0..n /\ \A i \in 1..n : i \in 0..n /\ i # 0
    BY <1>1
  <2> QED  BY <2>1, EndsAt
<1> HIDE DEF n, size
<1> DEFINE S == { k \in Nat : k \in 0..n => \A i \in 0..k : e[i] \in Nat /\ e[i] <= e[k] }
<1>4. 0 \in S
  <2>1. \A i \in 0..0 : i = 0
    OBVIOUS
  <2> QED  BY <1>3, <2>1
<1>5. ASSUME NEW k \in Nat, e[k] \in Nat, k + 1 \in 1..n
      PROVE  begin(k + 1) \in Nat /\ e[k] <= begin(k + 1) /\ e[k + 1] \in Nat /\ e[k] <= e[k + 1]
  <2>1. (k + 1) - 1 = k
    OBVIOUS
  <2>2. begin(k + 1) \in Nat /\ e[k] <= begin(k + 1)
    BY <1>2, <1>5, <2>1, AlignUpIs
  <2> HIDE DEF begin
  <2> QED  BY <1>2, <1>3, <1>5, <2>2
<1>6. ASSUME NEW k \in Nat, k \in S PROVE k + 1 \in S
  <2> SUFFICES ASSUME k + 1 \in 0..n, NEW i \in 0..(k + 1)
               PROVE  e[i] \in Nat /\ e[i] <= e[k + 1]
    OBVIOUS
  <2>1. k \in 0..n /\ k + 1 \in 1..n /\ k \in 0..k
    BY <1>1
  <2>2. \A j \in 0..k : e[j] \in Nat /\ e[j] <= e[k]
    BY <1>6, <2>1
  <2>3. e[k + 1] \in Nat /\ e[k] <= e[k + 1]
    BY <1>5, <2>1, <2>2
  <2>4. CASE i = k + 1
    BY <2>3, <2>4
  <2>5. CASE i # k + 1
    <3>1. i \in 0..k
      BY <2>5
    <3>2. e[i] \in Nat /\ e[i] <= e[k] /\ e[k] \in Nat
      BY <2>1, <2>2, <3>1
    <3> QED  BY <2>3, <3>2
  <2> QED  BY <2>4, <2>5
<1>7. \A k \in 0..n : \A i \in 0..k : e[i] \in Nat /\ e[i] <= e[k]
  <2> HIDE DEF S
  <2>1. Nat \subseteq S
    BY <1>4, <1>6, Induction
  <2> QED  BY <1>1, <2>1 DEF S
<1>8. \A i \in 0..n : e[i] \in Nat
  <2> TAKE i \in 0..n
  <2>1. i \in 0..i
    OBVIOUS
  <2> QED  BY <1>7, <2>1
<1>9. \A i \in 1..n : begin(i) \in Nat /\ e[i - 1] <= begin(i) /\ e[i] = begin(i) + size(i)
  <2> TAKE i \in 1..n
  <2>1. i - 1 \in Nat /\ i - 1 \in 0..n /\ (i - 1) + 1 = i
    BY <1>1
  <2>2. e[i - 1] \in Nat
    BY <1>8, <2>1
  <2> QED  BY <1>3, <1>5, <2>1, <2>2
<1>10. \A i, j \in 0..n : i <= j => e[i] <= e[j]
  <2> TAKE i, j \in 0..n
  <2>1. i <= j => i \in 0..j
    OBVIOUS
  <2> QED  BY <1>7, <2>1
<1> QED  BY <1>8, <1>9, <1>10 DEF n, size

\* The layout of a struct: its fields lie one behind the other, and inside.
LEMMA StructLayout ==
    ASSUME NEW t, t # "shared_ptr", NEW used, Usable(t, used)
    PROVE  LET l == LayoutOf(t, used)
               end(i) == l.offset[i] + Structs[t][i].n * used[i].size
           IN  /\ l.size \in Nat /\ l.align \in Nat \ {0}
               /\ \A i \in DOMAIN used : l.offset[i] \in Nat /\ end(i) \in Nat /\ end(i) <= l.size
               /\ \A i, j \in DOMAIN used : i < j => end(i) <= l.offset[j]
<1> DEFINE n == Len(used)
           e == CHOOSE x : Ends(x, t, used, n)
           largest == Max({ used[i].align : i \in DOMAIN used })
           l == LayoutOf(t, used)
           end(i) == l.offset[i] + Structs[t][i].n * used[i].size
<1>1. n \in Nat \ {0} /\ DOMAIN used = 1..n
  BY SeqDomain DEF Usable
<1>2. l = [size |-> AlignUp(e[n], largest), align |-> largest,
           offset |-> [i \in DOMAIN used |-> AlignUp(e[i - 1], used[i].align)]]
  BY DEF LayoutOf, Ends
<1>3. Ends(e, t, used, n)
  BY <1>1, EndsExist
<1> HIDE DEF e
<1>4. /\ \A i \in 0..n : e[i] \in Nat
      /\ \A i \in 1..n : LET begin == AlignUp(e[i - 1], used[i].align)
                        IN  /\ begin \in Nat /\ e[i - 1] <= begin
                            /\ e[i] = begin + Structs[t][i].n * used[i].size
      /\ \A i, j \in 0..n : i <= j => e[i] <= e[j]
  BY <1>3, EndsClimb
<1>5. largest \in Nat \ {0}
  <2> DEFINE f == [i \in 1..n |-> used[i].align]
             A == { used[i].align : i \in DOMAIN used }
             B == { f[i] : i \in 1..n }
  <2>1. \A i \in 1..n : f[i] = used[i].align /\ f[i] \in Nat \ {0}
    BY <1>1 DEF Usable
  <2>2. A = B
    BY <1>1, <2>1
  <2> HIDE DEF f
  <2>3. Max(B) \in B
    BY <1>1, <2>1, MaxIs
  <2>4. B \subseteq Nat \ {0}
    BY <2>1
  <2> QED  BY <2>2, <2>3, <2>4
<1> HIDE DEF largest, l
<1>6. l.size = AlignUp(e[n], largest) /\ l.align = largest
      /\ \A i \in 1..n : l.offset[i] = AlignUp(e[i - 1], used[i].align)
  BY <1>1, <1>2
<1>7. n \in 0..n /\ \A i \in 1..n : i \in 0..n /\ i - 1 \in 0..n
  BY <1>1
<1>8. l.size \in Nat /\ e[n] <= l.size
  BY <1>4, <1>5, <1>6, <1>7, AlignUpIs
<1>9. \A i \in 1..n : /\ l.offset[i] \in Nat /\ end(i) = e[i] /\ e[i - 1] <= l.offset[i]
                      /\ e[i] \in Nat /\ e[i] <= e[n]
  BY <1>4, <1>6, <1>7
<1> HIDE DEF end
<1>10. \A i \in 1..n : l.offset[i] \in Nat /\ end(i) \in Nat /\ end(i) <= l.size
  <2> TAKE i \in 1..n
  <2>1. e[n] \in Nat
    BY <1>4, <1>7
  <2> QED  BY <1>8, <1>9, <2>1
<1>11. ASSUME NEW i \in 1..n, NEW j \in 1..n, i < j PROVE end(i) <= l.offset[j]
  <2>1. i \in 0..n /\ j - 1 \in 0..n /\ i <= j - 1
    BY <1>11
  <2>2. e[i] <= e[j - 1] /\ e[i] \in Nat /\ e[j - 1] \in Nat
    BY <1>4, <2>1
  <2> QED  BY <1>9, <2>2
<1> QED  BY <1>1, <1>5, <1>6, <1>8, <1>10, <1>11 DEF l, end
IsSized(l) == l.size \in Nat /\ l.align \in Nat \ {0}

\* What the compiler finds for the types of the fields lets it lay out the struct.
LEMMA UsedIsUsable ==
    ASSUME WellNested, Formattable, NEW t \in DOMAIN Structs, t # "shared_ptr", NEW known,
           \A i \in DOMAIN Structs[t] : IsSized(known[Structs[t][i].type])
    PROVE  Usable(t, UsedBy(t, known)) /\ DOMAIN UsedBy(t, known) = DOMAIN Structs[t]
<1>1. IsSeq(Structs[t]) /\ Len(Structs[t]) \in Nat /\ DOMAIN Structs[t] = 1..Len(Structs[t])
      /\ \A i \in DOMAIN Structs[t] : Structs[t][i] \in ToSet(Structs[t])
  BY FieldsAreDeclared
<1>2. Structs[t] # <<>> /\ \A f \in ToSet(Structs[t]) : f.n \in Nat
  BY DEF Formattable
<1>3. Len(Structs[t]) # 0
  BY <1>1, <1>2, Pops
<1> DEFINE used == UsedBy(t, known)
<1>4. used = [i \in 1..Len(Structs[t]) |-> used[i]]
      /\ \A i \in DOMAIN Structs[t] : used[i] = known[Structs[t][i].type]
  BY <1>1 DEF UsedBy
<1> HIDE DEF used
<1>5. IsSeq(used) /\ Len(used) = Len(Structs[t]) /\ DOMAIN used = DOMAIN Structs[t]
  BY <1>1, <1>4, FunIsSeq
<1>6. Usable(t, used)
  BY <1>1, <1>2, <1>3, <1>4, <1>5 DEF Usable, IsSized
<1> QED  BY <1>5, <1>6 DEF used

\* Every type has a size and an alignment.
LEMMA TypesAreSized ==
    ASSUME WellNested, Formattable PROVE \A t \in DOMAIN Layout : IsSized(Layout[t])
<1> DEFINE Ok(d) == \A t \in DOMAIN Layouts[d] : IsSized(Layouts[d][t])
<1>1. Layouts[0] = ScalarLayouts /\ Layout = Layouts[3]
      /\ \A d \in 0..2 : Layouts[d + 1] = LayoutStep(Layouts[d])
  BY LayoutsAre
<1>2. Ok(0)
  <2>1. \A t \in DOMAIN Scalars : Scalars[t][1] \in Nat \ {0}
    BY DEF Formattable
  <2> QED  BY <1>1, <2>1 DEF ScalarLayouts, IsSized
<1>3. ASSUME NEW d \in 0..2, Ok(d) PROVE Ok(d + 1)
  <2> DEFINE known == Layouts[d]
  <2>1. Layouts[d + 1] = LayoutStep(known)
    BY <1>1
  <2>2. \A t \in DOMAIN known : IsSized(known[t])
    BY <1>3
  <2> HIDE DEF known
  <2>3. ASSUME NEW t \in Known(known) PROVE IsSized(LayoutOf(t, UsedBy(t, known)))
    <3>1. t \in DOMAIN Structs /\ \A i \in DOMAIN Structs[t] : Structs[t][i].type \in DOMAIN known
      BY DEF Known
    <3>2. CASE t = "shared_ptr"
      BY <3>2 DEF LayoutOf, IsSized
    <3>3. CASE t # "shared_ptr"
      <4>1. Usable(t, UsedBy(t, known))
        BY <2>2, <3>1, <3>3, UsedIsUsable
      <4> QED  BY <3>3, <4>1, StructLayout DEF IsSized
    <3> QED  BY <3>2, <3>3
  <2> QED  BY <2>1, <2>2, <2>3 DEF LayoutStep
<1>4. 0 \in 0..2 /\ 1 \in 0..2 /\ 2 \in 0..2 /\ 0 + 1 = 1 /\ 1 + 1 = 2 /\ 2 + 1 = 3
  OBVIOUS
<1> HIDE DEF Ok
<1>5. Ok(3)
  BY <1>2, <1>3, <1>4
<1> QED  BY <1>1, <1>5 DEF Ok

\* The fields lie one behind the other inside of the struct.
LEMMA FieldsAscend ==
    ASSUME WellNested, Formattable, NEW t \in DOMAIN Structs, t # "shared_ptr"
    PROVE  /\ SizeOf(t) \in Nat
           /\ \A i \in DOMAIN Structs[t] :
                  /\ Begin(t, i) \in Nat /\ End(t, i) \in Nat /\ FieldSize(Structs[t][i]) \in Nat
                  /\ End(t, i) <= SizeOf(t)
                  /\ Structs[t][i].type \in DOMAIN Layout /\ SizeOf(Structs[t][i].type) \in Nat
                  /\ Structs[t][i].n \in Nat
           /\ \A i, j \in DOMAIN Structs[t] : i < j => End(t, i) <= Begin(t, j)
<1>1. /\ Layout[t] = LayoutOf(t, UsedBy(t, Layout))
      /\ \A i \in DOMAIN Structs[t] : Structs[t][i].type \in DOMAIN Layout
  BY LaidOut
<1>2. \A u \in DOMAIN Layout : IsSized(Layout[u])
  BY TypesAreSized
<1> DEFINE used == UsedBy(t, Layout)
<1>3. Usable(t, used) /\ DOMAIN used = DOMAIN Structs[t]
  BY <1>1, <1>2, UsedIsUsable
<1>4. \A i \in DOMAIN Structs[t] : used[i].size = SizeOf(Structs[t][i].type)
  BY DEF UsedBy, SizeOf
<1>5. Layout[t] = LayoutOf(t, used)
  BY <1>1
<1> HIDE DEF used
<1> DEFINE l == LayoutOf(t, used)
           end(i) == l.offset[i] + Structs[t][i].n * used[i].size
<1>6. /\ l.size \in Nat
      /\ \A i \in DOMAIN used : l.offset[i] \in Nat /\ end(i) \in Nat /\ end(i) <= l.size
      /\ \A i, j \in DOMAIN used : i < j => end(i) <= l.offset[j]
  BY <1>3, StructLayout
<1>7. \A i \in DOMAIN Structs[t] : end(i) = End(t, i) /\ l.offset[i] = Begin(t, i)
  BY <1>4, <1>5 DEF End, Begin, FieldSize
<1>8. l.size = SizeOf(t)
  BY <1>5 DEF SizeOf
<1> HIDE DEF l, end
<1>9. \A i \in DOMAIN Structs[t] :
          /\ Structs[t][i].type \in DOMAIN Layout /\ SizeOf(Structs[t][i].type) \in Nat
          /\ Structs[t][i].n \in Nat
  BY <1>1, <1>2, <1>3 DEF IsSized, SizeOf, Usable
<1>10. \A i \in DOMAIN Structs[t] : FieldSize(Structs[t][i]) \in Nat
  BY <1>9 DEF FieldSize
<1> QED  BY <1>3, <1>6, <1>7, <1>8, <1>9, <1>10
-----------------------------------------------------------------------------
(***************************************************************************)
(* What is in memory.                                                      *)
(***************************************************************************)
\* Every type is fundamental, an enumeration or a struct.
LEMMA TypesAreDeclared == DOMAIN Layout \subseteq DOMAIN Scalars \cup DOMAIN Structs
<1>1. Rounds(Layouts) /\ Layout = Layouts[3]
  BY LayoutRounds, LayoutsAre
<1>2. \A d \in 0..2 : DOMAIN Layouts[d + 1] \subseteq DOMAIN Structs \cup DOMAIN Layouts[d]
  BY <1>1 DEF Rounds, Known
<1>3. DOMAIN Layouts[0] = DOMAIN Scalars
  BY <1>1 DEF Rounds
<1>4. 0 \in 0..2 /\ 1 \in 0..2 /\ 2 \in 0..2 /\ 0 + 1 = 1 /\ 1 + 1 = 2 /\ 2 + 1 = 3
  OBVIOUS
<1> QED  BY <1>1, <1>2, <1>3, <1>4

\* An image has as many bytes as its type.
LEMMA ImagesAreSized ==
    ASSUME WellNested, Formattable, NEW t \in DOMAIN Layout
    PROVE  IsSeq(Memory[t]) /\ Len(Memory[t]) = SizeOf(t) /\ SizeOf(t) \in Nat
           /\ DOMAIN Memory[t] = 1..SizeOf(t)
<1>1. SizeOf(t) \in Nat
  BY TypesAreSized DEF IsSized, SizeOf
<1>2. Memory[t] = [k \in 1..SizeOf(t) |-> Memory[t][k]]
  <2>1. CASE t \in DOMAIN Scalars
    BY <2>1, LaidOut DEF ScalarBytes
  <2>2. CASE t \in DOMAIN Structs
    <3>1. Memory[t] = MemoryOf(t, UsedBy(t, Memory))
      BY <2>2, LaidOut
    <3> QED  BY <3>1 DEF MemoryOf
  <2> QED  BY <2>1, <2>2, TypesAreDeclared
<1> QED  BY <1>1, <1>2, FunIsSeq

\* The image of a field, given that of its type.
FieldImage(f, image) ==
    IF f.as = "one" THEN Within(f.name, image) ELSE Repeated(f.name, image, f.n)

LEMMA FieldIsSized ==
    ASSUME NEW f, NEW image, IsSeq(image), f.n \in Nat, f.as = "one" => f.n = 1
    PROVE  LET x == FieldImage(f, image)
               n == f.n * Len(image)
           IN  IsSeq(x) /\ Len(x) = n /\ n \in Nat /\ DOMAIN x = 1..n
<1> DEFINE x == FieldImage(f, image)
           m == Len(image)
           n == f.n * m
<1>1. m \in Nat /\ DOMAIN image = 1..m
  BY SeqDomain
<1>2. n \in Nat
  BY <1>1
<1>3. x = [k \in 1..n |-> x[k]]
  <2>1. CASE f.as = "one"
    <3>1. x = Within(f.name, image)
      BY <2>1 DEF FieldImage
    <3>2. n = m
      BY <1>1, <2>1
    <3> QED  BY <1>1, <3>1, <3>2 DEF Within
  <2>2. CASE f.as # "one"
    <3>1. x = Repeated(f.name, image, f.n)
      BY <2>2 DEF FieldImage
    <3> QED  BY <3>1 DEF Repeated
  <2> QED  BY <2>1, <2>2
<1> HIDE DEF x, n
<1>4. IsSeq(x) /\ Len(x) = n /\ DOMAIN x = 1..n
  BY <1>2, <1>3, FunIsSeq
<1> QED  BY <1>2, <1>4 DEF x, n

\* A byte inside of a field is that of the field, a byte outside of all fields is padding.
LEMMA MemoryAt ==
    ASSUME WellNested, Formattable, NEW t \in DOMAIN Structs, t # "shared_ptr", NEW k \in 1..SizeOf(t)
    PROVE  /\ \A i \in DOMAIN Structs[t] :
                  Begin(t, i) < k /\ k <= End(t, i) =>
                      Memory[t][k] = FieldImage(Structs[t][i], Memory[Structs[t][i].type])[k - Begin(t, i)]
           /\ (\A i \in DOMAIN Structs[t] : ~(Begin(t, i) < k /\ k <= End(t, i))) =>
                  Memory[t][k] = Pad
<1> DEFINE at == { i \in DOMAIN Structs[t] : Begin(t, i) < k /\ k <= End(t, i) }
           image == [i \in DOMAIN Structs[t] |->
                         FieldImage(Structs[t][i], UsedBy(t, Memory)[i])]
           it == CHOOSE j \in at : TRUE
<1>1. Memory[t] = MemoryOf(t, UsedBy(t, Memory))
  BY ONLY Formattable, t \in DOMAIN Structs, LaidOut, Zenon
<1>2. Memory[t][k] = IF at = {} THEN Pad ELSE image[it][k - Begin(t, it)]
  BY <1>1 DEF MemoryOf, Begin, End, FieldImage
<1>3. \A i \in DOMAIN Structs[t] :
          image[i] = FieldImage(Structs[t][i], Memory[Structs[t][i].type])
  BY DEF UsedBy
<1> HIDE DEF image
<1>4. /\ \A i \in DOMAIN Structs[t] : Begin(t, i) \in Nat /\ End(t, i) \in Nat
      /\ \A i, j \in DOMAIN Structs[t] : i < j => End(t, i) <= Begin(t, j)
      /\ DOMAIN Structs[t] \subseteq Nat
  BY FieldsAscend, FieldsAreDeclared
<1>5. ASSUME NEW i \in at, NEW j \in at PROVE i = j
  <2>1. i \in Nat /\ j \in Nat /\ Begin(t, i) < k /\ k <= End(t, i) /\ Begin(t, j) < k /\ k <= End(t, j)
    BY <1>4
  <2>2. ~(i < j) /\ ~(j < i)
    BY <1>4, <2>1
  <2> QED  BY <2>1, <2>2
<1>6. ASSUME NEW i \in DOMAIN Structs[t], Begin(t, i) < k /\ k <= End(t, i)
      PROVE  Memory[t][k] = FieldImage(Structs[t][i], Memory[Structs[t][i].type])[k - Begin(t, i)]
  <2>1. i \in at
    BY <1>6
  <2>2. it = i /\ at # {}
    BY <1>5, <2>1
  <2> QED  BY <1>2, <1>3, <2>2
<1>7. (\A i \in DOMAIN Structs[t] : ~(Begin(t, i) < k /\ k <= End(t, i))) => at = {}
  OBVIOUS
<1> QED  BY <1>2, <1>6, <1>7
-----------------------------------------------------------------------------
(***************************************************************************)
(* What the collected code writes.                                         *)
(***************************************************************************)
IsFormat(fmt) == IsSeq(fmt) /\ \A i \in DOMAIN fmt : IsSeq(ItemBytes(fmt[i]))

IsCode(code) == IsSeq(code) /\ \A k \in DOMAIN code : IsSeq(OpBytes(code[k]))

\* A sequence that continues another by one element.
LEMMA Continues ==
    ASSUME NEW f, IsSeq(f), NEW g, IsSeq(g), Len(g) = Len(f) + 1, \A i \in DOMAIN f : g[i] = f[i]
    PROVE  g = Append(f, g[Len(f) + 1])
<1> DEFINE n == Len(f)
           h == Append(f, g[n + 1])
<1>1. IsSeq(h) /\ Len(h) = n + 1 /\ n \in Nat /\ DOMAIN f = 1..n /\ h[n + 1] = g[n + 1]
      /\ \A i \in 1..n : h[i] = f[i]
  BY Appends
<1>2. \A i \in 1..(n + 1) : g[i] = h[i]
  <2> HIDE DEF n, h
  <2> TAKE i \in 1..(n + 1)
  <2>1. i \in 1..n \/ i = n + 1
    BY <1>1
  <2> QED  BY <1>1, <2>1
<1> HIDE DEF h
<1>3. g = h
  BY <1>1, <1>2, SameSeq
<1> QED  BY <1>3 DEF h

\* One more item of a format.
LEMMA FormatAppend ==
    ASSUME NEW fmt, IsFormat(fmt), NEW x, IsSeq(ItemBytes(x))
    PROVE  IsFormat(Append(fmt, x)) /\ ChunkBytes(Append(fmt, x)) = ChunkBytes(fmt) \o ItemBytes(x)
<1> DEFINE f == [i \in DOMAIN fmt |-> ItemBytes(fmt[i])]
           more == Append(fmt, x)
           g == [i \in DOMAIN more |-> ItemBytes(more[i])]
           n == Len(fmt)
<1>1. /\ IsSeq(more) /\ n \in Nat /\ DOMAIN fmt = 1..n /\ DOMAIN more = 1..(n + 1)
      /\ more[n + 1] = x /\ \A i \in DOMAIN fmt : more[i] = fmt[i]
  BY Appends DEF IsFormat
<1>2. n + 1 \in DOMAIN more /\ \A i \in DOMAIN fmt : i \in DOMAIN more
  BY <1>1
<1>3. g[n + 1] = ItemBytes(x) /\ \A i \in DOMAIN fmt : g[i] = f[i] /\ IsSeq(f[i])
  BY <1>1, <1>2 DEF IsFormat
<1>4. f = [i \in DOMAIN fmt |-> f[i]] /\ g = [i \in DOMAIN more |-> g[i]]
  OBVIOUS
<1>5. ChunkBytes(fmt) = FlattenSeq(f) /\ ChunkBytes(more) = FlattenSeq(g)
  BY DEF ChunkBytes
<1> HIDE DEF more, n
<1>6. IsFormat(more)
  <2>1. ASSUME NEW i \in DOMAIN more PROVE IsSeq(ItemBytes(more[i]))
    <3>1. i \in DOMAIN fmt \/ i = n + 1
      BY <1>1
    <3> QED  BY <1>1, <3>1 DEF IsFormat
  <2> QED  BY <1>1, <2>1 DEF IsFormat
<1> HIDE DEF f, g
<1>7. IsSeq(f) /\ Len(f) = n /\ DOMAIN f = 1..n
  BY <1>1, <1>4, FunIsSeq
<1>8. IsSeq(g) /\ Len(g) = n + 1
  <2>1. n + 1 \in Nat
    BY <1>1
  <2> QED  BY <1>1, <1>4, <2>1, FunIsSeq
<1>9. g = Append(f, g[n + 1]) /\ IsSeqs(f)
  BY <1>1, <1>3, <1>7, <1>8, Continues DEF IsSeqs
<1>10. FlattenSeq(g) = FlattenSeq(f) \o ItemBytes(x)
  BY <1>3, <1>9, FlattenAppend
<1> QED  BY <1>5, <1>6, <1>10 DEF more

\* One more operation of a code.
LEMMA CodeAppend ==
    ASSUME NEW code, IsCode(code), NEW x, IsSeq(OpBytes(x))
    PROVE  IsCode(Append(code, x)) /\ CodeBytes(Append(code, x)) = CodeBytes(code) \o OpBytes(x)
<1> DEFINE f == [i \in DOMAIN code |-> OpBytes(code[i])]
           more == Append(code, x)
           g == [i \in DOMAIN more |-> OpBytes(more[i])]
           n == Len(code)
<1>1. /\ IsSeq(more) /\ n \in Nat /\ DOMAIN code = 1..n /\ DOMAIN more = 1..(n + 1)
      /\ more[n + 1] = x /\ \A i \in DOMAIN code : more[i] = code[i]
  BY Appends DEF IsCode
<1>2. n + 1 \in DOMAIN more /\ \A i \in DOMAIN code : i \in DOMAIN more
  BY <1>1
<1>3. g[n + 1] = OpBytes(x) /\ \A i \in DOMAIN code : g[i] = f[i] /\ IsSeq(f[i])
  BY <1>1, <1>2 DEF IsCode
<1>4. f = [i \in DOMAIN code |-> f[i]] /\ g = [i \in DOMAIN more |-> g[i]]
  OBVIOUS
<1>5. CodeBytes(code) = FlattenSeq(f) /\ CodeBytes(more) = FlattenSeq(g)
  BY DEF CodeBytes
<1> HIDE DEF more, n
<1>6. IsCode(more)
  <2>1. ASSUME NEW i \in DOMAIN more PROVE IsSeq(OpBytes(more[i]))
    <3>1. i \in DOMAIN code \/ i = n + 1
      BY <1>1
    <3> QED  BY <1>1, <3>1 DEF IsCode
  <2> QED  BY <1>1, <2>1 DEF IsCode
<1> HIDE DEF f, g
<1>7. IsSeq(f) /\ Len(f) = n /\ DOMAIN f = 1..n
  BY <1>1, <1>4, FunIsSeq
<1>8. IsSeq(g) /\ Len(g) = n + 1
  <2>1. n + 1 \in Nat
    BY <1>1
  <2> QED  BY <1>1, <1>4, <2>1, FunIsSeq
<1>9. g = Append(f, g[n + 1]) /\ IsSeqs(f)
  BY <1>1, <1>3, <1>7, <1>8, Continues DEF IsSeqs
<1>10. FlattenSeq(g) = FlattenSeq(f) \o OpBytes(x)
  BY <1>3, <1>9, FlattenAppend
<1> QED  BY <1>5, <1>6, <1>10 DEF more

\* No code writes nothing, and all code writes a sequence.
LEMMA EmptyCode ==
    /\ IsFormat(<<>>) /\ IsCode(<<>>) /\ ChunkBytes(<<>>) = <<>> /\ CodeBytes(<<>>) = <<>>
<1>1. IsSeq(<<>>) /\ DOMAIN <<>> = {}
  BY DEF IsSeq, ToSet
<1>2. [i \in {} |-> ItemBytes(<<>>[i])] = <<>> /\ [i \in {} |-> OpBytes(<<>>[i])] = <<>>
  OBVIOUS
<1>3. ChunkBytes(<<>>) = FlattenSeq(<<>>)
  BY <1>1, <1>2 DEF ChunkBytes
<1>4. CodeBytes(<<>>) = FlattenSeq(<<>>)
  BY <1>1, <1>2 DEF CodeBytes
<1> QED  BY <1>1, <1>3, <1>4, FlattenEmpty DEF IsFormat, IsCode

LEMMA CodeIsSeq ==
    /\ \A fmt : IsFormat(fmt) => IsSeq(ChunkBytes(fmt))
    /\ \A code : IsCode(code) => IsSeq(CodeBytes(code))
<1>1. ASSUME NEW fmt, IsFormat(fmt) PROVE IsSeq(ChunkBytes(fmt))
  <2> DEFINE f == [i \in DOMAIN fmt |-> ItemBytes(fmt[i])]
  <2>1. Len(fmt) \in Nat /\ DOMAIN fmt = 1..Len(fmt)
    BY <1>1, SeqDomain DEF IsFormat
  <2>2. f = [i \in 1..Len(fmt) |-> f[i]] /\ \A i \in DOMAIN f : IsSeq(f[i])
    BY <1>1, <2>1 DEF IsFormat
  <2>3. ChunkBytes(fmt) = FlattenSeq(f)
    BY DEF ChunkBytes
  <2> HIDE DEF f
  <2>4. IsSeqs(f)
    BY <2>1, <2>2, FunIsSeq DEF IsSeqs
  <2> QED  BY <2>3, <2>4, FlattenIsSeq
<1>2. ASSUME NEW code, IsCode(code) PROVE IsSeq(CodeBytes(code))
  <2> DEFINE f == [i \in DOMAIN code |-> OpBytes(code[i])]
  <2>1. Len(code) \in Nat /\ DOMAIN code = 1..Len(code)
    BY <1>2, SeqDomain DEF IsCode
  <2>2. f = [i \in 1..Len(code) |-> f[i]] /\ \A i \in DOMAIN f : IsSeq(f[i])
    BY <1>2, <2>1 DEF IsCode
  <2>3. CodeBytes(code) = FlattenSeq(f)
    BY DEF CodeBytes
  <2> HIDE DEF f
  <2>4. IsSeqs(f)
    BY <2>1, <2>2, FunIsSeq DEF IsSeqs
  <2> QED  BY <2>3, <2>4, FlattenIsSeq
<1> QED  BY <1>1, <1>2
LEMMA Concatenation ==
    ASSUME NEW a, NEW b, NEW c, IsSeq(a), IsSeq(b), IsSeq(c)
    PROVE  (a \o b) \o c = a \o (b \o c) /\ a \o <<>> = a
<1> DEFINE S == ToSet(a) \cup ToSet(b) \cup ToSet(c)
<1>1. a \in Seq(S) /\ b \in Seq(S) /\ c \in Seq(S)
  BY DEF IsSeq, ToSet
<1> HIDE DEF S
<1> QED  BY <1>1

\* The code of a class calls that of the classes of its fields only.
Calls(code, t) ==
    \A k \in DOMAIN code :
        \/ code[k].op = "struct"
        \/ /\ code[k].op = "object"
           /\ \E j \in DOMAIN Structs[t] :
                  IsClass(Structs[t][j].type) /\ code[k].type = Structs[t][j].type

\* What a call has collected is code, the same for both directions.
Collects(fr) ==
    /\ IsFrame(fr)
    /\ IsFormat(fr.fmt) /\ IsCode(fr.pack) /\ fr.unpack = fr.pack /\ Calls(fr.pack, fr.type)

LEMMA BytesAreSeq == ASSUME NEW fr, Collects(fr) PROVE IsSeq(BytesOf(fr))
<1>1. IsSeq(CodeBytes(fr.pack)) /\ IsSeq(ChunkBytes(fr.fmt))
  BY CodeIsSeq DEF Collects
<1> QED  BY <1>1, Concats DEF BytesOf

\* r is fr with other code, place and offset.
Recoded(r, fr, fmt, pack, unpack) ==
    IsFrame(r) /\ r.type = fr.type /\ r.fmt = fmt /\ r.pack = pack /\ r.unpack = unpack

LEMMA WithRecodes ==
    ASSUME NEW fr, NEW at, NEW hints, NEW fmt, NEW pack, NEW unpack, NEW offset
    PROVE  LET r == With(fr, at, hints, fmt, pack, unpack, offset)
           IN  Recoded(r, fr, fmt, pack, unpack) /\ r.offset = offset
BY DEF Recoded, With, IsFrame

\* One more item in the pending format.
LEMMA ItemIsWritten ==
    ASSUME NEW fr, Collects(fr), NEW x, IsSeq(ItemBytes(x)),
           NEW r, Recoded(r, fr, Append(fr.fmt, x), fr.pack, fr.unpack)
    PROVE  Collects(r) /\ BytesOf(r) = BytesOf(fr) \o ItemBytes(x)
<1>1. /\ IsFormat(Append(fr.fmt, x))
      /\ ChunkBytes(Append(fr.fmt, x)) = ChunkBytes(fr.fmt) \o ItemBytes(x)
  BY FormatAppend DEF Collects
<1>2. IsSeq(CodeBytes(fr.pack)) /\ IsSeq(ChunkBytes(fr.fmt))
  BY CodeIsSeq DEF Collects
<1>3. BytesOf(r) = CodeBytes(fr.pack) \o (ChunkBytes(fr.fmt) \o ItemBytes(x))
  BY <1>1 DEF BytesOf, Recoded
<1>4. BytesOf(r) = (CodeBytes(fr.pack) \o ChunkBytes(fr.fmt)) \o ItemBytes(x)
  <2> DEFINE p == CodeBytes(fr.pack)
             q == ChunkBytes(fr.fmt)
             w == ItemBytes(x)
  <2>1. IsSeq(p) /\ IsSeq(q) /\ IsSeq(w)
    BY <1>2
  <2>2. BytesOf(r) = p \o (q \o w)
    BY <1>3
  <2> HIDE DEF p, q, w
  <2>3. (p \o q) \o w = p \o (q \o w)
    BY ONLY <2>1, Concatenation, SMTT(30)
  <2> QED  BY <2>2, <2>3 DEF p, q, w
<1>5. Collects(r)
  BY <1>1 DEF Collects, Recoded
<1> QED  BY <1>4, <1>5 DEF BytesOf

\* A flush changes nothing in what is written.
LEMMA FlushIsWritten ==
    ASSUME NEW fr, Collects(fr)
    PROVE  LET r == Flushed(fr)
           IN  Collects(r) /\ BytesOf(r) = BytesOf(fr) /\ r.offset = fr.offset /\ r.fmt = <<>>
               /\ Moved(r, fr, fr.at, fr.hints)
<1> DEFINE op == [op |-> "struct", fmt |-> fr.fmt]
           k == Append(fr.pack, op)
           u == Append(fr.unpack, op)
           r == With(fr, fr.at, fr.hints, <<>>, k, u, fr.offset)
<1>0. Moved(Flushed(fr), fr, fr.at, fr.hints)
  BY FlushedFrame DEF Collects
<1>1. CASE fr.fmt = <<>>
  <2>1. Flushed(fr) = fr
    BY <1>1 DEF Flushed
  <2> QED  BY <1>0, <1>1, <2>1
<1>2. CASE fr.fmt # <<>>
  <2>1. Flushed(fr) = [fr EXCEPT !.pack = k, !.unpack = u, !.fmt = <<>>]
    BY <1>2 DEF Flushed
  <2>2. OpBytes(op) = ChunkBytes(fr.fmt) /\ op.op = "struct"
    BY DEF OpBytes
  <2>3. IsSeq(CodeBytes(fr.pack)) /\ IsSeq(ChunkBytes(fr.fmt))
    BY CodeIsSeq DEF Collects
  <2> HIDE DEF op
  <2>4. IsCode(k) /\ CodeBytes(k) = CodeBytes(fr.pack) \o ChunkBytes(fr.fmt)
    BY <2>2, <2>3, CodeAppend DEF Collects
  <2>5. Calls(k, fr.type) /\ u = k
    <3>1. IsSeq(fr.pack) /\ Calls(fr.pack, fr.type) /\ fr.unpack = fr.pack
      BY DEF Collects, IsCode
    <3>2. \A i \in DOMAIN k : (i \in DOMAIN fr.pack /\ k[i] = fr.pack[i]) \/ k[i] = op
      <4>1. /\ DOMAIN k = 1..(Len(fr.pack) + 1) /\ k[Len(fr.pack) + 1] = op
            /\ DOMAIN fr.pack = 1..Len(fr.pack) /\ Len(fr.pack) \in Nat
            /\ \A i \in DOMAIN fr.pack : k[i] = fr.pack[i]
        BY <3>1, Appends
      <4> HIDE DEF k
      <4> QED  BY <4>1
    <3> HIDE DEF k, u
    <3>3. u = k
      BY <3>1 DEF k, u
    <3> QED  BY <2>2, <3>1, <3>2, <3>3 DEF Calls
  <2> HIDE DEF k, u
  <2>6. Flushed(fr) = r
    <3>1. IsFrame(fr)
      BY DEF Collects
    <3>2. [fr EXCEPT !.pack = k, !.unpack = u, !.fmt = <<>>]
              = With(fr, fr.at, fr.hints, <<>>, k, u, fr.offset)
      BY ONLY <3>1, UpdateFlushed, ZenonT(60)
    <3> QED  BY <2>1, <3>2
  <2>7. /\ IsFrame(r) /\ r.fmt = <<>> /\ r.pack = k /\ r.unpack = u
        /\ r.type = fr.type /\ r.offset = fr.offset
    BY DEF With, IsFrame
  <2> HIDE DEF r
  <2>8. Collects(r)
    BY <2>4, <2>5, <2>7, EmptyCode DEF Collects
  <2>9. BytesOf(r) = CodeBytes(k) \o <<>>
    BY <2>7, EmptyCode DEF BytesOf
  <2>10. IsSeq(CodeBytes(k))
    BY <2>4, CodeIsSeq
  <2>11. BytesOf(r) = CodeBytes(k)
    BY <2>9, <2>10, Concatenation
  <2> QED  BY <1>0, <2>4, <2>6, <2>7, <2>8, <2>11 DEF BytesOf
<1> QED  BY <1>1, <1>2

\* Padding writes padding.
LEMMA PadIsWritten ==
    ASSUME NEW fr, Collects(fr), NEW to \in Nat, fr.offset \in Nat, fr.offset <= to
    PROVE  LET r == Padded(fr, to)
               pad == [k \in 1..(to - fr.offset) |-> Pad]
           IN  /\ Collects(r) /\ BytesOf(r) = BytesOf(fr) \o pad /\ r.offset = to
               /\ IsSeq(pad) /\ Len(pad) = to - fr.offset /\ Moved(r, fr, fr.at, fr.hints)
<1> DEFINE n == to - fr.offset
           pad == [k \in 1..n |-> Pad]
           x == Item("x", n, "")
<1>0. Moved(Padded(fr, to), fr, fr.at, fr.hints)
  BY PaddedFrame DEF Collects
<1>1. n \in Nat
  OBVIOUS
<1>2. IsSeq(pad) /\ Len(pad) = n
  BY <1>1, FunIsSeq
<1>3. CASE to = fr.offset
  <2>1. Padded(fr, to) = fr
    BY <1>3 DEF Padded
  <2>2. n = 0
    BY <1>3
  <2>3. pad = <<>>
    BY <2>2
  <2>4. BytesOf(fr) \o <<>> = BytesOf(fr)
    BY BytesAreSeq, Concatenation
  <2> QED  BY <1>0, <1>2, <1>3, <2>1, <2>3, <2>4
<1>4. CASE to # fr.offset
  <2> DEFINE v == Append(fr.fmt, x)
  <2>1. to > fr.offset
    BY <1>4
  <2>2. Padded(fr, to) = [fr EXCEPT !.fmt = v, !.offset = to]
    BY <2>1 DEF Padded
  <2>3. ItemBytes(x) = pad
    BY DEF ItemBytes, Item
  <2> HIDE DEF x, pad
  <2>4. [fr EXCEPT !.fmt = v, !.offset = to] = With(fr, fr.at, fr.hints, v, fr.pack, fr.unpack, to)
    <3> HIDE DEF v
    <3> QED  BY UpdateFormat DEF Collects
  <2> DEFINE w == With(fr, fr.at, fr.hints, v, fr.pack, fr.unpack, to)
  <2>5. Padded(fr, to) = w
    BY <2>2, <2>4
  <2>6. Recoded(w, fr, v, fr.pack, fr.unpack) /\ w.offset = to
    <3> HIDE DEF v
    <3> QED  BY WithRecodes
  <2> HIDE DEF w
  <2>7. Collects(w) /\ BytesOf(w) = BytesOf(fr) \o pad
    BY <1>2, <2>3, <2>6, ItemIsWritten
  <2> QED  BY <1>0, <1>2, <2>5, <2>6, <2>7 DEF pad
<1> QED  BY <1>3, <1>4
\* Raw bytes are the image of an array of chars.
LEMMA RawIsImage ==
    ASSUME Formattable, NEW f, RawBytes(f), f.n \in Nat, f.type \in DOMAIN Scalars,
           Scalars[f.type] = <<1, "signed">>
    PROVE  ItemBytes(Item("s", f.n, f.name)) = FieldImage(f, Memory[f.type])
<1> DEFINE image == Memory[f.type]
<1>1. SizeOf(f.type) = 1 /\ image = ScalarBytes(<<>>, "signed", 1)
  <2>1. /\ Layout[f.type] = [size |-> 1, align |-> 1, offset |-> <<>>]
        /\ Memory[f.type] = ScalarBytes(<<>>, "signed", SizeOf(f.type))
    BY LaidOut
  <2>2. SizeOf(f.type) = 1
    BY <2>1 DEF SizeOf
  <2> QED  BY <2>1, <2>2
<1>2. image = [k \in 1..1 |-> <<<<>>, "signed", k>>]
  BY <1>1 DEF ScalarBytes
<1>3. Len(image) = 1 /\ image[1] = <<<<>>, "signed", 1>>
  BY <1>2
<1>4. FieldImage(f, image) = Repeated(f.name, image, f.n)
  BY DEF FieldImage, RawBytes
<1> HIDE DEF image
<1>5. \A k \in 1..f.n : ((k - 1) \div 1) + 1 = k /\ ((k - 1) % 1) + 1 = 1
  OBVIOUS
<1>6. f.n * 1 = f.n
  OBVIOUS
<1>7. \A k : In(<<f.name, k>>, image[1]) = <<<<f.name, k>>, "signed", 1>>
  <2> TAKE k
  <2>1. image[1] # Pad /\ image[1][1] = <<>> /\ image[1][2] = "signed" /\ image[1][3] = 1
    BY <1>3 DEF Pad
  <2>2. <<f.name, k>> \o <<>> = <<f.name, k>>
    OBVIOUS
  <2> QED  BY <2>1, <2>2 DEF In
<1>8. Repeated(f.name, image, f.n) =
          [k \in 1..(f.n * 1) |-> In(<<f.name, ((k - 1) \div 1) + 1>>, image[((k - 1) % 1) + 1])]
  BY <1>3 DEF Repeated
<1>9. Repeated(f.name, image, f.n) = [k \in 1..f.n |-> <<<<f.name, k>>, "signed", 1>>]
  <2> DEFINE at(k) == In(<<f.name, ((k - 1) \div 1) + 1>>, image[((k - 1) % 1) + 1])
  <2>1. \A k \in 1..f.n : at(k) = <<<<f.name, k>>, "signed", 1>>
    BY <1>5, <1>7
  <2>2. Repeated(f.name, image, f.n) = [k \in 1..f.n |-> at(k)]
    BY <1>6, <1>8
  <2> HIDE DEF at
  <2> QED  BY <2>1, <2>2
<1>10. ItemBytes(Item("s", f.n, f.name)) = [k \in 1..f.n |-> <<<<f.name, k>>, "signed", 1>>]
  BY DEF ItemBytes, Item
<1> QED  BY <1>4, <1>9, <1>10 DEF image

\* A value with a format character of its size and kind is the image of a scalar.
LEMMA ValueIsImage ==
    ASSUME Formattable, NEW f, f.type \in DOMAIN Scalars, f.as = "one", NEW char,
           char \notin {"x", "s"}, CharSize[char] = SizeOf(f.type), CharKind[char] = Scalars[f.type][2]
    PROVE  ItemBytes(Item(char, 1, f.name)) = FieldImage(f, Memory[f.type])
<1> DEFINE image == Memory[f.type]
           n == SizeOf(f.type)
           kind == Scalars[f.type][2]
           x == Item(char, 1, f.name)
<1>1. image = ScalarBytes(<<>>, kind, n)
  BY LaidOut
<1>2. image = [k \in 1..n |-> <<<<>>, kind, k>>]
  BY <1>1 DEF ScalarBytes
<1>3. x.char = char /\ x.name = f.name
  BY DEF Item
<1> HIDE DEF x
<1>4. ItemBytes(x) = ScalarBytes(<<f.name>>, kind, n)
  BY <1>3 DEF ItemBytes
<1>5. FieldImage(f, image) = Within(f.name, image)
  BY DEF FieldImage
<1> HIDE DEF image, n, kind
<1>6. \A k \in 1..n : In(<<f.name>>, image[k]) = <<<<f.name>>, kind, k>>
  <2> TAKE k \in 1..n
  <2>1. image[k] # Pad /\ image[k][1] = <<>> /\ image[k][2] = kind /\ image[k][3] = k
    BY <1>2 DEF Pad
  <2>2. <<f.name>> \o <<>> = <<f.name>>
    OBVIOUS
  <2> QED  BY <2>1, <2>2 DEF In
<1>7. Within(f.name, image) = [k \in 1..n |-> In(<<f.name>>, image[k])]
  BY <1>2 DEF Within
<1>8. Within(f.name, image) = ScalarBytes(<<f.name>>, kind, n)
  <2> DEFINE at(k) == In(<<f.name>>, image[k])
  <2>1. \A k \in 1..n : at(k) = <<<<f.name>>, kind, k>>
    BY <1>6
  <2>2. Within(f.name, image) = [k \in 1..n |-> at(k)]
    BY <1>7
  <2> HIDE DEF at
  <2> QED  BY <2>1, <2>2 DEF ScalarBytes
<1> QED  BY <1>4, <1>5, <1>8 DEF image, x

\* One more operation in the code.
LEMMA ObjectIsWritten ==
    ASSUME NEW fr, Collects(fr), fr.fmt = <<>>, NEW x, IsSeq(OpBytes(x)), x.op = "object",
           NEW j \in DOMAIN Structs[fr.type], IsClass(Structs[fr.type][j].type),
           x.type = Structs[fr.type][j].type,
           NEW r, Recoded(r, fr, fr.fmt, Append(fr.pack, x), Append(fr.unpack, x))
    PROVE  Collects(r) /\ BytesOf(r) = BytesOf(fr) \o OpBytes(x)
<1> DEFINE k == Append(fr.pack, x)
<1>1. IsCode(k) /\ CodeBytes(k) = CodeBytes(fr.pack) \o OpBytes(x)
  BY CodeAppend DEF Collects
<1>2. Calls(k, fr.type)
  <2>1. IsSeq(fr.pack) /\ Calls(fr.pack, fr.type)
    BY DEF Collects, IsCode
  <2>2. \A i \in DOMAIN k : (i \in DOMAIN fr.pack /\ k[i] = fr.pack[i]) \/ k[i] = x
    <3>1. /\ DOMAIN k = 1..(Len(fr.pack) + 1) /\ k[Len(fr.pack) + 1] = x
          /\ DOMAIN fr.pack = 1..Len(fr.pack) /\ Len(fr.pack) \in Nat
          /\ \A i \in DOMAIN fr.pack : k[i] = fr.pack[i]
      BY <2>1, Appends
    <3> HIDE DEF k
    <3> QED  BY <3>1
  <2> HIDE DEF k
  <2> QED  BY <2>1, <2>2 DEF Calls
<1>3. r.pack = k /\ r.unpack = k /\ r.fmt = <<>> /\ r.type = fr.type /\ IsFrame(r)
  BY DEF Recoded, Collects
<1> HIDE DEF k
<1>4. Collects(r)
  BY <1>1, <1>2, <1>3, EmptyCode DEF Collects
<1>5. IsSeq(CodeBytes(k)) /\ IsSeq(CodeBytes(fr.pack))
  BY <1>1, CodeIsSeq DEF Collects
<1>6. BytesOf(r) = CodeBytes(k) /\ BytesOf(fr) = CodeBytes(fr.pack)
  BY <1>3, <1>5, EmptyCode, Concatenation DEF BytesOf
<1> QED  BY <1>1, <1>4, <1>6

\* A field is written as it is in memory.
LEMMA FieldIsWritten ==
    ASSUME WellNested, Formattable, NEW t \in DOMAIN Structs, t \notin InternalOnly,
           NEW i \in DOMAIN Structs[t], NEW f, f = Structs[t][i],
           NEW fr, Collects(fr), fr.type = t, NEW r, r = FieldCode(fr, f)
    PROVE  /\ Collects(r) /\ BytesOf(r) = BytesOf(fr) \o FieldImage(f, Memory[f.type])
           /\ r.offset = fr.offset + FieldSize(f)
<1> DEFINE image == FieldImage(f, Memory[f.type])
           o == fr.offset + FieldSize(f)
           a == fr.at + 1
           h == Append(fr.hints, Hint(f))
           next == [fr EXCEPT !.offset = o, !.at = a, !.hints = h]
           out == Flushed(next)
           xs == Item("s", f.n, f.name)
           x1 == Item(FormatChar(f.type), 1, f.name)
           vs == Append(next.fmt, xs)
           v1 == Append(next.fmt, x1)
           k == Append(out.pack, Object(f))
           u == Append(out.unpack, Object(f))
<1>1. RawBytes(f) => r = [next EXCEPT !.fmt = vs]
  BY DEF FieldCode
<1>2. ~RawBytes(f) /\ f.as = "one" /\ ~IsClass(f.type) => r = [next EXCEPT !.fmt = v1]
  BY DEF FieldCode
<1>3. ~RawBytes(f) /\ ~(f.as = "one" /\ ~IsClass(f.type)) => r = [out EXCEPT !.pack = k, !.unpack = u]
  BY DEF FieldCode
<1>4. f \in ToSet(Structs[t]) /\ f.type \in DOMAIN Layout
  BY FieldsAreDeclared, LaidOut
<1>5. f.n \in Nat /\ (f.as = "one" => f.n = 1) /\ Encodable(f)
  BY <1>4 DEF Formattable
<1>6. IsSeq(image)
  <2>1. IsSeq(Memory[f.type])
    BY <1>4, ImagesAreSized
  <2> QED  BY <1>5, <2>1, FieldIsSized
<1>7. next = With(fr, a, h, fr.fmt, fr.pack, fr.unpack, o)
  <2> HIDE DEF a, h, o
  <2> QED  BY UpdatePlace DEF Collects
<1>8. Recoded(next, fr, fr.fmt, fr.pack, fr.unpack) /\ next.offset = o
  BY <1>7, WithRecodes
<1> HIDE DEF next, o
<1>9. Collects(next) /\ BytesOf(next) = BytesOf(fr) /\ IsFrame(next)
  BY <1>8 DEF Collects, Recoded, BytesOf
<1>10. CASE RawBytes(f)
  <2>1. ItemBytes(xs) = image
    <3>1. f.type \in DOMAIN Scalars /\ Scalars[f.type] = <<1, "signed">>
      BY <1>5, <1>10 DEF Encodable
    <3> QED  BY <1>5, <1>10, <3>1, RawIsImage
  <2> HIDE DEF xs, image
  <2>2. [next EXCEPT !.fmt = vs]
            = With(next, next.at, next.hints, vs, next.pack, next.unpack, next.offset)
    <3> HIDE DEF vs
    <3> QED  BY <1>9 DEF IsFrame, With
  <2>3. r = [next EXCEPT !.fmt = vs]
    BY <1>1, <1>10
  <2>4. Recoded(r, next, vs, next.pack, next.unpack) /\ r.offset = o
    <3> HIDE DEF vs
    <3> QED  BY <1>8, <2>2, <2>3, WithRecodes
  <2>5. Collects(r) /\ BytesOf(r) = BytesOf(next) \o ItemBytes(xs)
    BY <1>6, <1>9, <2>1, <2>4, ItemIsWritten
  <2> QED  BY <1>9, <2>1, <2>4, <2>5 DEF image, o
<1>11. CASE ~RawBytes(f) /\ f.as = "one" /\ ~IsClass(f.type)
  <2>1. ItemBytes(x1) = image
    <3>1. /\ FormatChar(f.type) \notin {"x", "s"} /\ CharSize[FormatChar(f.type)] = SizeOf(f.type)
          /\ CharKind[FormatChar(f.type)] = Scalars[f.type][2]
      BY <1>5, <1>11 DEF Encodable
    <3>2. f.type \in DOMAIN Scalars
      BY <1>4, <1>11, TypesAreDeclared DEF IsClass
    <3> QED  BY <1>11, <3>1, <3>2, ValueIsImage
  <2> HIDE DEF x1, image
  <2>2. [next EXCEPT !.fmt = v1]
            = With(next, next.at, next.hints, v1, next.pack, next.unpack, next.offset)
    <3> HIDE DEF v1
    <3> QED  BY <1>9 DEF IsFrame, With
  <2>3. r = [next EXCEPT !.fmt = v1]
    BY <1>2, <1>11
  <2>4. Recoded(r, next, v1, next.pack, next.unpack) /\ r.offset = o
    <3> HIDE DEF v1
    <3> QED  BY <1>8, <2>2, <2>3, WithRecodes
  <2>5. Collects(r) /\ BytesOf(r) = BytesOf(next) \o ItemBytes(x1)
    BY <1>6, <1>9, <2>1, <2>4, ItemIsWritten
  <2> QED  BY <1>9, <2>1, <2>4, <2>5 DEF image, o
<1>12. CASE ~RawBytes(f) /\ ~(f.as = "one" /\ ~IsClass(f.type))
  <2>1. IsClass(f.type)
    BY <1>5, <1>12 DEF Encodable
  <2>2. /\ Collects(out) /\ BytesOf(out) = BytesOf(next) /\ out.offset = o /\ out.fmt = <<>>
        /\ out.type = t
    BY <1>8, <1>9, FlushIsWritten DEF Moved, Recoded
  <2> HIDE DEF out
  <2> DEFINE x == Object(f)
  <2>3. x.op = "object" /\ x.type = f.type /\ OpBytes(x) = image
    BY DEF Object, OpBytes, ObjectBytes, Given, FieldImage
  <2>4. r = [out EXCEPT !.pack = k, !.unpack = u]
    BY <1>3, <1>12
  <2> HIDE DEF x, image
  <2>5. [out EXCEPT !.pack = k, !.unpack = u]
            = With(out, out.at, out.hints, out.fmt, k, u, out.offset)
    <3> HIDE DEF k, u
    <3> QED  BY <2>2, UpdateCode DEF Collects
  <2>6. Recoded(r, out, out.fmt, k, u) /\ r.offset = o
    <3> HIDE DEF k, u
    <3> QED  BY <2>2, <2>4, <2>5, WithRecodes
  <2>7. Collects(r) /\ BytesOf(r) = BytesOf(out) \o OpBytes(x)
    BY <1>6, <2>1, <2>2, <2>3, <2>6, ObjectIsWritten DEF x
  <2> QED  BY <1>9, <2>2, <2>3, <2>6, <2>7 DEF image, o
<1> QED  BY <1>10, <1>11, <1>12
-----------------------------------------------------------------------------
(***************************************************************************)
(* The classes write what is in memory.                                    *)
(***************************************************************************)
\* How far the second pass of a call has come.
Reached(fr) == IF fr.pass = "nested" \/ fr.at = 1 THEN 0 ELSE End(fr.type, fr.at - 1)

\* The field behind it is in the format.
Waits(fr) == fr.pass = "body" /\ fr.at # 1 /\ InFormat(Structs[fr.type][fr.at - 1])

\* What a call has flushed is read into fields, and so will be what is pending.
NamedFrame(fr) ==
    /\ IsSeq(fr.fmt) /\ IsSeq(fr.unpack) /\ Parses(fr)
    /\ fr.offset = Reached(fr)
    /\ fr.fmt # <<>> \/ Waits(fr) => UnpackArgs(fr.fmt) # {}
    /\ fr.pass = "nested" \/ fr.at = 1 => fr.fmt = <<>>

\* What a call has collected writes the memory of its struct as far as it has come.
WiredFrame(fr) ==
    /\ fr.at \in 1..(Len(Structs[fr.type]) + 1) /\ NamedFrame(fr)
    /\ fr.type \notin InternalOnly =>
           /\ Collects(fr)
           /\ fr.offset = Reached(fr) /\ Len(BytesOf(fr)) = fr.offset
           /\ \A k \in 1..fr.offset : BytesOf(fr)[k] = Memory[fr.type][k]

\* A printed class writes the memory of its struct, and the classes it calls are printed.
WiredClass(c, printed) ==
    /\ c.name \in DOMAIN Structs /\ Parses(c)
    /\ \A j \in DOMAIN Structs[c.name] :
           IsClass(Structs[c.name][j].type) => Structs[c.name][j].type \in printed
    /\ c.name \notin InternalOnly =>
           /\ IsCode(c.pack) /\ c.unpack = c.pack /\ Calls(c.pack, c.name)
           /\ CodeBytes(c.pack) = Memory[c.name] /\ c.wire_size = SizeOf(c.name)

\* No class is printed twice.
Distinct(cs) == \A i, j \in DOMAIN cs : cs[i].name = cs[j].name => i = j

WInv ==
    /\ \A i \in DOMAIN stack : WiredFrame(stack[i])
    /\ \A i \in DOMAIN classes : WiredClass(classes[i], Printed)
    /\ Distinct(classes)
\* A sequence made of two, by their lengths.
IsJoin(c, a, b) == c = a \o b

LEMMA Joined ==
    ASSUME NEW a, NEW b, NEW c, IsSeq(a), IsSeq(b), IsJoin(c, a, b)
    PROVE  /\ IsSeq(c) /\ Len(c) = Len(a) + Len(b) /\ Len(a) \in Nat /\ Len(b) \in Nat
           /\ \A i \in 1..Len(a) : c[i] = a[i]
           /\ \A i \in 1..Len(b) : c[Len(a) + i] = b[i]
BY Concats DEF IsJoin

\* A struct that can be on the wire is laid out.
LEMMA OnWireIsLaidOut ==
    ASSUME Formattable, NEW t \in DOMAIN Structs, t \notin InternalOnly
    PROVE  t # "shared_ptr" /\ t \in DOMAIN Layout /\ Structs[t] # <<>>
BY DEF Formattable, InternalOnly

\* A call begins with nothing written.
LEMMA CallIsWired ==
    ASSUME WellNested, NEW t \in DOMAIN Structs PROVE WiredFrame(Call(t))
<1> DEFINE fr == Call(t)
<1>1. /\ fr.type = t /\ fr.at = 1 /\ fr.pass = "nested" /\ fr.fmt = <<>> /\ fr.pack = <<>>
      /\ fr.unpack = <<>> /\ fr.offset = 0 /\ IsFrame(fr)
  BY DEF Call, IsFrame
<1> HIDE DEF fr
<1>2. Len(Structs[t]) \in Nat
  BY FieldsAreDeclared
<1>3. fr.at \in 1..(Len(Structs[fr.type]) + 1)
  BY <1>1, <1>2
<1>4. Collects(fr)
  <2>1. Calls(fr.pack, fr.type)
    BY <1>1 DEF Calls
  <2> QED  BY <1>1, <2>1, EmptyCode DEF Collects
<1>5. BytesOf(fr) = <<>> \o <<>>
  BY <1>1, EmptyCode DEF BytesOf
<1>6. Len(BytesOf(fr)) = 0
  BY <1>5
<1>7. Reached(fr) = 0
  BY <1>1 DEF Reached
<1>8. NamedFrame(fr)
  <2>1. IsSeq(<<>>) /\ DOMAIN fr.unpack = {}
    BY <1>1 DEF IsSeq, ToSet
  <2> QED  BY <1>1, <1>7, <2>1 DEF NamedFrame, Waits, Parses
<1>9. WiredFrame(fr)
  BY <1>1, <1>3, <1>4, <1>6, <1>7, <1>8 DEF WiredFrame
<1> QED  BY <1>9 DEF fr

\* Nothing is written until the second pass is at its second field.
LEMMA FirstPassIsWired ==
    ASSUME NEW fr, WiredFrame(fr), fr.pass = "nested", NEW r,
           Recoded(r, fr, fr.fmt, fr.pack, fr.unpack), r.offset = fr.offset,
           r.pass = "nested" \/ r.at = 1, r.at \in 1..(Len(Structs[fr.type]) + 1)
    PROVE  WiredFrame(r)
<1>1. r.type = fr.type /\ IsFrame(r) /\ r.fmt = fr.fmt /\ r.pack = fr.pack /\ r.unpack = fr.unpack
  BY DEF Recoded
<1>2. Reached(r) = Reached(fr)
  BY DEF Reached
<1>3. BytesOf(r) = BytesOf(fr)
  BY <1>1 DEF BytesOf
<1>4. fr.type \notin InternalOnly => Collects(r)
  BY <1>1 DEF WiredFrame, Collects
<1>5. NamedFrame(r)
  <2>1. NamedFrame(fr)
    BY DEF WiredFrame
  <2> QED  BY <1>1, <1>2, <2>1 DEF NamedFrame, Waits, Parses
<1> QED  BY <1>1, <1>2, <1>3, <1>4, <1>5 DEF WiredFrame

\* Between a field and the next, or the end, there is padding.
LEMMA PaddingIsMemory ==
    ASSUME WellNested, Formattable, NEW t \in DOMAIN Structs, t # "shared_ptr",
           NEW at \in 1..(Len(Structs[t]) + 1)
    PROVE  LET from == IF at = 1 THEN 0 ELSE End(t, at - 1)
           IN  /\ from \in Nat /\ Until(t, at) \in Nat /\ from <= Until(t, at)
               /\ Until(t, at) <= SizeOf(t)
               /\ \A k \in Nat : from < k /\ k <= Until(t, at) => Memory[t][k] = Pad
<1> DEFINE from == IF at = 1 THEN 0 ELSE End(t, at - 1)
           to == Until(t, at)
           n == Len(Structs[t])
<1>1. n \in Nat /\ DOMAIN Structs[t] = 1..n /\ t \in DOMAIN Layout
  BY FieldsAreDeclared DEF Formattable
<1>2. /\ SizeOf(t) \in Nat
      /\ \A i \in 1..n : /\ Begin(t, i) \in Nat /\ End(t, i) \in Nat /\ End(t, i) <= SizeOf(t)
                         /\ FieldSize(Structs[t][i]) \in Nat
      /\ \A i, j \in 1..n : i < j => End(t, i) <= Begin(t, j)
  BY <1>1, FieldsAscend
<1>3. \A i \in 1..n : Begin(t, i) <= End(t, i)
  BY <1>2 DEF End
<1>4. \A i \in 1..n : i < at => End(t, i) <= from
  <2> TAKE i \in 1..n
  <2> HAVE i < at
  <2>1. at # 1 /\ at - 1 \in 1..n
    BY <1>1
  <2>2. from = End(t, at - 1)
    BY <2>1
  <2>3. CASE i = at - 1
    BY <1>2, <2>1, <2>2, <2>3
  <2>4. CASE i < at - 1
    <3>1. End(t, i) <= Begin(t, at - 1)
      BY <1>2, <2>1, <2>4
    <3> DEFINE j == at - 1
    <3>2. End(t, i) \in Nat /\ Begin(t, j) \in Nat /\ End(t, j) \in Nat
      BY <1>2, <2>1
    <3>3. Begin(t, j) <= End(t, j) /\ End(t, i) <= Begin(t, j)
      BY <1>3, <2>1, <3>1
    <3> HIDE DEF j
    <3>4. End(t, i) <= End(t, j)
      BY <3>2, <3>3
    <3> QED  BY <2>2, <3>4 DEF j
  <2> QED  BY <1>1, <2>3, <2>4
<1>5. \A i \in 1..n : at <= i => to <= Begin(t, i)
  <2> TAKE i \in 1..n
  <2> HAVE at <= i
  <2>1. at \in 1..n
    BY <1>1
  <2>2. to = Begin(t, at)
    BY <1>1, <2>1 DEF Until
  <2>3. CASE i = at
    BY <1>2, <2>1, <2>2, <2>3
  <2>4. CASE at < i
    <3>1. End(t, at) <= Begin(t, i)
      BY <1>2, <2>1, <2>4
    <3> QED  BY <1>2, <1>3, <2>1, <2>2, <3>1
  <2> QED  BY <1>1, <2>3, <2>4
<1>6. from \in Nat /\ to \in Nat /\ from <= to /\ to <= SizeOf(t)
  <2>1. at = 1 \/ (at - 1 \in 1..n /\ at - 1 < at)
    BY <1>1
  <2>2. from \in Nat /\ from <= SizeOf(t)
    BY <1>2, <2>1
  <2>3. CASE at \in 1..n
    <3>1. to = Begin(t, at)
      BY <1>1, <2>3 DEF Until
    <3>2. from <= Begin(t, at)
      <4>1. CASE at = 1
        BY <1>2, <2>3, <4>1
      <4>2. CASE at # 1
        <5>1. End(t, at - 1) <= Begin(t, at)
          BY <1>2, <2>1, <2>3, <4>2
        <5> QED  BY <4>2, <5>1
      <4> QED  BY <4>1, <4>2
    <3>3. Begin(t, at) <= SizeOf(t)
      BY <1>2, <1>3, <2>3
    <3> QED  BY <1>2, <2>2, <2>3, <3>1, <3>2, <3>3
  <2>4. CASE at \notin 1..n
    <3>1. to = SizeOf(t)
      BY <1>1, <2>4 DEF Until
    <3> QED  BY <1>2, <2>2, <3>1
  <2> QED  BY <2>3, <2>4
<1> HIDE DEF from, to
<1>7. ASSUME NEW k \in Nat, from < k, k <= to PROVE Memory[t][k] = Pad
  <2>1. k \in 1..SizeOf(t)
    BY <1>2, <1>6, <1>7
  <2>2. ASSUME NEW i \in 1..n PROVE ~(Begin(t, i) < k /\ k <= End(t, i))
    <3>1. Begin(t, i) \in Nat /\ End(t, i) \in Nat
      BY <1>2
    <3>2. CASE i < at
      BY <1>4, <1>6, <1>7, <3>1, <3>2
    <3>3. CASE at <= i
      BY <1>5, <1>6, <1>7, <3>1, <3>3
    <3> QED  BY <1>1, <3>2, <3>3
  <2> QED  BY <1>1, <2>1, <2>2, MemoryAt
<1> QED  BY <1>6, <1>7 DEF from, to

\* What is written after the padding is what is in memory.
LEMMA PaddedIsWired ==
    ASSUME WellNested, Formattable, NEW fr, WiredFrame(fr), fr.pass = "body",
           fr.type \in DOMAIN Structs, fr.type \notin InternalOnly
    PROVE  LET to == Until(fr.type, fr.at)
               r == Padded(fr, to)
           IN  /\ Collects(r) /\ r.offset = to /\ Moved(r, fr, fr.at, fr.hints)
               /\ IsSeq(BytesOf(r)) /\ Len(BytesOf(r)) = to
               /\ \A k \in 1..to : BytesOf(r)[k] = Memory[fr.type][k]
<1> DEFINE t == fr.type
           to == Until(t, fr.at)
           from == IF fr.at = 1 THEN 0 ELSE End(t, fr.at - 1)
           r == Padded(fr, to)
           pad == [k \in 1..(to - from) |-> Pad]
           x == BytesOf(fr)
           y == BytesOf(r)
<1>1. /\ fr.at \in 1..(Len(Structs[t]) + 1) /\ Collects(fr) /\ fr.offset = Reached(fr)
      /\ Len(x) = fr.offset /\ \A k \in 1..fr.offset : x[k] = Memory[t][k]
  BY DEF WiredFrame
<1>2. fr.offset = from
  BY <1>1 DEF Reached
<1>3. /\ from \in Nat /\ to \in Nat /\ from <= to
      /\ \A k \in Nat : from < k /\ k <= to => Memory[t][k] = Pad
  BY <1>1, OnWireIsLaidOut, PaddingIsMemory
<1> HIDE DEF from, to
<1>4. /\ Collects(r) /\ y = x \o pad /\ r.offset = to /\ IsSeq(pad) /\ Len(pad) = to - from
      /\ Moved(r, fr, fr.at, fr.hints)
  BY <1>1, <1>2, <1>3, PadIsWritten
<1>5. IsSeq(x) /\ IsSeq(y)
  BY <1>1, <1>4, BytesAreSeq
<1>6. \A k \in 1..(to - from) : pad[k] = Pad
  OBVIOUS
<1> HIDE DEF t, r, x, y, pad
<1>7. /\ Len(y) = from + (to - from)
      /\ \A k \in 1..from : y[k] = x[k]
      /\ \A k \in 1..(to - from) : y[from + k] = pad[k]
  <2>1. IsJoin(y, x, pad)
    BY <1>4 DEF IsJoin
  <2> QED  BY <1>1, <1>2, <1>4, <1>5, <2>1, Joined
<1>8. Len(y) = to
  BY <1>3, <1>7
<1>9. ASSUME NEW k \in 1..to PROVE y[k] = Memory[t][k]
  <2>1. CASE k <= from
    <3>1. k \in 1..from
      BY <1>3, <2>1
    <3> QED  BY <1>1, <1>2, <1>7, <3>1
  <2>2. CASE from < k
    <3>1. k - from \in 1..(to - from) /\ from + (k - from) = k /\ k \in Nat
      BY <1>3, <2>2
    <3>2. y[k] = Pad
      BY <1>6, <1>7, <3>1
    <3> QED  BY <1>3, <2>2, <3>1, <3>2
  <2> QED  BY <1>3, <2>1, <2>2
<1> QED  BY <1>4, <1>5, <1>8, <1>9 DEF t, to, r, y

\* More in a format is more to read it into.
LEMMA ArgsOfMore ==
    ASSUME NEW fmt, IsSeq(fmt), NEW x
    PROVE  /\ IsSeq(Append(fmt, x)) /\ UnpackArgs(fmt) \subseteq UnpackArgs(Append(fmt, x))
           /\ x.char # "x" => UnpackArgs(Append(fmt, x)) # {}
<1> DEFINE more == Append(fmt, x)
<1>1. /\ IsSeq(more) /\ DOMAIN fmt = 1..Len(fmt) /\ Len(fmt) \in Nat
      /\ DOMAIN more = 1..(Len(fmt) + 1) /\ more[Len(fmt) + 1] = x
      /\ \A i \in DOMAIN fmt : more[i] = fmt[i]
  BY Appends
<1> HIDE DEF more
<1>2. DOMAIN fmt \subseteq DOMAIN more /\ Len(fmt) + 1 \in DOMAIN more
  BY <1>1
<1>3. UnpackArgs(fmt) \subseteq UnpackArgs(more)
  BY <1>1, <1>2 DEF UnpackArgs
<1>4. x.char # "x" => x.name \in UnpackArgs(more)
  BY <1>1, <1>2 DEF UnpackArgs
<1> QED  BY <1>1, <1>3, <1>4 DEF more

\* One more operation of which there is something to read.
LEMMA MoreParses ==
    ASSUME NEW fr, IsSeq(fr.unpack), Parses(fr), NEW op,
           op.op = "struct" => UnpackArgs(op.fmt) # {},
           NEW r, r.unpack = Append(fr.unpack, op)
    PROVE  IsSeq(r.unpack) /\ Parses(r)
<1> DEFINE more == Append(fr.unpack, op)
<1>1. /\ IsSeq(more) /\ DOMAIN fr.unpack = 1..Len(fr.unpack) /\ Len(fr.unpack) \in Nat
      /\ DOMAIN more = 1..(Len(fr.unpack) + 1) /\ more[Len(fr.unpack) + 1] = op
      /\ \A i \in DOMAIN fr.unpack : more[i] = fr.unpack[i]
  BY Appends
<1>2. r.unpack = more
  OBVIOUS
<1> HIDE DEF more
<1>3. \A k \in DOMAIN more : k \in DOMAIN fr.unpack \/ k = Len(fr.unpack) + 1
  BY <1>1
<1> QED  BY <1>1, <1>2, <1>3 DEF Parses

\* A flush of a format that is read into something.
LEMMA FlushIsNamed ==
    ASSUME NEW fr, IsFrame(fr), IsSeq(fr.unpack), Parses(fr), fr.fmt # <<>> => UnpackArgs(fr.fmt) # {}
    PROVE  LET r == Flushed(fr)
           IN  /\ Moved(r, fr, fr.at, fr.hints) /\ r.fmt = <<>> /\ r.offset = fr.offset
               /\ IsSeq(r.unpack) /\ Parses(r)
<1> DEFINE op == [op |-> "struct", fmt |-> fr.fmt]
           k == Append(fr.pack, op)
           u == Append(fr.unpack, op)
           r == With(fr, fr.at, fr.hints, <<>>, k, u, fr.offset)
<1>1. Moved(Flushed(fr), fr, fr.at, fr.hints)
  BY FlushedFrame
<1>2. CASE fr.fmt = <<>>
  <2>1. Flushed(fr) = fr
    BY <1>2 DEF Flushed
  <2> QED  BY <1>1, <1>2, <2>1
<1>3. CASE fr.fmt # <<>>
  <2>1. Flushed(fr) = [fr EXCEPT !.pack = k, !.unpack = u, !.fmt = <<>>]
    BY <1>3 DEF Flushed
  <2>2. op.op = "struct" /\ op.fmt = fr.fmt
    OBVIOUS
  <2> HIDE DEF op, k
  <2>3. u = Append(fr.unpack, op)
    OBVIOUS
  <2> HIDE DEF u
  <2>4. [fr EXCEPT !.pack = k, !.unpack = u, !.fmt = <<>>] = r
    BY UpdateFlushed
  <2>5. Recoded(r, fr, <<>>, k, u) /\ r.offset = fr.offset
    BY WithRecodes
  <2> HIDE DEF r
  <2>6. r.unpack = Append(fr.unpack, op) /\ r.fmt = <<>>
    BY <2>3, <2>5 DEF Recoded
  <2>7. IsSeq(r.unpack) /\ Parses(r)
    BY <1>3, <2>2, <2>6, MoreParses
  <2> QED  BY <1>1, <2>1, <2>4, <2>5, <2>6, <2>7
<1> QED  BY <1>2, <1>3

\* Padding that is pending alone waits for the next field.
LEMMA PaddedIsNamed ==
    ASSUME WellNested, Formattable, NEW fr, WiredFrame(fr), fr.pass = "body", IsFrame(fr),
           fr.type \in DOMAIN Structs, fr.type # "shared_ptr"
    PROVE  LET to == Until(fr.type, fr.at)
               r == Padded(fr, to)
           IN  /\ Moved(r, fr, fr.at, fr.hints) /\ r.offset = to
               /\ IsSeq(r.fmt) /\ IsSeq(r.unpack) /\ Parses(r)
               /\ \/ r.fmt # <<>> => UnpackArgs(r.fmt) # {}
                  \/ fr.at \in DOMAIN Structs[fr.type] /\ InFormat(Structs[fr.type][fr.at])
<1> DEFINE t == fr.type
           to == Until(t, fr.at)
           from == IF fr.at = 1 THEN 0 ELSE End(t, fr.at - 1)
           x == Item("x", to - fr.offset, "")
           v == Append(fr.fmt, x)
           w == With(fr, fr.at, fr.hints, v, fr.pack, fr.unpack, to)
<1>1. fr.at \in 1..(Len(Structs[t]) + 1) /\ NamedFrame(fr)
  BY DEF WiredFrame
<1>2. fr.offset = from /\ from \in Nat /\ to \in Nat /\ from <= to
  <2>1. fr.offset = from
    BY <1>1 DEF NamedFrame, Reached
  <2> QED  BY <1>1, <2>1, PaddingIsMemory
<1>3. from < to => \/ fr.at # 1 /\ InFormat(Structs[t][fr.at - 1])
                   \/ fr.at \in DOMAIN Structs[t] /\ InFormat(Structs[t][fr.at])
  BY <1>1 DEF Formattable, PaddingShared
<1>4. Moved(Padded(fr, to), fr, fr.at, fr.hints)
  BY PaddedFrame
<1> HIDE DEF from, to
<1>5. CASE from = to
  <2>1. Padded(fr, to) = fr
    BY <1>2, <1>5 DEF Padded
  <2> QED  BY <1>1, <1>2, <1>4, <1>5, <2>1 DEF NamedFrame, to
<1>6. CASE from # to
  <2>1. to > fr.offset /\ from < to
    BY <1>2, <1>6
  <2>2. Padded(fr, to) = [fr EXCEPT !.fmt = v, !.offset = to]
    BY <2>1 DEF Padded
  <2>3. IsSeq(v) /\ UnpackArgs(fr.fmt) \subseteq UnpackArgs(v)
    <3> HIDE DEF x
    <3> QED  BY <1>1, ArgsOfMore DEF NamedFrame
  <2> HIDE DEF v
  <2>4. [fr EXCEPT !.fmt = v, !.offset = to] = w
    BY UpdateFormat
  <2>5. Recoded(w, fr, v, fr.pack, fr.unpack) /\ w.offset = to
    BY WithRecodes
  <2>6. Padded(fr, to) = w
    BY <2>2, <2>4
  <2> HIDE DEF w
  <2>7. w.fmt = v /\ w.unpack = fr.unpack
    BY <2>5 DEF Recoded
  <2>8. IsSeq(w.unpack) /\ Parses(w)
    BY <1>1, <2>7 DEF NamedFrame, Parses
  <2>9. fr.at # 1 /\ InFormat(Structs[t][fr.at - 1]) => UnpackArgs(v) # {}
    BY <1>1, <2>3 DEF NamedFrame, Waits
  <2> QED  BY <1>3, <1>4, <2>1, <2>3, <2>5, <2>6, <2>7, <2>8, <2>9 DEF to
<1> QED  BY <1>5, <1>6

\* A value is no padding.
LEMMA ValueIsNoPadding == \A t : FormatChar(t) # "x"
BY DEF FormatChar

\* Behind a field something is pending to read it into, or nothing is pending.
LEMMA CodeIsNamed ==
    ASSUME NEW p, IsFrame(p), IsSeq(p.fmt), IsSeq(p.unpack), Parses(p), NEW f,
           (p.fmt # <<>> => UnpackArgs(p.fmt) # {}) \/ InFormat(f),
           NEW r, r = FieldCode(p, f)
    PROVE  /\ Moved(r, p, p.at + 1, Append(p.hints, Hint(f))) /\ r.offset = p.offset + FieldSize(f)
           /\ IsSeq(r.fmt) /\ IsSeq(r.unpack) /\ Parses(r)
           /\ r.fmt # <<>> \/ InFormat(f) => UnpackArgs(r.fmt) # {}
<1> DEFINE o == p.offset + FieldSize(f)
           a == p.at + 1
           h == Append(p.hints, Hint(f))
           next == [p EXCEPT !.offset = o, !.at = a, !.hints = h]
           out == Flushed(next)
           xs == Item("s", f.n, f.name)
           x1 == Item(FormatChar(f.type), 1, f.name)
           x == IF RawBytes(f) THEN xs ELSE x1
           v == Append(next.fmt, x)
           k == Append(out.pack, Object(f))
           u == Append(out.unpack, Object(f))
<1>1. InFormat(f) => r = [next EXCEPT !.fmt = v]
  BY DEF FieldCode, InFormat
<1>2. ~InFormat(f) => r = [out EXCEPT !.pack = k, !.unpack = u]
  BY DEF FieldCode, InFormat
<1>3. Moved(r, p, a, h)
  BY FieldFrame
<1>4. x.char # "x"
  BY ValueIsNoPadding DEF Item
<1>5. next = With(p, a, h, p.fmt, p.pack, p.unpack, o)
  <2> HIDE DEF a, h, o
  <2> QED  BY UpdatePlace
<1>6. Recoded(next, p, p.fmt, p.pack, p.unpack) /\ next.offset = o
  BY <1>5, WithRecodes
<1> HIDE DEF next, o, x
<1>7. /\ IsFrame(next) /\ next.fmt = p.fmt /\ next.unpack = p.unpack /\ IsSeq(next.fmt)
      /\ IsSeq(next.unpack) /\ Parses(next)
  BY <1>6 DEF Recoded, Parses
<1>8. CASE InFormat(f)
  <2>1. IsSeq(v) /\ UnpackArgs(v) # {}
    BY <1>4, <1>7, ArgsOfMore
  <2> HIDE DEF v
  <2>2. [next EXCEPT !.fmt = v]
            = With(next, next.at, next.hints, v, next.pack, next.unpack, next.offset)
    BY <1>7 DEF IsFrame, With
  <2>3. Recoded(r, next, v, next.pack, next.unpack) /\ r.offset = o
    BY <1>1, <1>6, <1>8, <2>2, WithRecodes
  <2>4. r.fmt = v /\ r.unpack = next.unpack
    BY <2>3 DEF Recoded
  <2> QED  BY <1>3, <1>7, <2>1, <2>3, <2>4 DEF Parses, o
<1>9. CASE ~InFormat(f)
  <2>1. /\ Moved(out, next, next.at, next.hints) /\ out.fmt = <<>> /\ out.offset = next.offset
        /\ IsSeq(out.unpack) /\ Parses(out)
    BY <1>7, <1>9, FlushIsNamed
  <2>2. Object(f).op # "struct"
    BY DEF Object
  <2>3. u = Append(out.unpack, Object(f)) /\ IsFrame(out)
    BY <2>1 DEF Moved
  <2> HIDE DEF out, k, u
  <2>4. [out EXCEPT !.pack = k, !.unpack = u]
            = With(out, out.at, out.hints, out.fmt, k, u, out.offset)
    BY <2>3, UpdateCode
  <2>5. Recoded(r, out, out.fmt, k, u) /\ r.offset = o
    <3>1. r = With(out, out.at, out.hints, out.fmt, k, u, out.offset)
      BY ONLY <1>2, <1>9, <2>4
    <3> QED  BY <1>6, <2>1, <3>1, WithRecodes
  <2>6. r.fmt = <<>> /\ r.unpack = Append(out.unpack, Object(f))
    BY <2>1, <2>3, <2>5 DEF Recoded
  <2>7. IsSeq(r.unpack) /\ Parses(r)
    BY <2>1, <2>2, <2>6, MoreParses
  <2>8. IsSeq(r.fmt)
    BY <2>6 DEF IsSeq, ToSet
  <2> QED  BY <1>3, <1>9, <2>5, <2>6, <2>7, <2>8 DEF o
<1> QED  BY <1>8, <1>9

\* A field is written where it is in memory.
LEMMA FieldIsWired ==
    ASSUME WellNested, Formattable, NEW fr, WiredFrame(fr), fr.pass = "body", IsFrame(fr),
           fr.type \in DOMAIN Structs, fr.at \in DOMAIN Structs[fr.type]
    PROVE  WiredFrame(FieldCode(Padded(fr, Layout[fr.type].offset[fr.at]), Structs[fr.type][fr.at]))
<1> DEFINE t == fr.type
           at == fr.at
           f == Structs[t][at]
           n == Len(Structs[t])
           p == Padded(fr, Begin(t, at))
           r == FieldCode(p, f)
<1>1. n \in Nat /\ DOMAIN Structs[t] = 1..n
  BY FieldsAreDeclared
<1>2. Moved(p, fr, at, fr.hints)
  BY PaddedFrame
<1>3. Moved(r, p, at + 1, Append(p.hints, Hint(f)))
  <2>1. IsFrame(p) /\ p.at = at
    BY <1>2 DEF Moved
  <2> HIDE DEF p, f
  <2> QED  BY <2>1, FieldFrame DEF r
<1>4. r.type = t /\ r.at = at + 1 /\ r.pass = "body" /\ IsFrame(r)
  BY <1>2, <1>3 DEF Moved
<1>5. at + 1 \in 1..(n + 1) /\ at + 1 # 1 /\ (at + 1) - 1 = at
  BY <1>1
<1>6. ASSUME t \notin InternalOnly
      PROVE  /\ Collects(r) /\ r.offset = Reached(r) /\ Len(BytesOf(r)) = r.offset
             /\ \A k \in 1..r.offset : BytesOf(r)[k] = Memory[t][k]
  <2> DEFINE b == Begin(t, at)
             image == FieldImage(f, Memory[f.type])
             y == BytesOf(p)
             z == BytesOf(r)
             size == FieldSize(f)
  <2>1. Until(t, at) = b
    BY DEF Until
  <2>2. /\ Collects(p) /\ p.offset = b /\ IsSeq(y) /\ Len(y) = b
        /\ \A k \in 1..b : y[k] = Memory[t][k]
    BY <1>6, <2>1, PaddedIsWired
  <2>3. /\ Collects(r) /\ z = y \o image /\ r.offset = b + size
    <3>1. p.type = t
      BY <1>2 DEF Moved
    <3>2. f = Structs[t][at] /\ r = FieldCode(p, f)
      OBVIOUS
    <3> HIDE DEF p, f, r, b
    <3>3. p.offset = b /\ Collects(p)
      BY <2>2
    <3>4. t \in DOMAIN Structs /\ t \notin InternalOnly /\ at \in DOMAIN Structs[t]
      BY <1>6
    <3> HIDE DEF t, at
    <3>5. /\ Collects(r) /\ BytesOf(r) = BytesOf(p) \o FieldImage(f, Memory[f.type])
          /\ r.offset = p.offset + FieldSize(f)
      BY ONLY WellNested, Formattable, <3>1, <3>2, <3>3, <3>4, FieldIsWritten, SMTT(30)
    <3> QED  BY <3>3, <3>5
  <2>4. /\ t # "shared_ptr" /\ t \in DOMAIN Layout
    BY <1>6, OnWireIsLaidOut
  <2>5. /\ b \in Nat /\ size \in Nat /\ End(t, at) = b + size /\ b + size <= SizeOf(t)
        /\ SizeOf(t) \in Nat /\ f.type \in DOMAIN Layout
    BY <2>4, FieldsAscend DEF End
  <2>6. IsSeq(image) /\ Len(image) = size
    <3>1. IsSeq(Memory[f.type]) /\ Len(Memory[f.type]) = SizeOf(f.type)
      BY <2>5, ImagesAreSized
    <3>2. f.n \in Nat /\ (f.as = "one" => f.n = 1)
      BY FieldsAreDeclared DEF Formattable
    <3> HIDE DEF f
    <3> QED  BY <3>1, <3>2, FieldIsSized DEF FieldSize
  <2>7. \A k \in 1..SizeOf(t) : b < k /\ k <= b + size => Memory[t][k] = image[k - b]
    BY <2>4, <2>5, MemoryAt
  <2>8. r.offset = Reached(r)
    BY <1>4, <1>5, <2>3, <2>5 DEF Reached
  <2> HIDE DEF t, at, f, p, r, b, image, y, z, size
  <2>9. /\ Len(z) = b + size
        /\ \A k \in 1..b : z[k] = y[k]
        /\ \A k \in 1..size : z[b + k] = image[k]
    <3>1. IsJoin(z, y, image)
      BY <2>3 DEF IsJoin
    <3>2. /\ Len(z) = Len(y) + Len(image)
          /\ \A k \in 1..Len(y) : z[k] = y[k]
          /\ \A k \in 1..Len(image) : z[Len(y) + k] = image[k]
      <4>1. IsSeq(y) /\ IsSeq(image)
        BY <2>2, <2>6
      <4> QED  BY ONLY <3>1, <4>1, Joined
    <3>3. Len(y) = b /\ Len(image) = size
      BY <2>2, <2>6
    <3> QED  BY <3>2, <3>3, Zenon
  <2>10. ASSUME NEW k \in 1..(b + size) PROVE z[k] = Memory[t][k]
    <3>1. CASE k <= b
      <4>1. k \in 1..b
        BY <2>5, <3>1
      <4> QED  BY <2>2, <2>9, <4>1
    <3>2. CASE b < k
      <4>1. k - b \in 1..size /\ b + (k - b) = k /\ k \in 1..SizeOf(t) /\ k <= b + size
        BY <2>5, <3>2
      <4> QED  BY <2>7, <2>9, <3>2, <4>1
    <3> QED  BY <2>5, <3>1, <3>2
  <2> QED  BY <2>3, <2>8, <2>9, <2>10 DEF z
<1>7. NamedFrame(r)
  <2>1. t # "shared_ptr" /\ Until(t, at) = Begin(t, at)
    BY <1>1 DEF Formattable, Until
  <2>2. /\ Moved(p, fr, at, fr.hints) /\ p.offset = Begin(t, at)
        /\ IsSeq(p.fmt) /\ IsSeq(p.unpack) /\ Parses(p)
        /\ (p.fmt # <<>> => UnpackArgs(p.fmt) # {}) \/ InFormat(f)
    <3> HIDE DEF r
    <3> QED  BY <2>1, PaddedIsNamed
  <2>3. IsFrame(p) /\ r = FieldCode(p, f)
    BY <2>2 DEF Moved
  <2> HIDE DEF p, r, f
  <2>4. /\ r.offset = p.offset + FieldSize(f)
        /\ IsSeq(r.fmt) /\ IsSeq(r.unpack) /\ Parses(r)
        /\ r.fmt # <<>> \/ InFormat(f) => UnpackArgs(r.fmt) # {}
    BY <2>2, <2>3, CodeIsNamed
  <2>5. r.offset = Reached(r)
    BY <1>4, <1>5, <2>2, <2>4 DEF Reached, End, f
  <2>6. Waits(r) => InFormat(f)
    BY <1>4, <1>5 DEF Waits, f
  <2>7. ~(r.pass = "nested" \/ r.at = 1)
    BY <1>4, <1>5
  <2> QED  BY <2>4, <2>5, <2>6, <2>7 DEF NamedFrame
<1> HIDE DEF r
<1>8. WiredFrame(r)
  BY <1>4, <1>5, <1>6, <1>7 DEF WiredFrame
<1> QED  BY <1>8 DEF r, p, f, t, at, Begin
\* The class that is printed writes what is in memory.
LEMMA ClassIsWired ==
    ASSUME WellNested, Formattable, NEW fr, WiredFrame(fr), fr.pass = "body", IsFrame(fr),
           fr.type \in DOMAIN Structs, fr.at > Len(Structs[fr.type]), NEW done,
           done = IF Structs[fr.type] = <<>> THEN fr ELSE Flushed(Padded(fr, SizeOf(fr.type))),
           NEW c, c.name = fr.type, c.wire_size = SizeOf(fr.type), c.pack = done.pack,
           c.unpack = done.unpack, NEW printed,
           \A j \in DOMAIN Structs[fr.type] :
               IsClass(Structs[fr.type][j].type) => Structs[fr.type][j].type \in printed
    PROVE  WiredClass(c, printed)
<1>0. Parses(c)
  <2>1. CASE Structs[fr.type] = <<>>
    <3>1. Parses(fr) /\ done = fr
      BY <2>1 DEF WiredFrame, NamedFrame
    <3> QED  BY <3>1 DEF Parses
  <2>2. CASE Structs[fr.type] # <<>>
    <3> DEFINE p == Padded(fr, SizeOf(fr.type))
    <3>1. fr.type # "shared_ptr" /\ fr.at \notin DOMAIN Structs[fr.type]
      BY <2>2, FieldsAreDeclared DEF Formattable
    <3>2. Until(fr.type, fr.at) = SizeOf(fr.type)
      BY <3>1 DEF Until
    <3>3. /\ Moved(p, fr, fr.at, fr.hints) /\ IsSeq(p.unpack) /\ Parses(p)
          /\ p.fmt # <<>> => UnpackArgs(p.fmt) # {}
      BY <3>1, <3>2, PaddedIsNamed
    <3>4. done = Flushed(p) /\ IsFrame(p)
      BY <2>2, <3>3 DEF Moved
    <3> HIDE DEF p
    <3>5. Parses(done)
      BY <3>3, <3>4, FlushIsNamed
    <3> QED  BY <3>5 DEF Parses
  <2> QED  BY <2>1, <2>2
<1>1. SUFFICES ASSUME fr.type \notin InternalOnly
               PROVE  /\ IsCode(c.pack) /\ c.unpack = c.pack /\ Calls(c.pack, fr.type)
                      /\ CodeBytes(c.pack) = Memory[fr.type]
  BY <1>0 DEF WiredClass
<1> DEFINE t == fr.type
           p == Padded(fr, SizeOf(t))
<1>2. t # "shared_ptr" /\ t \in DOMAIN Layout /\ Structs[t] # <<>>
  BY <1>1, OnWireIsLaidOut
<1>3. Until(t, fr.at) = SizeOf(t)
  <2>1. fr.at \notin DOMAIN Structs[t]
    BY FieldsAreDeclared
  <2> QED  BY <2>1 DEF Until
<1>4. /\ Collects(p) /\ Len(BytesOf(p)) = SizeOf(t)
      /\ \A k \in 1..SizeOf(t) : BytesOf(p)[k] = Memory[t][k]
  BY <1>1, <1>3, PaddedIsWired
<1>5. done = Flushed(p)
  BY <1>2
<1> HIDE DEF p
<1>6. Collects(done) /\ BytesOf(done) = BytesOf(p) /\ done.fmt = <<>> /\ done.type = t
  <2>1. Collects(done) /\ BytesOf(done) = BytesOf(p) /\ done.fmt = <<>> /\ Moved(done, p, p.at, p.hints)
    BY <1>4, <1>5, FlushIsWritten
  <2>2. p.type = t
    BY PaddedFrame DEF p, Moved
  <2> QED  BY <2>1, <2>2 DEF Moved
<1>7. IsCode(done.pack) /\ done.unpack = done.pack /\ Calls(done.pack, t)
  BY <1>6 DEF Collects
<1>8. BytesOf(done) = CodeBytes(done.pack)
  <2>1. IsSeq(CodeBytes(done.pack))
    BY <1>7, CodeIsSeq
  <2> QED  BY <1>6, <2>1, EmptyCode, Concatenation DEF BytesOf
<1>9. CodeBytes(done.pack) = Memory[t]
  <2>1. IsSeq(Memory[t]) /\ Len(Memory[t]) = SizeOf(t)
    BY <1>2, ImagesAreSized
  <2>2. IsSeq(CodeBytes(done.pack))
    BY <1>7, CodeIsSeq
  <2> QED  BY <1>4, <1>6, <1>8, <2>1, <2>2, SameSeq
<1> QED  BY <1>7, <1>9
(***************************************************************************)
(* Each step keeps this.                                                   *)
(***************************************************************************)
AllWired(s) == \A i \in DOMAIN s : WiredFrame(s[i])

LEMMA PushIsWired ==
    ASSUME NEW s, IsSeq(s), AllWired(s), NEW x, WiredFrame(x) PROVE AllWired(<<x>> \o s)
<1> DEFINE r == <<x>> \o s
<1>1. /\ DOMAIN r = 1..(Len(s) + 1) /\ Len(s) \in Nat /\ DOMAIN s = 1..Len(s) /\ r[1] = x
      /\ \A i \in 1..Len(s) : r[i + 1] = s[i]
  BY Pushes
<1> HIDE DEF r
<1>2. ASSUME NEW i \in DOMAIN r, i # 1 PROVE WiredFrame(r[i])
  <2>1. i - 1 \in 1..Len(s) /\ (i - 1) + 1 = i
    BY <1>1, <1>2
  <2> QED  BY <1>1, <2>1 DEF AllWired
<1>3. AllWired(r)
  BY <1>1, <1>2 DEF AllWired
<1> QED  BY <1>3 DEF r

LEMMA PopIsWired ==
    ASSUME NEW s, IsSeq(s), AllWired(s), s # <<>>
    PROVE  AllWired(Tail(s)) /\ IsSeq(Tail(s)) /\ WiredFrame(Head(s))
<1>1. /\ IsSeq(Tail(s)) /\ Len(s) \in Nat \ {0} /\ DOMAIN s = 1..Len(s)
      /\ DOMAIN Tail(s) = 1..(Len(s) - 1) /\ Head(s) = s[1]
      /\ \A i \in 1..(Len(s) - 1) : Tail(s)[i] = s[i + 1]
  BY Pops
<1>2. ASSUME NEW i \in DOMAIN Tail(s) PROVE WiredFrame(Tail(s)[i])
  <2>1. i + 1 \in DOMAIN s /\ Tail(s)[i] = s[i + 1]
    BY <1>1
  <2> QED  BY <2>1 DEF AllWired
<1>3. WiredFrame(Head(s))
  BY <1>1 DEF AllWired
<1> QED  BY <1>1, <1>2, <1>3 DEF AllWired

\* The frame on top, and those below it.
LEMMA TopIsWired ==
    ASSUME WellNested, GInv, WInv, stack # <<>>
    PROVE  /\ WiredFrame(Top) /\ AllWired(Tail(stack)) /\ IsSeq(Tail(stack))
           /\ IsFrame(Top) /\ Top.type \in DOMAIN Structs /\ Fields = Structs[Top.type]
           /\ Top.at \in 1..(Len(Fields) + 1) /\ Len(Fields) \in Nat /\ DOMAIN Fields = 1..Len(Fields)
<1>1. Framed(stack, visited) /\ AllWired(stack)
  BY DEF GInv, WInv, AllWired
<1>2. FrameOK(Top, visited) /\ Top.type \in DOMAIN Structs
      /\ DOMAIN Fields = 1..Len(Fields) /\ Len(Fields) \in Nat
  BY <1>1, TopIsFrame
<1>3. WiredFrame(Top) /\ AllWired(Tail(stack)) /\ IsSeq(Tail(stack))
  BY <1>1, PopIsWired DEF Framed, Top
<1>4. Top.at \in 1..(Len(Fields) + 1)
  BY <1>3 DEF WiredFrame, Fields
<1> QED  BY <1>2, <1>3, <1>4 DEF FrameOK, Fields

LEMMA Becomes_Wired ==
    ASSUME WellNested, GInv, WInv, stack # <<>>, NEW fr, WiredFrame(fr), Becomes(fr), UNCHANGED classes
    PROVE  WInv'
<1>1. AllWired(<<fr>> \o Tail(stack))
  BY TopIsWired, PushIsWired
<1> QED  BY <1>1 DEF Becomes, WInv, AllWired, Printed

LEMMA NextRoot_Wired ==
    ASSUME WellNested, GInv, WInv, NextRoot PROVE WInv'
<1> DEFINE t == Head(todo)
<1>1. /\ todo # <<>> /\ Enters(t, <<>>) /\ UNCHANGED classes
  BY DEF NextRoot
<1>2. t \in DOMAIN Structs
  BY <1>1 DEF GInv, RootsToCome
<1> HIDE DEF t
<1>3. IsSeq(<<>>) /\ AllWired(<<>>)
  BY DEF IsSeq, ToSet, AllWired
<1>4. AllWired(<<Call(t)>> \o <<>>)
  BY <1>2, <1>3, CallIsWired, PushIsWired
<1>5. stack' = <<>> \/ stack' = <<Call(t)>> \o <<>>
  BY <1>1 DEF Enters
<1>6. AllWired(stack')
  BY <1>3, <1>4, <1>5
<1> QED  BY <1>1, <1>6 DEF WInv, AllWired, Printed

LEMMA Nested_Wired ==
    ASSUME WellNested, GInv, WInv, Nested PROVE WInv'
<1> DEFINE a == Top.at + 1
           fr == [Top EXCEPT !.at = @ + 1]
           rest == <<fr>> \o Tail(stack)
           t == Field.type
<1>1. /\ stack # <<>> /\ Top.pass = "nested" /\ Top.at <= Len(Fields) /\ UNCHANGED classes
      /\ IsClass(t) => Enters(t, rest)
      /\ ~IsClass(t) => stack' = rest
  BY DEF Nested
<1>2. /\ WiredFrame(Top) /\ AllWired(Tail(stack)) /\ IsSeq(Tail(stack))
      /\ IsFrame(Top) /\ Top.type \in DOMAIN Structs /\ Fields = Structs[Top.type]
      /\ Top.at \in 1..(Len(Fields) + 1) /\ Len(Fields) \in Nat /\ DOMAIN Fields = 1..Len(Fields)
  BY <1>1, TopIsWired
<1>3. fr = [Top EXCEPT !.at = a]
  OBVIOUS
<1>4. a \in 1..(Len(Structs[Top.type]) + 1)
  BY <1>1, <1>2
<1> HIDE DEF a, fr
<1>5. fr = With(Top, a, Top.hints, Top.fmt, Top.pack, Top.unpack, Top.offset)
  BY <1>2, <1>3 DEF IsFrame, With
<1>6. Recoded(fr, Top, Top.fmt, Top.pack, Top.unpack) /\ fr.offset = Top.offset
  BY <1>5, WithRecodes
<1>7. fr.pass = "nested" /\ fr.at = a
  BY <1>1, <1>5 DEF With
<1>8. WiredFrame(fr)
  BY <1>1, <1>2, <1>4, <1>6, <1>7, FirstPassIsWired
<1>9. AllWired(rest) /\ IsSeq(rest)
  BY <1>2, <1>8, PushIsWired, Pushes
<1>10. IsClass(t) => AllWired(<<Call(t)>> \o rest)
  BY <1>9, CallIsWired, PushIsWired DEF IsClass
<1>11. stack' = rest \/ (IsClass(t) /\ stack' = <<Call(t)>> \o rest)
  BY <1>1 DEF Enters
<1> HIDE DEF rest, t
<1>12. AllWired(stack')
  BY <1>9, <1>10, <1>11
<1> QED  BY <1>1, <1>12 DEF WInv, AllWired, Printed

LEMMA ClassBegins_Wired ==
    ASSUME WellNested, GInv, WInv, ClassBegins PROVE WInv'
<1> DEFINE g == [Top EXCEPT !.pass = "body"]
           fr == [Top EXCEPT !.pass = "body", !.at = 1]
<1>1. /\ stack # <<>> /\ Top.pass = "nested" /\ Becomes(fr) /\ UNCHANGED classes
  BY DEF ClassBegins
<1>2. /\ WiredFrame(Top) /\ IsFrame(Top) /\ Fields = Structs[Top.type] /\ Len(Fields) \in Nat
  BY <1>1, TopIsWired
<1>3. g = [type |-> Top.type, pass |-> "body", at |-> Top.at, hints |-> Top.hints, fmt |-> Top.fmt,
           pack |-> Top.pack, unpack |-> Top.unpack, offset |-> Top.offset]
  BY <1>2 DEF IsFrame
<1>4. fr = [g EXCEPT !.at = 1]
  OBVIOUS
<1> HIDE DEF g
<1>5. fr = [type |-> Top.type, pass |-> "body", at |-> 1, hints |-> Top.hints, fmt |-> Top.fmt,
            pack |-> Top.pack, unpack |-> Top.unpack, offset |-> Top.offset]
  BY <1>3, <1>4
<1> HIDE DEF fr
<1>6. Recoded(fr, Top, Top.fmt, Top.pack, Top.unpack) /\ fr.offset = Top.offset /\ fr.at = 1
  BY <1>5 DEF Recoded, IsFrame
<1>7. 1 \in 1..(Len(Structs[Top.type]) + 1)
  BY <1>2
<1>8. WiredFrame(fr)
  BY <1>1, <1>2, <1>6, <1>7, FirstPassIsWired
<1> QED  BY <1>1, <1>8, Becomes_Wired

LEMMA BodyField_Wired ==
    ASSUME WellNested, Formattable, GInv, WInv, BodyField PROVE WInv'
<1> DEFINE fr == FieldCode(Padded(Top, Layout[Top.type].offset[Top.at]), Field)
<1>1. /\ stack # <<>> /\ Top.pass = "body" /\ Top.at <= Len(Fields) /\ Becomes(fr)
      /\ UNCHANGED classes
  BY DEF BodyField
<1>2. /\ WiredFrame(Top) /\ IsFrame(Top) /\ Top.type \in DOMAIN Structs /\ Fields = Structs[Top.type]
      /\ Top.at \in 1..(Len(Fields) + 1) /\ Len(Fields) \in Nat /\ DOMAIN Fields = 1..Len(Fields)
  BY <1>1, TopIsWired
<1>3. Top.at \in DOMAIN Structs[Top.type] /\ Field = Structs[Top.type][Top.at]
  BY <1>1, <1>2 DEF Field
<1>4. WiredFrame(fr)
  BY <1>1, <1>2, <1>3, FieldIsWired
<1> HIDE DEF fr
<1> QED  BY <1>1, <1>4, Becomes_Wired

\* When a class is printed, those of its fields have been.
LEMMA UsesArePrinted ==
    ASSUME WellNested, GInv, stack # <<>>, Top.pass = "body"
    PROVE  \A j \in DOMAIN Structs[Top.type] :
               IsClass(Structs[Top.type][j].type) => Structs[Top.type][j].type \in Printed
<1> SUFFICES ASSUME NEW j \in DOMAIN Structs[Top.type], IsClass(Structs[Top.type][j].type)
             PROVE  Structs[Top.type][j].type \in Printed
  OBVIOUS
<1> DEFINE u == Structs[Top.type][j].type
<1>1. Framed(stack, visited) /\ Descends(stack)
  BY DEF GInv
<1>2. FrameOK(Top, visited) /\ Top.type \in DOMAIN Structs
  BY <1>1, TopIsFrame
<1>3. u \in visited
  BY <1>2 DEF FrameOK
<1>4. u \in DOMAIN Structs /\ Depth(u) < Depth(Top.type)
  BY <1>2, FieldsAreDeclared
<1>5. \A i \in DOMAIN stack : stack[i].type = Top.type \/ Depth(Top.type) < Depth(stack[i].type)
  BY <1>1, TopReturns DEF Top
<1>6. u \notin InProgress(stack)
  <2> SUFFICES ASSUME NEW k \in DOMAIN stack, stack[k].type = u PROVE FALSE
    BY DEF InProgress
  <2>1. u = Top.type \/ Depth(Top.type) < Depth(u)
    BY <1>5
  <2> HIDE DEF u
  <2> QED  BY <1>4, <2>1, DepthIsNat
<1> QED  BY <1>3, <1>6 DEF GInv, BegunIsKnown

LEMMA ClassEnds_Wired ==
    ASSUME WellNested, Formattable, GInv, WInv, ClassEnds PROVE WInv'
<1> DEFINE done == IF Fields = <<>> THEN Top ELSE Flushed(Padded(Top, SizeOf(Top.type)))
           names == UNION { done.hints[i] : i \in DOMAIN done.hints }
           c == [name |-> Top.type, wire_size |-> SizeOf(Top.type), hints |-> names,
                 pack |-> done.pack, unpack |-> done.unpack]
<1>1. /\ stack # <<>> /\ Top.pass = "body" /\ Top.at > Len(Fields) /\ stack' = Tail(stack)
      /\ classes' = Append(classes, c)
  BY DEF ClassEnds
<1>2. /\ WiredFrame(Top) /\ AllWired(Tail(stack)) /\ IsFrame(Top) /\ Top.type \in DOMAIN Structs
      /\ Fields = Structs[Top.type]
  BY <1>1, TopIsWired
<1>3. c.name = Top.type /\ c.wire_size = SizeOf(Top.type) /\ c.pack = done.pack /\ c.unpack = done.unpack
  OBVIOUS
<1>4. done = IF Structs[Top.type] = <<>> THEN Top ELSE Flushed(Padded(Top, SizeOf(Top.type)))
  BY <1>2
<1> HIDE DEF c, done
<1>5. WiredClass(c, Printed)
  BY <1>1, <1>2, <1>3, <1>4, UsesArePrinted, ClassIsWired
<1>6. /\ Len(classes) \in Nat /\ DOMAIN classes = 1..Len(classes)
      /\ DOMAIN classes' = 1..(Len(classes) + 1) /\ classes'[Len(classes) + 1] = c
      /\ \A i \in DOMAIN classes : classes'[i] = classes[i]
  BY <1>1, Appends DEF GInv, InOrder
<1>7. \A i \in DOMAIN classes' : i \in DOMAIN classes \/ i = Len(classes) + 1
  BY <1>6
<1>8. Printed \subseteq Printed'
  <2>1. DOMAIN classes \subseteq DOMAIN classes'
    BY <1>6
  <2> QED  BY <1>6, <2>1 DEF Printed
<1>9. \A i \in DOMAIN classes' : WiredClass(classes'[i], Printed)
  BY <1>5, <1>6, <1>7 DEF WInv
<1>10. \A i \in DOMAIN classes' : WiredClass(classes'[i], Printed')
  BY <1>8, <1>9 DEF WiredClass
<1>11. Top.type \notin Printed
  <2>1. Top.type \in InProgress(stack)
    BY <1>1, TopIsFrame DEF GInv
  <2> QED  BY <2>1 DEF GInv, BegunIsKnown
<1>12. Distinct(classes')
  <2>1. \A i \in DOMAIN classes : classes'[i].name \in Printed
    BY <1>6 DEF Printed
  <2>2. Distinct(classes)
    BY DEF WInv
  <2> QED  BY <1>3, <1>6, <1>7, <1>11, <2>1, <2>2 DEF Distinct
<1> QED  BY <1>1, <1>2, <1>10, <1>12 DEF WInv, AllWired

LEMMA WInvIsInductive ==
    ASSUME WellNested, Formattable
    PROVE  /\ Init => WInv
           /\ GInv /\ WInv /\ [Next]_vars => WInv'
<1>1. Init => WInv
  BY DEF Init, BindingsInit, WInv, Distinct
<1>2. ASSUME GInv, WInv, [Next]_vars PROVE WInv'
  <2>1. CASE BindingsNext
    BY <1>2, <2>1, NextRoot_Wired, Nested_Wired, ClassBegins_Wired, BodyField_Wired, ClassEnds_Wired
       DEF BindingsNext
  <2>2. CASE UNCHANGED bindings
    BY <1>2, <2>2 DEF WInv, bindings, Printed
  <2> QED  BY <1>2, <2>1, <2>2 DEF Next, vars
<1> QED  BY <1>1, <1>2
-----------------------------------------------------------------------------
(***************************************************************************)
(* What the printed module does.                                           *)
(***************************************************************************)
\* The classes a code calls are among those known.
Ready(code, known) ==
    \A k \in DOMAIN code : code[k].op = "struct" \/ code[k].type \in DOMAIN known

\* What is known of the classes on the wire is what they are in memory.
Right(known) == \A t \in DOMAIN known \ InternalOnly : known[t] = Memory[t]

\* The struct of a field of a struct on the wire is on the wire itself.
LEMMA UsesAreOnWire ==
    ASSUME WellNested, Formattable, NEW t \in DOMAIN Structs, t \notin InternalOnly,
           NEW j \in DOMAIN Structs[t], IsClass(Structs[t][j].type)
    PROVE  Structs[t][j].type \notin InternalOnly
<1> DEFINE f == Structs[t][j]
<1>1. f \in ToSet(Structs[t])
  BY FieldsAreDeclared
<1>2. Encodable(f)
  BY <1>1 DEF Formattable
<1>3. f.type \notin DOMAIN Scalars
  BY DEF Formattable
<1> HIDE DEF f
<1>4. ~RawBytes(f)
  BY <1>2, <1>3 DEF Encodable
<1>5. IsClass(f.type)
  BY DEF f
<1>6. f.type \notin InternalOnly
  BY <1>2, <1>4, <1>5 DEF Encodable
<1> QED  BY <1>6 DEF f

\* The class of a name, and what is known of it.
LEMMA ClassIsKnown ==
    ASSUME WInv, NEW c \in ToSet(classes)
    PROVE  ClassOf(c.name) = c /\ WiredClass(c, Printed) /\ c.name \in Printed
<1>1. PICK i \in DOMAIN classes : c = classes[i]
  BY DEF ToSet
<1>2. \A x \in ToSet(classes) : x.name = c.name => x = c
  <2> SUFFICES ASSUME NEW j \in DOMAIN classes, classes[j].name = c.name PROVE classes[j] = c
    BY DEF ToSet
  <2>1. Distinct(classes)
    BY DEF WInv
  <2>2. i = j
    BY <1>1, <2>1 DEF Distinct
  <2> QED  BY <1>1, <2>2
<1>3. ClassOf(c.name) = c
  BY <1>2 DEF ClassOf
<1> QED  BY <1>1, <1>3 DEF WInv, Printed

LEMMA PrintedIsClass ==
    ASSUME NEW t \in Printed PROVE \E c \in ToSet(classes) : c.name = t
BY DEF Printed, ToSet

\* One round of pack_wire.
PackOp(o, known) ==
    IF o.op = "struct" THEN ChunkBytes(o.fmt) ELSE ObjectBytes(o, known[o.type], Given(o))

PackImage(c, known) == FlattenSeq([k \in DOMAIN c.pack |-> PackOp(c.pack[k], known)])

CanPack(known) == { c.name : c \in { x \in ToSet(classes) : Ready(x.pack, known) } }

LEMMA PackStepIs ==
    ASSUME NEW known
    PROVE  PackStep(known) =
               [t \in CanPack(known) \cup DOMAIN known |->
                   IF t \in CanPack(known) THEN PackImage(ClassOf(t), known) ELSE known[t]]
BY DEF PackStep, PackOp, PackImage, CanPack, Ready

LEMMA PackRound ==
    ASSUME WellNested, Formattable, WInv, NEW known, Right(known)
    PROVE  /\ Right(PackStep(known))
           /\ \A c \in ToSet(classes) :
                  c.name \notin InternalOnly /\ Ready(c.pack, known) => c.name \in DOMAIN PackStep(known)
<1> DEFINE next == PackStep(known)
<1>1. /\ DOMAIN next = CanPack(known) \cup DOMAIN known
      /\ \A t \in CanPack(known) : next[t] = PackImage(ClassOf(t), known)
      /\ \A t \in DOMAIN known : t \notin CanPack(known) => next[t] = known[t]
  BY PackStepIs
<1> HIDE DEF next
<1>2. ASSUME NEW t \in CanPack(known), t \notin InternalOnly PROVE next[t] = Memory[t]
  <2>1. PICK c \in ToSet(classes) : c.name = t /\ Ready(c.pack, known)
    BY DEF CanPack
  <2>2. ClassOf(t) = c /\ WiredClass(c, Printed)
    BY <2>1, ClassIsKnown
  <2>3. t \in DOMAIN Structs /\ Calls(c.pack, t) /\ CodeBytes(c.pack) = Memory[t]
    BY <1>2, <2>1, <2>2 DEF WiredClass
  <2>4. ASSUME NEW k \in DOMAIN c.pack PROVE PackOp(c.pack[k], known) = OpBytes(c.pack[k])
    <3> DEFINE o == c.pack[k]
    <3>1. CASE o.op = "struct"
      BY <3>1 DEF PackOp, OpBytes
    <3>2. CASE o.op # "struct"
      <4>1. o.type \in DOMAIN known
        BY <2>1, <3>2 DEF Ready
      <4>2. PICK j \in DOMAIN Structs[t] : IsClass(Structs[t][j].type) /\ o.type = Structs[t][j].type
        BY <2>3, <3>2 DEF Calls
      <4>3. o.type \notin InternalOnly
        BY <1>2, <2>3, <4>2, UsesAreOnWire
      <4>4. known[o.type] = Memory[o.type]
        BY <4>1, <4>3 DEF Right
      <4> QED  BY <3>2, <4>4 DEF PackOp, OpBytes
    <3> QED  BY <3>1, <3>2
  <2>5. PackImage(c, known) = CodeBytes(c.pack)
    BY <2>4 DEF PackImage, CodeBytes
  <2> QED  BY <1>1, <2>2, <2>3, <2>5
<1>3. Right(next)
  BY <1>1, <1>2 DEF Right
<1> QED  BY <1>1, <1>3 DEF next, CanPack

\* One round of unpack_wire.
UnpackOp(o, known) ==
    IF o.op = "struct" THEN ChunkBytes(o.fmt)
    ELSE ObjectBytes(o, Slice(known[o.type], ClassOf(o.type).wire_size), o.n)

UnpackImage(c, known) == FlattenSeq([k \in DOMAIN c.unpack |-> UnpackOp(c.unpack[k], known)])

CanUnpack(known) == { c.name : c \in { x \in ToSet(classes) : Parses(x) /\ Ready(x.unpack, known) } }

LEMMA UnpackStepIs ==
    ASSUME NEW known
    PROVE  UnpackStep(known) =
               [t \in CanUnpack(known) \cup DOMAIN known |->
                   IF t \in CanUnpack(known) THEN UnpackImage(ClassOf(t), known) ELSE known[t]]
BY DEF UnpackStep, UnpackOp, UnpackImage, CanUnpack, Ready

\* A slice of the size of the image is the image.
LEMMA SliceIsAll ==
    ASSUME NEW image, IsSeq(image) PROVE Slice(image, Len(image)) = image
<1> DEFINE n == Len(image)
           s == Slice(image, n)
<1>1. n \in Nat /\ DOMAIN image = 1..n
  BY SeqDomain
<1>2. s = [k \in 1..n |-> s[k]] /\ \A k \in 1..n : s[k] = image[k]
  BY <1>1 DEF Slice
<1> HIDE DEF s
<1>3. IsSeq(s) /\ Len(s) = n
  BY <1>1, <1>2, FunIsSeq
<1>4. s = image
  BY <1>2, <1>3, SameSeq
<1> QED  BY <1>4 DEF s

LEMMA UnpackRound ==
    ASSUME WellNested, Formattable, WInv, NEW known, Right(known)
    PROVE  /\ Right(UnpackStep(known))
           /\ \A c \in ToSet(classes) :
                  c.name \notin InternalOnly /\ Ready(c.pack, known) => c.name \in DOMAIN UnpackStep(known)
<1> DEFINE next == UnpackStep(known)
<1>1. /\ DOMAIN next = CanUnpack(known) \cup DOMAIN known
      /\ \A t \in CanUnpack(known) : next[t] = UnpackImage(ClassOf(t), known)
      /\ \A t \in DOMAIN known : t \notin CanUnpack(known) => next[t] = known[t]
  BY UnpackStepIs
<1> HIDE DEF next
<1>2. ASSUME NEW t \in CanUnpack(known), t \notin InternalOnly PROVE next[t] = Memory[t]
  <2>1. PICK c \in ToSet(classes) : c.name = t /\ Ready(c.unpack, known)
    BY DEF CanUnpack
  <2>2. ClassOf(t) = c /\ WiredClass(c, Printed)
    BY <2>1, ClassIsKnown
  <2>3. /\ t \in DOMAIN Structs /\ c.unpack = c.pack /\ Calls(c.pack, t)
        /\ CodeBytes(c.pack) = Memory[t]
        /\ \A j \in DOMAIN Structs[t] : IsClass(Structs[t][j].type) => Structs[t][j].type \in Printed
    BY <1>2, <2>1, <2>2 DEF WiredClass
  <2>4. ASSUME NEW k \in DOMAIN c.pack PROVE UnpackOp(c.pack[k], known) = OpBytes(c.pack[k])
    <3> DEFINE o == c.pack[k]
    <3>1. CASE o.op = "struct"
      BY <3>1 DEF UnpackOp, OpBytes
    <3>2. CASE o.op # "struct"
      <4>1. o.type \in DOMAIN known
        BY <2>1, <2>3, <3>2 DEF Ready
      <4>2. PICK j \in DOMAIN Structs[t] : IsClass(Structs[t][j].type) /\ o.type = Structs[t][j].type
        BY <2>3, <3>2 DEF Calls
      <4>3. o.type \notin InternalOnly
        BY <1>2, <2>3, <4>2, UsesAreOnWire
      <4>4. known[o.type] = Memory[o.type]
        BY <4>1, <4>3 DEF Right
      <4>5. PICK d \in ToSet(classes) : d.name = o.type
        BY <2>3, <4>2, PrintedIsClass
      <4>6. ClassOf(o.type).wire_size = SizeOf(o.type) /\ o.type \in DOMAIN Structs
        BY <4>3, <4>5, ClassIsKnown DEF WiredClass
      <4>7. IsSeq(Memory[o.type]) /\ Len(Memory[o.type]) = SizeOf(o.type)
        BY <4>3, <4>6, OnWireIsLaidOut, ImagesAreSized
      <4>8. Slice(known[o.type], ClassOf(o.type).wire_size) = Memory[o.type]
        BY <4>4, <4>6, <4>7, SliceIsAll
      <4> QED  BY <3>2, <4>8 DEF UnpackOp, OpBytes, Given
    <3> QED  BY <3>1, <3>2
  <2>5. UnpackImage(c, known) = CodeBytes(c.pack)
    BY <2>3, <2>4 DEF UnpackImage, CodeBytes
  <2> QED  BY <1>1, <2>2, <2>3, <2>5
<1>3. Right(next)
  BY <1>1, <1>2 DEF Right
<1>4. ASSUME NEW c \in ToSet(classes), c.name \notin InternalOnly, Ready(c.pack, known)
      PROVE  c.name \in CanUnpack(known)
  <2>1. c.unpack = c.pack /\ Parses(c)
    BY <1>4, ClassIsKnown DEF WiredClass
  <2> QED  BY <1>4, <2>1 DEF CanUnpack
<1> QED  BY <1>1, <1>3, <1>4 DEF next

\* Round by round the classes are known whose structs had a layout one round earlier.
KnownUpTo(known, d) == \A t \in Printed \ InternalOnly : t \in DOMAIN Layouts[d] => t \in DOMAIN known

LEMMA RoundReaches ==
    ASSUME WellNested, Formattable, WInv, NEW d \in 0..2, NEW known, KnownUpTo(known, d), NEW next,
           \A c \in ToSet(classes) :
               c.name \notin InternalOnly /\ Ready(c.pack, known) => c.name \in DOMAIN next
    PROVE  KnownUpTo(next, d + 1)
<1> SUFFICES ASSUME NEW t \in Printed, t \notin InternalOnly, t \in DOMAIN Layouts[d + 1]
             PROVE  t \in DOMAIN next
  BY DEF KnownUpTo
<1>1. PICK c \in ToSet(classes) : c.name = t
  BY PrintedIsClass
<1>2. WiredClass(c, Printed)
  BY ClassIsKnown
<1>3. /\ t \in DOMAIN Structs /\ Calls(c.pack, t)
      /\ \A j \in DOMAIN Structs[t] : IsClass(Structs[t][j].type) => Structs[t][j].type \in Printed
  BY <1>1, <1>2 DEF WiredClass
<1>4. t \in Known(Layouts[d])
  <2>1. Rounds(Layouts) /\ DOMAIN Scalars \cap DOMAIN Structs = {}
    BY LayoutRounds, ScalarsAreNoStructs
  <2>2. DOMAIN Layouts[d + 1] = Known(Layouts[d]) \cup DOMAIN Layouts[d]
    BY <2>1 DEF Rounds
  <2>3. DOMAIN Layouts[d] \cap DOMAIN Structs \subseteq Known(Layouts[d])
    BY <2>1, RoundsGrow
  <2> QED  BY <1>3, <2>2, <2>3
<1>5. Ready(c.pack, known)
  <2> SUFFICES ASSUME NEW k \in DOMAIN c.pack, c.pack[k].op # "struct"
               PROVE  c.pack[k].type \in DOMAIN known
    BY DEF Ready
  <2>1. PICK j \in DOMAIN Structs[t] : IsClass(Structs[t][j].type) /\ c.pack[k].type = Structs[t][j].type
    BY <1>3 DEF Calls
  <2>2. Structs[t][j].type \in DOMAIN Layouts[d]
    BY <1>4 DEF Known
  <2>3. Structs[t][j].type \in Printed \ InternalOnly
    BY <1>3, <2>1, UsesAreOnWire
  <2> QED  BY <2>1, <2>2, <2>3 DEF KnownUpTo
<1> QED  BY <1>1, <1>5

LEMMA NothingIsKnown ==
    ASSUME Formattable, WInv PROVE Right(<<>>) /\ KnownUpTo(<<>>, 0)
<1>1. Right(<<>>)
  BY DEF Right
<1>2. ASSUME NEW t \in Printed PROVE t \notin DOMAIN Layouts[0]
  <2>1. t \in DOMAIN Structs
    BY ClassIsKnown, PrintedIsClass DEF WiredClass
  <2>2. DOMAIN Layouts[0] = DOMAIN Scalars
    BY LayoutRounds DEF Rounds
  <2> QED  BY <2>1, <2>2, ScalarsAreNoStructs
<1> QED  BY <1>1, <1>2 DEF KnownUpTo

\* After three rounds all classes are known.
LEMMA AllAreKnown ==
    ASSUME Formattable, WInv, NEW known, KnownUpTo(known, 3), Right(known)
    PROVE  \A c \in Printed \ InternalOnly : c \in DOMAIN known /\ known[c] = Memory[c]
<1> TAKE c \in Printed \ InternalOnly
<1>1. c \in DOMAIN Structs
  BY ClassIsKnown, PrintedIsClass DEF WiredClass
<1>2. c \in DOMAIN Layouts[3]
  BY <1>1, LayoutsAre DEF Formattable
<1> QED  BY <1>2 DEF KnownUpTo, Right

LEMMA PacksRight ==
    ASSUME WellNested, Formattable, WInv PROVE PacksMemory
<1> DEFINE a == PackStep(<<>>)
           b == PackStep(a)
           c == PackStep(b)
<1>0. 0 \in 0..2 /\ 1 \in 0..2 /\ 2 \in 0..2 /\ 0 + 1 = 1 /\ 1 + 1 = 2 /\ 2 + 1 = 3
  OBVIOUS
<1>1. Right(a) /\ KnownUpTo(a, 1)
  BY <1>0, NothingIsKnown, PackRound, RoundReaches
<1> HIDE DEF a
<1>2. Right(b) /\ KnownUpTo(b, 2)
  BY <1>0, <1>1, PackRound, RoundReaches
<1> HIDE DEF b
<1>3. Right(c) /\ KnownUpTo(c, 3)
  BY <1>0, <1>2, PackRound, RoundReaches
<1>4. c = Packed
  BY DEF Packed, a, b
<1> HIDE DEF c
<1>5. \A t \in Printed \ InternalOnly : t \in DOMAIN c /\ c[t] = Memory[t]
  BY <1>3, AllAreKnown
<1> QED  BY <1>4, <1>5 DEF PacksMemory

LEMMA UnpacksRight ==
    ASSUME WellNested, Formattable, WInv PROVE UnpacksMemory
<1> DEFINE a == UnpackStep(<<>>)
           b == UnpackStep(a)
           c == UnpackStep(b)
<1>0. 0 \in 0..2 /\ 1 \in 0..2 /\ 2 \in 0..2 /\ 0 + 1 = 1 /\ 1 + 1 = 2 /\ 2 + 1 = 3
  OBVIOUS
<1>1. Right(a) /\ KnownUpTo(a, 1)
  BY <1>0, NothingIsKnown, UnpackRound, RoundReaches
<1> HIDE DEF a
<1>2. Right(b) /\ KnownUpTo(b, 2)
  BY <1>0, <1>1, UnpackRound, RoundReaches
<1> HIDE DEF b
<1>3. Right(c) /\ KnownUpTo(c, 3)
  BY <1>0, <1>2, UnpackRound, RoundReaches
<1>4. c = Unpacked
  BY DEF Unpacked, a, b
<1> HIDE DEF c
<1>5. \A t \in Printed \ InternalOnly : t \in DOMAIN c /\ c[t] = Memory[t]
  BY <1>3, AllAreKnown
<1> QED  BY <1>4, <1>5 DEF UnpacksMemory

\* The bindings import: every line parses, Python meets each class once, after the classes
\* and enumerations its fields name, and in the end every message has one
\* (generate_bindings, python_code_generator.h).
THEOREM BindingsImport ==
    ASSUME WellNested, Formattable PROVE Spec => []DefinedBeforeUse
<1>1. Init => GInv /\ WInv
  BY GInvIsInductive, WInvIsInductive
<1>2. GInv /\ WInv /\ [Next]_vars => GInv' /\ WInv'
  BY GInvIsInductive, WInvIsInductive
<1>3. GInv /\ WInv => DefinedBeforeUse
  <2> SUFFICES ASSUME GInv, WInv PROVE DefinedBeforeUse
    OBVIOUS
  <2>1. \A i \in DOMAIN classes : Parses(classes[i])
    BY DEF WInv, WiredClass
  <2> QED  BY <2>1, ClassesInOrder DEF DefinedBeforeUse
<1> QED  BY <1>1, <1>2, <1>3, PTL DEF Spec

\* pack_wire of each class on the wire writes of an object whose lists are filled up, byte
\* for byte and padding included, what C++ has in memory, so that the bridge accepts it by
\* its size (PythonCodeGenerator::generate_struct, UdpBridge).
THEOREM ClassesPackMemory ==
    ASSUME WellNested, Formattable PROVE Spec => []PacksMemory
<1>1. Init => GInv /\ WInv
  BY GInvIsInductive, WInvIsInductive
<1>2. GInv /\ WInv /\ [Next]_vars => GInv' /\ WInv'
  BY GInvIsInductive, WInvIsInductive
<1>3. WInv => PacksMemory
  BY PacksRight
<1> QED  BY <1>1, <1>2, <1>3, PTL DEF Spec

\* unpack_wire of each class on the wire finds every value of a datagram, a copy of
\* memory, where C++ put it (PythonCodeGenerator::generate_struct, UdpBridge).
THEOREM ClassesUnpackMemory ==
    ASSUME WellNested, Formattable PROVE Spec => []UnpacksMemory
<1>1. Init => GInv /\ WInv
  BY GInvIsInductive, WInvIsInductive
<1>2. GInv /\ WInv /\ [Next]_vars => GInv' /\ WInv'
  BY GInvIsInductive, WInvIsInductive
<1>3. WInv => UnpacksMemory
  BY UnpacksRight
<1> QED  BY <1>1, <1>2, <1>3, PTL DEF Spec
-----------------------------------------------------------------------------
(***************************************************************************)
(* The types, and the document beside the bindings.                        *)
(***************************************************************************)
LastOf(s) == s[Len(s)]

\* The edges are of messages; the section in progress begins with its payload, whose
\* table is the outermost in progress.
PInv ==
    /\ ToSet(undrawn) \subseteq ToSet(MsgIds)
    /\ \A e \in edges : e[3] \in ToSet(MsgIds)
    /\ sections # <<>> => LastOf(sections).tables[1] = Table(PayloadOf(LastOf(sections)))
    /\ tables # <<>> => sections # <<>> /\ LastOf(tables).class = PayloadOf(LastOf(sections))

LEMMA CollectMsgEdges_Lasts ==
    ASSUME DInv, PInv, CollectMsgEdges PROVE PInv'
<1>1. undrawn # <<>> /\ undrawn' = Tail(undrawn) /\ UNCHANGED <<tables, sections>> /\ IsSeq(undrawn)
  BY DEF CollectMsgEdges, DInv
<1>2. undrawn \in Seq(ToSet(MsgIds))
  BY <1>1 DEF PInv, IsSeq
<1>3. Tail(undrawn) \in Seq(ToSet(MsgIds)) /\ Id \in ToSet(MsgIds)
  BY <1>1, <1>2 DEF Id
<1>4. ToSet(undrawn') \subseteq ToSet(MsgIds)
  BY <1>1, <1>3, SeqIsSeq
<1>5. edges' \subseteq edges \cup InboundEdges(Id) \cup OutboundEdges(Id) \cup InternalEdges(Id)
  BY DEF CollectMsgEdges, Draws
<1>6. \A x \in InboundEdges(Id) \cup OutboundEdges(Id) \cup InternalEdges(Id) : x[3] = Id
  BY DEF InboundEdges, OutboundEdges, InternalEdges
<1>7. \A e \in edges' : e[3] \in ToSet(MsgIds)
  BY <1>3, <1>5, <1>6 DEF PInv
<1> QED  BY <1>1, <1>4, <1>7 DEF PInv, PayloadOf

LEMMA BeginSection_Lasts ==
    ASSUME SInv, PInv, BeginSection PROVE PInv'
<1> DEFINE m == Head(unwritten)
           sec == Section(m)
           frame == [class |-> Struct(Payload[m]), at |-> 1]
<1>1. /\ tables' = <<frame>> /\ sections' = Append(sections, sec) /\ UNCHANGED <<undrawn, edges>>
  BY DEF BeginSection
<1>2. sec.id = m /\ sec.tables = <<Table(Struct(Payload[m]))>>
  BY DEF Section
<1>3. sec.tables[1] = Table(PayloadOf(sec)) /\ frame.class = PayloadOf(sec)
  BY <1>2 DEF PayloadOf
<1> HIDE DEF sec, frame
<1>4. LastOf(tables') = frame /\ tables' # <<>>
  BY <1>1 DEF LastOf
<1>5. LastOf(sections') = sec /\ sections' # <<>>
  <2>1. Len(sections') = Len(sections) + 1 /\ sections'[Len(sections) + 1] = sec /\ Len(sections) \in Nat
    BY <1>1, Appends DEF SInv
  <2> QED  BY <2>1 DEF LastOf
<1> QED  BY <1>1, <1>3, <1>4, <1>5 DEF PInv

LEMMA TableEnds_Lasts ==
    ASSUME SInv, PInv, TableEnds PROVE PInv'
<1>1. tables # <<>> /\ tables' = Tail(tables) /\ UNCHANGED <<undrawn, edges, sections>>
  BY DEF TableEnds
<1>2. IsSeq(tables)
  BY <1>1 DEF SInv, SectionOK
<1>3. tables' # <<>> => LastOf(tables') = LastOf(tables)
  <2> SUFFICES ASSUME tables' # <<>> PROVE LastOf(tables') = LastOf(tables)
    OBVIOUS
  <2>1. /\ IsSeq(Tail(tables)) /\ Len(Tail(tables)) = Len(tables) - 1 /\ Len(tables) \in Nat
        /\ \A i \in 1..(Len(tables) - 1) : Tail(tables)[i] = tables[i + 1]
    BY <1>1, <1>2, Pops
  <2>2. Len(Tail(tables)) # 0
    BY <1>1, <2>1, Pops
  <2> DEFINE n == Len(tables)
  <2>3. n \in Nat /\ n - 1 # 0 /\ n # 0
    BY <1>1, <1>2, <2>1, <2>2, Pops
  <2>4. Len(Tail(tables)) = n - 1 /\ \A i \in 1..(n - 1) : Tail(tables)[i] = tables[i + 1]
    BY <2>1
  <2> HIDE DEF n
  <2>5. n - 1 \in 1..(n - 1) /\ (n - 1) + 1 = n
    BY <2>3
  <2>6. Tail(tables)[n - 1] = tables[n]
    BY <2>4, <2>5
  <2> QED  BY <1>1, <2>4, <2>6 DEF LastOf, n
<1> QED  BY <1>1, <1>3 DEF PInv

\* Exchanging or pushing the innermost table leaves the class of the outermost.
LEMMA OutermostStays ==
    ASSUME NEW s, IsSeq(s), s # <<>>, NEW x, x.class = Head(s).class
    PROVE  LET r == <<x>> \o Tail(s)
           IN  IsSeq(r) /\ r # <<>> /\ LastOf(r).class = LastOf(s).class
<1> DEFINE r == <<x>> \o Tail(s)
<1>1. IsSeq(r) /\ Len(r) = Len(s) /\ r[1] = x /\ \A i \in DOMAIN s \ {1} : r[i] = s[i]
  BY Exchanges
<1>2. Len(s) \in Nat \ {0} /\ Head(s) = s[1] /\ DOMAIN s = 1..Len(s)
  BY Pops
<1> HIDE DEF r
<1>3. r # <<>>
  BY <1>1, <1>2
<1>4. LastOf(r).class = LastOf(s).class
  <2>1. CASE Len(s) = 1
    BY <1>1, <1>2, <2>1 DEF LastOf
  <2>2. CASE Len(s) # 1
    <3>1. Len(s) \in DOMAIN s \ {1}
      BY <1>2, <2>2
    <3> QED  BY <1>1, <3>1 DEF LastOf
  <2> QED  BY <2>1, <2>2
<1> QED  BY <1>1, <1>3, <1>4 DEF r

LEMMA Describe_Lasts ==
    ASSUME SelfContained, SInv, PInv, Describe PROVE PInv'
<1> DEFINE f == FieldsOf(InTable.class)[InTable.at]
           new == ClassesOf(f) \ described
           g == [InTable EXCEPT !.at = @ + 1]
           rest == <<g>> \o Tail(tables)
           c == CHOOSE x \in new : TRUE
           n == Len(sections)
           sec == sections[n]
           t == Append(sec.tables, Table(c))
           longer == [sec EXCEPT !.tables = t]
           deeper == <<[class |-> c, at |-> 1]>> \o rest
<1>1. /\ tables # <<>> /\ UNCHANGED <<undrawn, edges>>
      /\ new = {} => tables' = rest /\ UNCHANGED sections
      /\ new # {} => tables' = deeper /\ sections' = [sections EXCEPT ![n] = longer]
  BY DEF Describe
<1>2. /\ sections # <<>> /\ IsSeq(sections) /\ IsSeq(tables) /\ IsSection(sec) /\ IsSeq(sec.tables)
      /\ IsFiniteSet(Shown(sec)) /\ Cardinality(Shown(sec)) = Len(sec.tables)
      /\ PayloadOf(sec) \in Shown(sec)
      /\ \A i \in DOMAIN tables : TableOK(tables[i], Shown(sec))
  BY <1>1 DEF SInv, SectionOK
<1>3. g.class = InTable.class
  <2>1. InTable = tables[1] /\ 1 \in DOMAIN tables
    BY <1>1, <1>2, Pops DEF InTable
  <2>2. InTable = [class |-> InTable.class, at |-> InTable.at]
    BY <1>2, <2>1 DEF TableOK
  <2> QED  BY <2>2
<1> HIDE DEF g
<1>4. IsSeq(rest) /\ rest # <<>> /\ LastOf(rest).class = LastOf(tables).class
  BY <1>1, <1>2, <1>3, OutermostStays DEF InTable
<1> HIDE DEF rest, new, c
<1>5. deeper # <<>> /\ LastOf(deeper) = LastOf(rest)
  <2>1. /\ Len(deeper) = Len(rest) + 1 /\ Len(rest) \in Nat /\ DOMAIN rest = 1..Len(rest)
        /\ \A i \in 1..Len(rest) : deeper[i + 1] = rest[i]
    BY <1>4, Pushes
  <2>2. Len(rest) # 0
    BY <1>4, Pops
  <2> HIDE DEF deeper
  <2>3. Len(rest) \in 1..Len(rest)
    BY <2>1, <2>2
  <2> QED  BY <2>1, <2>3 DEF LastOf
<1> HIDE DEF deeper
<1>6. tables' # <<>> /\ LastOf(tables').class = PayloadOf(sec)
  BY <1>1, <1>2, <1>4, <1>5 DEF PInv, LastOf
<1>7. n \in DOMAIN sections
  BY <1>2, Pops
<1>8. 1 \in DOMAIN sec.tables
  <2>1. sec.tables # <<>>
    BY <1>2 DEF Shown
  <2> QED  BY <1>2, <2>1, Pops
<1>9. t[1] = sec.tables[1]
  BY <1>2, <1>8, Appends
<1> HIDE DEF t
<1>10. longer.id = sec.id /\ longer.tables = t
  BY <1>2 DEF IsSection
<1> HIDE DEF longer
<1>11. sections' = sections \/ sections' = [sections EXCEPT ![n] = longer]
  BY <1>1
<1>12. sec.tables[1] = Table(PayloadOf(sec))
  BY <1>2 DEF PInv, LastOf
<1>13. PayloadOf(longer) = PayloadOf(sec)
  BY <1>10 DEF PayloadOf
<1>14. Len(sections') = n /\ sections' # <<>>
  <2>1. DOMAIN sections = 1..n /\ n \in Nat
    BY <1>2, SeqDomain
  <2>2. CASE sections' = [sections EXCEPT ![n] = longer]
    <3>1. DOMAIN sections' = 1..n
      BY <2>1, <2>2
    <3>2. sections \in Seq(ToSet(sections) \cup {longer})
      BY <1>2 DEF IsSeq
    <3>3. sections' \in Seq(ToSet(sections) \cup {longer})
      BY <1>7, <2>2, <3>2
    <3> QED  BY <1>7, <2>1, <3>1, <3>3
  <2> QED  BY <1>2, <1>11, <2>2
<1>15. \/ sections'[n] = sec
       \/ sections'[n] = longer
  BY <1>7, <1>11
<1>16. PayloadOf(sections'[n]) = PayloadOf(sec) /\ sections'[n].tables[1] = sec.tables[1]
  BY <1>9, <1>10, <1>13, <1>15
<1> QED  BY <1>1, <1>6, <1>12, <1>14, <1>16 DEF PInv, LastOf

LEMMA PInvIsInductive ==
    ASSUME SelfContained
    PROVE  /\ Init => PInv
           /\ DInv /\ SInv /\ PInv /\ [Next]_vars => PInv'
<1>1. Init => PInv
  BY DEF Init, DocsInit, PInv
<1>2. ASSUME DInv, SInv, PInv, [Next]_vars PROVE PInv'
  <2>1. CASE UNCHANGED docs
    BY <1>2, <2>1 DEF PInv, docs
  <2> QED  BY <1>2, <2>1, CollectMsgEdges_Lasts, BeginSection_Lasts, Describe_Lasts, TableEnds_Lasts
           DEF Next, DocsNext, vars
<1> QED  BY <1>1, <1>2

\* An edge goes from a service to a service.
LEMMA EdgesAreOfServices ==
    ASSUME "UdpBridge" \in ToSet(AppServices), NEW m \in ToSet(MsgIds)
    PROVE  EdgesOf(m) \subseteq ToSet(AppServices) \X ToSet(AppServices) \X ToSet(MsgIds)
<1>1. EdgesOf(m) \subseteq InboundEdges(m) \cup OutboundEdges(m) \cup InternalEdges(m)
  BY DEF EdgesOf
<1>2. SubscribersOf(m) \subseteq ToSet(AppServices) /\ PublishersOf(m) \subseteq ToSet(AppServices)
  BY DEF SubscribersOf, PublishersOf, Internal
<1>3. InboundEdges(m) \cup OutboundEdges(m) \cup InternalEdges(m)
          \subseteq ToSet(AppServices) \X ToSet(AppServices) \X ToSet(MsgIds)
  BY <1>2 DEF InboundEdges, OutboundEdges, InternalEdges
<1> QED  BY <1>1, <1>3
LEMMA TypesAreRight ==
    ASSUME WellNested, Formattable, DeclaredAsSent, GInv, WInv, DInv, SInv, PInv PROVE TypeOK
<1>1. ASSUME NEW i \in DOMAIN stack
      PROVE  /\ stack[i].type \in visited \ Printed
             /\ stack[i].at \in 1..(Len(Structs[stack[i].type]) + 1)
             /\ stack[i].type \notin InternalOnly => stack[i].offset = Len(BytesOf(stack[i]))
  <2>1. stack[i].type \in InProgress(stack)
    BY DEF InProgress
  <2>2. stack[i].type \in visited \ Printed
    BY <2>1 DEF GInv, BegunIsKnown
  <2>3. WiredFrame(stack[i])
    BY DEF WInv
  <2> QED  BY <2>2, <2>3 DEF WiredFrame
<1>2. Printed \subseteq visited /\ visited \subseteq DOMAIN Structs
  <2>1. \A i \in DOMAIN stack : stack[i].type \in DOMAIN Structs
    BY DEF GInv, Framed, FrameOK
  <2>2. \A i \in DOMAIN classes : classes[i].name \in DOMAIN Structs
    BY DEF WInv, WiredClass
  <2>3. Printed \subseteq DOMAIN Structs /\ InProgress(stack) \subseteq DOMAIN Structs
    BY <2>1, <2>2 DEF Printed, InProgress
  <2>4. visited = Printed \cup InProgress(stack)
    BY DEF GInv, BegunIsKnown
  <2> QED  BY <2>3, <2>4
<1>3. edges \subseteq ToSet(AppServices) \X ToSet(AppServices) \X ToSet(MsgIds)
  <2> SUFFICES ASSUME NEW e \in edges
               PROVE  e \in ToSet(AppServices) \X ToSet(AppServices) \X ToSet(MsgIds)
    OBVIOUS
  <2>1. "UdpBridge" \in ToSet(AppServices)
    BY DEF DeclaredAsSent
  <2>2. e \in EdgesOf(e[3]) /\ e[3] \in ToSet(MsgIds)
    BY DEF DInv, PInv
  <2> QED  BY <2>1, <2>2, EdgesAreOfServices
<1>4. ASSUME tables # <<>>
      PROVE  described \cup {tables[Len(tables)].class} =
                 { sections[Len(sections)].tables[k].class : k \in DOMAIN sections[Len(sections)].tables }
  <2> DEFINE sec == sections[Len(sections)]
  <2>1. sections # <<>> /\ tables[Len(tables)].class = PayloadOf(sec)
    BY <1>4 DEF PInv, LastOf
  <2>2. Shown(sec) = described \cup {PayloadOf(sec)}
    BY <2>1 DEF SInv, SectionOK
  <2> QED  BY <2>1, <2>2 DEF Shown
<1> QED  BY <1>1, <1>2, <1>3, <1>4 DEF TypeOK

\* Each call of generate_struct is for a class begun and not printed, at one of its
\* fields, with current_offset at the bytes its code writes; the edges of the diagram
\* lead from service to service; and the section in progress has a table for each class
\* described and for its payload (generate_struct, collect_msg_edges,
\* emit_md_struct_section).
THEOREM GeneratorsTyped ==
    ASSUME WellNested, Formattable, SelfContained, DeclaredAsSent PROVE Spec => []TypeOK
<1> DEFINE IInv == GInv /\ WInv /\ DInv /\ SInv /\ PInv
<1>1. Init => IInv
  BY GInvIsInductive, WInvIsInductive, DInvIsInductive, SInvIsInductive, PInvIsInductive
<1>2. IInv /\ [Next]_vars => IInv'
  BY GInvIsInductive, WInvIsInductive, DInvIsInductive, SInvIsInductive, PInvIsInductive
<1>3. IInv => TypeOK
  BY TypesAreRight
<1> HIDE DEF IInv
<1> QED  BY <1>1, <1>2, <1>3, PTL DEF Spec
\* A byte of a field of that name, or padding.
Named(byte, name) == byte = Pad \/ (IsSeq(byte[1]) /\ byte[1][1] = name)

\* The bytes of an image are padding or have a path.
HasPaths(image) == \A k \in DOMAIN image : image[k] = Pad \/ IsSeq(image[k][1])

LEMMA InIsNamed ==
    ASSUME NEW byte, byte = Pad \/ IsSeq(byte[1]), NEW path, IsSeq(path), path # <<>>
    PROVE  Named(In(path, byte), path[1])
<1>1. CASE byte = Pad
  BY <1>1 DEF In, Named
<1>2. CASE byte # Pad
  <2> DEFINE x == path \o byte[1]
  <2>1. In(path, byte) = <<x, byte[2], byte[3]>>
    BY <1>2 DEF In
  <2>2. IsSeq(x) /\ \A i \in 1..Len(path) : x[i] = path[i]
    BY <1>2, Concats
  <2>3. 1 \in 1..Len(path)
    BY Pops
  <2> HIDE DEF x
  <2>4. x[1] = path[1]
    BY <2>2, <2>3
  <2> QED  BY <2>1, <2>2, <2>4 DEF Named
<1> QED  BY <1>1, <1>2

\* All bytes of a field have its name.
LEMMA FieldIsNamed ==
    ASSUME NEW f, NEW image, IsSeq(image), HasPaths(image), f.n \in Nat, f.as = "one" => f.n = 1
    PROVE  \A k \in 1..(f.n * Len(image)) : Named(FieldImage(f, image)[k], f.name)
<1> DEFINE size == Len(image)
<1>1. DOMAIN image = 1..size /\ size \in Nat
  BY SeqDomain
<1> SUFFICES ASSUME NEW k \in 1..(f.n * size) PROVE Named(FieldImage(f, image)[k], f.name)
  OBVIOUS
<1>2. CASE f.as = "one"
  <2>1. f.n * size = size
    BY <1>1, <1>2
  <2>2. k \in DOMAIN image
    BY <1>1, <2>1
  <2>3. FieldImage(f, image)[k] = In(<<f.name>>, image[k])
    BY <1>2, <2>2 DEF FieldImage, Within
  <2>4. IsSeq(<<f.name>>) /\ <<f.name>> # <<>> /\ <<f.name>>[1] = f.name
    BY DEF IsSeq, ToSet
  <2> QED  BY <2>2, <2>3, <2>4, InIsNamed DEF HasPaths
<1>3. CASE f.as # "one"
  <2> DEFINE i == ((k - 1) \div size) + 1
             j == ((k - 1) % size) + 1
             path == <<f.name, i>>
  <2>1. FieldImage(f, image)[k] = In(path, image[j])
    BY <1>3 DEF FieldImage, Repeated
  <2>2. size # 0
    BY <1>1
  <2> HIDE DEF size
  <2>3. j \in 1..size
    BY <1>1, <2>2
  <2> HIDE DEF i, j
  <2>4. IsSeq(path) /\ path # <<>> /\ path[1] = f.name
    BY DEF IsSeq, ToSet
  <2> HIDE DEF path
  <2> QED  BY <1>1, <2>1, <2>3, <2>4, InIsNamed DEF HasPaths
<1> QED  BY <1>2, <1>3

\* Where a byte lies tells the field it belongs to.
LEMMA MemoryIsNamed ==
    ASSUME WellNested, Formattable, NEW t \in DOMAIN Structs, t \notin InternalOnly,
           \A i \in DOMAIN Structs[t] : HasPaths(Memory[Structs[t][i].type]),
           NEW k \in 1..SizeOf(t), Memory[t][k] # Pad
    PROVE  \E i \in DOMAIN Structs[t] :
               /\ Begin(t, i) < k /\ k <= End(t, i)
               /\ Named(Memory[t][k], Structs[t][i].name)
<1>1. t # "shared_ptr"
  BY OnWireIsLaidOut
<1>2. PICK i \in DOMAIN Structs[t] : Begin(t, i) < k /\ k <= End(t, i)
  BY <1>1, MemoryAt
<1> DEFINE f == Structs[t][i]
           image == Memory[f.type]
<1>3. Memory[t][k] = FieldImage(f, image)[k - Begin(t, i)]
  BY <1>1, <1>2, MemoryAt
<1>4. Begin(t, i) \in Nat /\ f.type \in DOMAIN Layout /\ f.n \in Nat /\ FieldSize(f) \in Nat
  BY <1>1, FieldsAscend
<1>5. f.as = "one" => f.n = 1
  BY DEF Formattable, ToSet
<1>6. IsSeq(image) /\ Len(image) = SizeOf(f.type)
  BY <1>4, ImagesAreSized
<1>7. FieldSize(f) = f.n * Len(image)
  BY <1>6 DEF FieldSize
<1>8. k <= Begin(t, i) + FieldSize(f)
  BY <1>2 DEF End
<1>9. k - Begin(t, i) \in 1..FieldSize(f)
  <2> DEFINE b == Begin(t, i)
             n == FieldSize(f)
  <2>1. b \in Nat /\ n \in Nat /\ b < k /\ k <= b + n /\ k \in Int
    BY <1>2, <1>4, <1>8
  <2> HIDE DEF b, n
  <2>2. k - b \in 1..n
    BY <2>1
  <2> QED  BY <2>2 DEF b, n
<1>10. HasPaths(image)
  OBVIOUS
<1> HIDE DEF f, image
<1>11. Named(FieldImage(f, image)[k - Begin(t, i)], f.name)
  BY <1>4, <1>5, <1>6, <1>7, <1>9, <1>10, FieldIsNamed
<1> QED  BY <1>2, <1>3, <1>11 DEF f

\* So in all images of what is on the wire.
LEMMA MemoryHasPaths ==
    ASSUME WellNested, Formattable
    PROVE  \A t \in DOMAIN Scalars \cup (DOMAIN Layout \ InternalOnly) : HasPaths(Memory[t])
<1> DEFINE Placed == DOMAIN Scalars \cup (DOMAIN Layout \ InternalOnly)
           Upto(d) == \A t \in DOMAIN Layouts[d] \cap Placed : HasPaths(Memory[t])
<1>1. \A t \in DOMAIN Scalars : HasPaths(Memory[t])
  <2> TAKE t \in DOMAIN Scalars
  <2>1. Memory[t] = ScalarBytes(<<>>, Scalars[t][2], SizeOf(t))
    BY LaidOut
  <2>2. IsSeq(<<>>)
    BY DEF IsSeq, ToSet
  <2> QED  BY <2>1, <2>2 DEF HasPaths, ScalarBytes
<1>2. Upto(0)
  BY <1>1, LayoutRounds DEF Rounds
<1>3. ASSUME NEW d \in 0..2, Upto(d) PROVE Upto(d + 1)
  <2> SUFFICES ASSUME NEW t \in DOMAIN Layouts[d + 1] \cap Placed, t \notin DOMAIN Scalars
               PROVE  HasPaths(Memory[t])
    BY <1>1
  <2>1. t \in Known(Layouts[d]) \/ t \in DOMAIN Layouts[d]
    BY LayoutRounds DEF Rounds
  <2> SUFFICES ASSUME t \in Known(Layouts[d]) PROVE HasPaths(Memory[t])
    BY <1>3, <2>1
  <2>2. t \in DOMAIN Structs /\ t \notin InternalOnly /\ t \in DOMAIN Layout
        /\ \A i \in DOMAIN Structs[t] : Structs[t][i].type \in DOMAIN Layouts[d]
    BY DEF Known
  <2>3. t # "shared_ptr"
    BY <2>2, OnWireIsLaidOut
  <2>4. \A i \in DOMAIN Structs[t] : Structs[t][i].type \in Placed
    <3> TAKE i \in DOMAIN Structs[t]
    <3>1. Structs[t][i].type \in DOMAIN Layout
      BY <2>2, <2>3, FieldsAscend
    <3>2. IsClass(Structs[t][i].type) => Structs[t][i].type \notin InternalOnly
      BY <2>2, UsesAreOnWire
    <3> QED  BY <3>1, <3>2, TypesAreDeclared DEF IsClass
  <2>5. \A i \in DOMAIN Structs[t] : HasPaths(Memory[Structs[t][i].type])
    BY <1>3, <2>2, <2>4
  <2>6. DOMAIN Memory[t] = 1..SizeOf(t)
    BY <2>2, ImagesAreSized
  <2>7. \A k \in 1..SizeOf(t) : Memory[t][k] # Pad => IsSeq(Memory[t][k][1])
    BY <2>2, <2>5, MemoryIsNamed DEF Named
  <2> QED  BY <2>6, <2>7 DEF HasPaths
<1> HIDE DEF Upto
<1>4. Upto(3)
  <2>1. Upto(1)
    <3>1. 0 \in 0..2 /\ 0 + 1 = 1
      OBVIOUS
    <3> QED  BY <1>2, <1>3, <3>1
  <2>2. Upto(2)
    <3>1. 1 \in 0..2 /\ 1 + 1 = 2
      OBVIOUS
    <3> QED  BY <1>3, <2>1, <3>1
  <2>3. 2 \in 0..2 /\ 2 + 1 = 3
    OBVIOUS
  <2> QED  BY <1>3, <2>2, <2>3
<1> USE DEF Upto
<1>5. Layout = Layouts[3]
  BY LayoutsAre
<1>6. DOMAIN Scalars \subseteq DOMAIN Layout
  BY LaidOut
<1> QED  BY <1>4, <1>5, <1>6
\* The table of a payload has a row for each of its fields.
LEMMA TableOfPayload ==
    ASSUME NEW t
    PROVE  LET table == Table(Struct(t))
           IN  /\ table.size = 1 * SizeOf(t) /\ DOMAIN table.rows = DOMAIN Structs[t]
               /\ \A i \in DOMAIN Structs[t] :
                      /\ table.rows[i].name = Structs[t][i].name
                      /\ table.rows[i].bytes = FieldSize(Structs[t][i])
                      /\ table.rows[i].offset = Begin(t, i)
<1>1. FieldsOf(Struct(t)) = Structs[t]
  BY DEF FieldsOf, Struct
<1>2. \A i : OffsetIn(Struct(t), i) = Begin(t, i)
  BY DEF OffsetIn, Struct, Begin
<1>3. SizeOfClass(Struct(t)) = 1 * SizeOf(t)
  <2>1. Struct(t)[2] = t /\ Struct(t)[3] = 1
    BY DEF Struct
  <2> QED  BY <2>1, Zenon DEF SizeOfClass
<1> QED  BY <1>1, <1>2, <1>3 DEF Table

\* What DocumentedWhereWritten says of the first table of a section and the bytes of its class.
Agree(table, written) ==
    LET bytesOf(name) == { k \in DOMAIN written : written[k] # Pad /\ written[k][1][1] = name }
    IN  /\ table.size = Len(written)
        /\ \A i \in DOMAIN table.rows :
               bytesOf(table.rows[i].name) \subseteq
                   (table.rows[i].offset + 1)..(table.rows[i].offset + table.rows[i].bytes)
        /\ \A k \in DOMAIN written : written[k] # Pad =>
               \E i \in DOMAIN table.rows : k \in bytesOf(table.rows[i].name)

LEMMA DocumentIsRight ==
    ASSUME WellNested, Formattable, GInv, WInv, SInv, PInv PROVE DocumentedWhereWritten
<1> SUFFICES ASSUME BindingsDone, sections # <<>>, LastOf(sections).id \in OnWire,
                    NEW section, section = LastOf(sections), NEW t, t = Payload[section.id],
                    NEW written, written = Packed[t], NEW table, table = section.tables[1]
             PROVE  Agree(table, written)
  <2>1. BindingsDone /\ sections # <<>> /\ LastOf(sections).id \in OnWire =>
            Agree(LastOf(sections).tables[1], Packed[Payload[LastOf(sections).id]])
    OBVIOUS
  <2> QED  BY <2>1 DEF DocumentedWhereWritten, Agree, LastOf
<1>1. section.id \in ToSet(MsgIds) /\ section.id \in OnWire
  BY DEF SInv, SectionOK, LastOf
<1>2. t \notin InternalOnly
  BY <1>1 DEF Formattable
<1>3. t \in Printed
  <2>1. todo = <<>> /\ InProgress(stack) = {}
    BY DEF BindingsDone, InProgress
  <2>2. ToSet(Roots) \subseteq visited
    BY <2>1 DEF GInv, RootsToCome, ToSet
  <2>3. visited = Printed
    BY <2>1 DEF GInv, BegunIsKnown
  <2> QED  BY <1>1, <2>2, <2>3, PayloadsAreRoots
<1>4. t \in DOMAIN Structs
  BY <1>3 DEF WInv, WiredClass, Printed
<1>5. written = Memory[t]
  BY <1>2, <1>3, PacksRight DEF PacksMemory
<1>6. t # "shared_ptr" /\ t \in DOMAIN Layout
  BY <1>2, <1>4, OnWireIsLaidOut
<1>7. Len(written) = SizeOf(t) /\ DOMAIN written = 1..SizeOf(t) /\ SizeOf(t) \in Nat
  BY <1>5, <1>6, ImagesAreSized
<1>8. /\ table.size = 1 * SizeOf(t) /\ DOMAIN table.rows = DOMAIN Structs[t]
      /\ \A i \in DOMAIN Structs[t] :
             /\ table.rows[i].name = Structs[t][i].name
             /\ table.rows[i].bytes = FieldSize(Structs[t][i])
             /\ table.rows[i].offset = Begin(t, i)
  <2>1. table = Table(Struct(t))
    BY DEF PInv, PayloadOf
  <2> QED  BY <2>1, TableOfPayload
<1>9. \A i \in DOMAIN Structs[t] : HasPaths(Memory[Structs[t][i].type])
  <2> TAKE i \in DOMAIN Structs[t]
  <2>1. Structs[t][i].type \in DOMAIN Layout
    BY <1>4, <1>6, FieldsAscend
  <2>2. IsClass(Structs[t][i].type) => Structs[t][i].type \notin InternalOnly
    BY <1>2, <1>4, UsesAreOnWire
  <2>3. Structs[t][i].type \in DOMAIN Scalars \cup (DOMAIN Layout \ InternalOnly)
    BY <2>1, <2>2, TypesAreDeclared DEF IsClass
  <2> QED  BY <2>3, MemoryHasPaths
<1>10. \A k \in DOMAIN written : written[k] # Pad =>
           \E i \in DOMAIN Structs[t] :
               Begin(t, i) < k /\ k <= End(t, i) /\ written[k][1][1] = Structs[t][i].name
  BY <1>2, <1>4, <1>5, <1>7, <1>9, MemoryIsNamed DEF Named
<1>11. \A i, j \in DOMAIN Structs[t] : Structs[t][i].name = Structs[t][j].name => i = j
  BY <1>4 DEF Formattable
<1>12. \A i \in DOMAIN Structs[t] : Begin(t, i) \in Nat /\ FieldSize(Structs[t][i]) \in Nat
  BY <1>4, <1>6, FieldsAscend
<1>13. table.size = Len(written)
  BY <1>7, <1>8
<1>14. ASSUME NEW i \in DOMAIN Structs[t], NEW k \in DOMAIN written, written[k] # Pad,
              written[k][1][1] = Structs[t][i].name
       PROVE  k \in (Begin(t, i) + 1)..(Begin(t, i) + FieldSize(Structs[t][i]))
  <2>1. Begin(t, i) < k /\ k <= End(t, i)
    BY <1>10, <1>11, <1>14
  <2>2. k \in Int
    BY <1>7
  <2> QED  BY <1>12, <2>1, <2>2 DEF End
<1>15. ASSUME NEW k \in DOMAIN written, written[k] # Pad
       PROVE  \E i \in DOMAIN Structs[t] : written[k][1][1] = Structs[t][i].name
  BY ONLY <1>10, <1>15, Zenon
<1>16. ASSUME NEW i \in DOMAIN table.rows, NEW k \in DOMAIN written, written[k] # Pad,
              written[k][1][1] = table.rows[i].name
       PROVE  k \in (table.rows[i].offset + 1)..(table.rows[i].offset + table.rows[i].bytes)
  <2>1. i \in DOMAIN Structs[t] /\ written[k][1][1] = Structs[t][i].name
    BY <1>8, <1>16
  <2>2. table.rows[i].offset = Begin(t, i) /\ table.rows[i].bytes = FieldSize(Structs[t][i])
    BY <1>8, <2>1
  <2> QED  BY <1>14, <1>16, <2>1, <2>2
<1>17. ASSUME NEW k \in DOMAIN written, written[k] # Pad
       PROVE  \E i \in DOMAIN table.rows : written[k][1][1] = table.rows[i].name
  BY <1>8, <1>15, <1>17
<1> DEFINE bytesOf(name) == { k \in DOMAIN written : written[k] # Pad /\ written[k][1][1] = name }
<1>18. \A i \in DOMAIN table.rows :
           bytesOf(table.rows[i].name) \subseteq
               (table.rows[i].offset + 1)..(table.rows[i].offset + table.rows[i].bytes)
  BY <1>16
<1>19. \A k \in DOMAIN written : written[k] # Pad =>
           \E i \in DOMAIN table.rows : k \in bytesOf(table.rows[i].name)
  BY <1>17
<1> QED  BY ONLY <1>13, <1>18, <1>19, Zenon DEF Agree

\* The document and the bindings agree: the bytes a table gives for a field are those at
\* which pack_wire of the payload writes it, and no others (emit_field_table,
\* PythonCodeGenerator::generate_struct).
THEOREM DocumentFitsBindings ==
    ASSUME WellNested, Formattable, SelfContained PROVE Spec => []DocumentedWhereWritten
<1> DEFINE IInv == GInv /\ WInv /\ DInv /\ SInv /\ PInv
<1>1. Init => IInv
  BY GInvIsInductive, WInvIsInductive, DInvIsInductive, SInvIsInductive, PInvIsInductive
<1>2. IInv /\ [Next]_vars => IInv'
  BY GInvIsInductive, WInvIsInductive, DInvIsInductive, SInvIsInductive, PInvIsInductive
<1>3. IInv => DocumentedWhereWritten
  BY DocumentIsRight
<1> HIDE DEF IInv
<1> QED  BY <1>1, <1>2, <1>3, PTL DEF Spec
=============================================================================
