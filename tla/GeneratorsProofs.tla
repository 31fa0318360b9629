-------------------------- MODULE GeneratorsProofs --------------------------
(***************************************************************************)
(* Proofs about the two generators, for any structs, messages and services *)
(* that satisfy WellNested, SelfContained and DeclaredAsSent, which TLC    *)
(* evaluates for those of the program (MCGenerators).  No proof looks into *)
(* the tables of Messages or SilTopology.                                  *)
(*                                                                         *)
(* The bindings import in order because generate_struct is a search in     *)
(* depth: what a call has seen is printed or is being generated further    *)
(* down, and what is being generated further down is nested less deeply,   *)
(* so that it is not what the call is for.                                 *)
(***************************************************************************)
EXTENDS Generators, FiniteSetTheorems, TLAPS

IsSeq(s) == s \in Seq(ToSet(s))

(***************************************************************************)
(* Sequences.                                                              *)
(***************************************************************************)
\* A sequence over any set is one over its elements.
LEMMA SeqIsSeq == ASSUME NEW S, NEW s \in Seq(S) PROVE IsSeq(s) /\ ToSet(s) \subseteq S
BY DEF IsSeq, ToSet

\* The domain of a sequence.
LEMMA SeqDomain ==
    ASSUME NEW s, IsSeq(s)
    PROVE  DOMAIN s = 1..Len(s) /\ Len(s) \in Nat /\ DOMAIN s \subseteq Nat
<1>1. s \in Seq(ToSet(s))
  BY DEF IsSeq
<1> QED  BY <1>1

\* Pushing onto a sequence.
LEMMA Pushes ==
    ASSUME NEW s, IsSeq(s), NEW x
    PROVE  /\ IsSeq(<<x>> \o s) /\ Len(<<x>> \o s) = Len(s) + 1
           /\ DOMAIN (<<x>> \o s) = 1..(Len(s) + 1) /\ Len(s) \in Nat /\ DOMAIN s = 1..Len(s)
           /\ (<<x>> \o s)[1] = x
           /\ \A i \in 1..Len(s) : (<<x>> \o s)[i + 1] = s[i]
           /\ Head(<<x>> \o s) = x /\ Tail(<<x>> \o s) = s
<1> DEFINE S == ToSet(s) \cup {x}
<1>1. s \in Seq(S) /\ <<x>> \in Seq(S)
  BY DEF IsSeq, ToSet
<1>2. <<x>> \o s \in Seq(S)
  BY <1>1
<1>3. IsSeq(<<x>> \o s)
  BY <1>2, SeqIsSeq
<1> HIDE DEF S
<1> QED  BY <1>1, <1>2, <1>3

\* Taking the head off a sequence.
LEMMA Pops ==
    ASSUME NEW s, IsSeq(s), s # <<>>
    PROVE  /\ IsSeq(Tail(s)) /\ Len(Tail(s)) = Len(s) - 1 /\ Len(s) \in Nat \ {0}
           /\ DOMAIN s = 1..Len(s) /\ DOMAIN Tail(s) = 1..(Len(s) - 1)
           /\ Head(s) = s[1]
           /\ \A i \in 1..(Len(s) - 1) : Tail(s)[i] = s[i + 1]
<1>1. s \in Seq(ToSet(s))
  BY DEF IsSeq
<1>2. Tail(s) \in Seq(ToSet(s))
  BY <1>1
<1>3. IsSeq(Tail(s))
  BY <1>2, SeqIsSeq
<1> QED  BY <1>1, <1>2, <1>3

\* Exchanging the head of a sequence.
LEMMA Exchanges ==
    ASSUME NEW s, IsSeq(s), s # <<>>, NEW x
    PROVE  /\ IsSeq(<<x>> \o Tail(s)) /\ DOMAIN (<<x>> \o Tail(s)) = DOMAIN s
           /\ Len(<<x>> \o Tail(s)) = Len(s)
           /\ (<<x>> \o Tail(s))[1] = x
           /\ \A i \in DOMAIN s \ {1} : (<<x>> \o Tail(s))[i] = s[i]
<1>1. IsSeq(Tail(s)) /\ Len(Tail(s)) = Len(s) - 1 /\ Len(s) \in Nat \ {0} /\ DOMAIN s = 1..Len(s)
      /\ \A i \in 1..(Len(s) - 1) : Tail(s)[i] = s[i + 1]
  BY Pops
<1>2. /\ IsSeq(<<x>> \o Tail(s)) /\ Len(<<x>> \o Tail(s)) = Len(s)
      /\ DOMAIN (<<x>> \o Tail(s)) = 1..Len(s) /\ (<<x>> \o Tail(s))[1] = x
      /\ \A i \in 1..(Len(s) - 1) : (<<x>> \o Tail(s))[i + 1] = Tail(s)[i]
  BY <1>1, Pushes
<1>3. \A i \in DOMAIN s \ {1} : (<<x>> \o Tail(s))[i] = s[i]
  <2> TAKE i \in DOMAIN s \ {1}
  <2>1. i - 1 \in 1..(Len(s) - 1) /\ (i - 1) + 1 = i
    BY <1>1
  <2> QED  BY <2>1, <1>1, <1>2
<1> QED  BY <1>1, <1>2, <1>3

\* Appending to a sequence.
LEMMA Appends ==
    ASSUME NEW s, IsSeq(s), NEW x
    PROVE  /\ IsSeq(Append(s, x)) /\ Len(Append(s, x)) = Len(s) + 1 /\ Len(s) \in Nat
           /\ DOMAIN s = 1..Len(s) /\ DOMAIN Append(s, x) = 1..(Len(s) + 1)
           /\ Append(s, x)[Len(s) + 1] = x
           /\ \A i \in DOMAIN s : Append(s, x)[i] = s[i]
<1> DEFINE S == ToSet(s) \cup {x}
<1>1. s \in Seq(S) /\ x \in S
  BY DEF IsSeq, ToSet
<1>2. Append(s, x) \in Seq(S)
  BY <1>1
<1>3. IsSeq(Append(s, x))
  BY <1>2, SeqIsSeq
<1> HIDE DEF S
<1> QED  BY <1>1, <1>2, <1>3
-----------------------------------------------------------------------------
(***************************************************************************)
(* The bindings import in order.                                           *)
(***************************************************************************)
Names == DOMAIN Structs \cup DOMAIN Enums

\* What the class of a struct may name.
MayName(t) == GeneratedEnums \cup { f.type : f \in { x \in ToSet(Structs[t]) : IsClass(x.type) } }

\* A frame has the fields that Call gives it.
IsFrame(fr) ==
    fr = [type |-> fr.type, pass |-> fr.pass, at |-> fr.at, hints |-> fr.hints, fmt |-> fr.fmt,
          pack |-> fr.pack, unpack |-> fr.unpack, offset |-> fr.offset]

\* The classes of the fields behind it have been begun, and it has collected no names
\* but theirs.
FrameOK(fr, seen) ==
    /\ IsFrame(fr)
    /\ fr.type \in DOMAIN Structs
    /\ fr.pass \in {"nested", "body"}
    /\ fr.at \in Nat \ {0}
    /\ IsSeq(fr.hints)
    /\ \A i \in DOMAIN Structs[fr.type] :
           IsClass(Structs[fr.type][i].type) /\ (fr.pass = "body" \/ i < fr.at) =>
               Structs[fr.type][i].type \in seen
    /\ \A i \in DOMAIN fr.hints : fr.hints[i] \subseteq MayName(fr.type)

InProgress(s) == { s[i].type : i \in DOMAIN s }

Framed(s, seen) == IsSeq(s) /\ \A i \in DOMAIN s : FrameOK(s[i], seen)

\* A call is for a struct nested less deeply than those it was made for.
Descends(s) == \A i, j \in DOMAIN s : i < j => Depth(s[i].type) < Depth(s[j].type)

BegunIsKnown ==
    /\ visited = Printed \cup InProgress(stack)
    /\ Printed \cap InProgress(stack) = {}

InOrder ==
    /\ IsSeq(classes)
    /\ \A i \in DOMAIN classes :
           classes[i].hints \subseteq GeneratedEnums \cup { classes[j].name : j \in 1..(i - 1) }

PrintedOnce == IsFiniteSet(Printed) /\ Cardinality(Printed) = Len(classes)

RootsToCome ==
    /\ todo \in Seq(DOMAIN Structs)
    /\ ToSet(Roots) \subseteq visited \cup ToSet(todo)

GInv ==
    /\ Framed(stack, visited) /\ Descends(stack)
    /\ BegunIsKnown /\ InOrder /\ PrintedOnce /\ RootsToCome

LEMMA DepthIsNat == \A t : Depth(t) \in Nat
<1> TAKE t
<1>1. IsFiniteSet(0..3)
  <2>1. 0 \in Int /\ 3 \in Int
    OBVIOUS
  <2> QED  BY <2>1, FS_Interval
<1>2. IsFiniteSet({ d \in 0..3 : t \notin DOMAIN Layouts[d] })
  BY <1>1, FS_Subset
<1> QED  BY <1>2, FS_CardinalityType DEF Depth

\* What WellNested says of one field.
LEMMA FieldsAreDeclared ==
    ASSUME WellNested, NEW t \in DOMAIN Structs
    PROVE  /\ IsSeq(Structs[t]) /\ Len(Structs[t]) \in Nat /\ DOMAIN Structs[t] = 1..Len(Structs[t])
           /\ \A i \in DOMAIN Structs[t] :
                  /\ Structs[t][i] \in ToSet(Structs[t])
                  /\ IsClass(Structs[t][i].type) =>
                         /\ Structs[t][i].type \in DOMAIN Structs
                         /\ Depth(Structs[t][i].type) < Depth(t)
<1>1. Structs[t] \in Seq(ToSet(Structs[t]))
  BY DEF WellNested
<1>2. \A f \in ToSet(Structs[t]) : IsClass(f.type) => Depth(f.type) < Depth(t)
  BY DEF WellNested
<1> HIDE DEF WellNested
<1>3. \A i \in DOMAIN Structs[t] : Structs[t][i] \in ToSet(Structs[t])
  BY DEF ToSet
<1> QED  BY <1>1, <1>2, <1>3 DEF IsSeq, IsClass

\* A field adds one name at most, that of its class or enumeration.
LEMMA HintIsDeclared ==
    ASSUME WellNested, NEW t \in DOMAIN Structs, NEW i \in DOMAIN Structs[t]
    PROVE  Hint(Structs[t][i]) \subseteq MayName(t)
<1>1. Structs[t][i] \in ToSet(Structs[t])
  BY DEF ToSet
<1>2. DOMAIN Enums \subseteq GeneratedEnums
  BY DEF WellNested
<1> HIDE DEF WellNested
<1>3. CASE IsClass(Structs[t][i].type)
  BY <1>1, <1>3 DEF Hint, MayName
<1>4. CASE ~IsClass(Structs[t][i].type)
  BY <1>2, <1>4 DEF Hint, MayName
<1> QED  BY <1>3, <1>4
(***************************************************************************)
(* What the steps do to the frame on top.                                  *)
(***************************************************************************)
\* The call begins with nothing behind it.
LEMMA CallIsFrame ==
    ASSUME WellNested, NEW t \in DOMAIN Structs, NEW seen PROVE FrameOK(Call(t), seen)
<1>1. DOMAIN Structs[t] = 1..Len(Structs[t]) /\ Len(Structs[t]) \in Nat
  BY FieldsAreDeclared
<1>2. IsSeq(<<>>) /\ DOMAIN <<>> = {}
  BY DEF IsSeq, ToSet
<1> QED  BY <1>1, <1>2 DEF FrameOK, Call, IsFrame

\* A frame keeps what it is while more names are begun.
LEMMA FrameStays ==
    ASSUME NEW fr, NEW seen, NEW more, FrameOK(fr, seen), seen \subseteq more
    PROVE  FrameOK(fr, more)
BY DEF FrameOK

\* fr with another place, names, format, code and offset.
With(fr, at, hints, fmt, pack, unpack, offset) ==
    [type |-> fr.type, pass |-> fr.pass, at |-> at, hints |-> hints, fmt |-> fmt,
     pack |-> pack, unpack |-> unpack, offset |-> offset]

\* It is a frame for the same struct in the same pass.
Moved(r, fr, at, hints) ==
    IsFrame(r) /\ r.type = fr.type /\ r.pass = fr.pass /\ r.at = at /\ r.hints = hints

LEMMA WithMoves ==
    ASSUME NEW fr, NEW at, NEW hints, NEW fmt, NEW pack, NEW unpack, NEW offset
    PROVE  Moved(With(fr, at, hints, fmt, pack, unpack, offset), fr, at, hints)
BY DEF Moved, With, IsFrame

\* An update of several fields is one update after another.
LEMMA UpdateFormat ==
    ASSUME NEW fr, IsFrame(fr), NEW v, NEW o
    PROVE  [fr EXCEPT !.fmt = v, !.offset = o]
               = With(fr, fr.at, fr.hints, v, fr.pack, fr.unpack, o)
<1> DEFINE g == [fr EXCEPT !.fmt = v]
<1>1. g = With(fr, fr.at, fr.hints, v, fr.pack, fr.unpack, fr.offset)
  BY DEF IsFrame, With
<1>2. [fr EXCEPT !.fmt = v, !.offset = o] = [g EXCEPT !.offset = o]
  OBVIOUS
<1> HIDE DEF g
<1> QED  BY <1>1, <1>2 DEF With

LEMMA UpdateCode ==
    ASSUME NEW fr, IsFrame(fr), NEW k, NEW u
    PROVE  [fr EXCEPT !.pack = k, !.unpack = u]
               = With(fr, fr.at, fr.hints, fr.fmt, k, u, fr.offset)
<1> DEFINE g == [fr EXCEPT !.pack = k]
<1>1. g = With(fr, fr.at, fr.hints, fr.fmt, k, fr.unpack, fr.offset)
  BY DEF IsFrame, With
<1>2. [fr EXCEPT !.pack = k, !.unpack = u] = [g EXCEPT !.unpack = u]
  OBVIOUS
<1> HIDE DEF g
<1> QED  BY <1>1, <1>2 DEF With

LEMMA UpdateFlushed ==
    ASSUME NEW fr, IsFrame(fr), NEW k, NEW u, NEW v
    PROVE  [fr EXCEPT !.pack = k, !.unpack = u, !.fmt = v]
               = With(fr, fr.at, fr.hints, v, k, u, fr.offset)
<1> DEFINE g == [fr EXCEPT !.pack = k, !.unpack = u]
<1>1. g = With(fr, fr.at, fr.hints, fr.fmt, k, u, fr.offset)
  BY UpdateCode
<1>2. [fr EXCEPT !.pack = k, !.unpack = u, !.fmt = v] = [g EXCEPT !.fmt = v]
  OBVIOUS
<1> HIDE DEF g
<1> QED  BY <1>1, <1>2 DEF With

LEMMA UpdatePlace ==
    ASSUME NEW fr, IsFrame(fr), NEW o, NEW a, NEW h
    PROVE  [fr EXCEPT !.offset = o, !.at = a, !.hints = h]
               = With(fr, a, h, fr.fmt, fr.pack, fr.unpack, o)
<1> DEFINE g == [fr EXCEPT !.offset = o]
           e == [g EXCEPT !.at = a]
<1>1. g = With(fr, fr.at, fr.hints, fr.fmt, fr.pack, fr.unpack, o)
  BY DEF IsFrame, With
<1>2. [fr EXCEPT !.offset = o, !.at = a, !.hints = h] = [e EXCEPT !.hints = h]
  OBVIOUS
<1> HIDE DEF g
<1>3. e = With(fr, a, fr.hints, fr.fmt, fr.pack, fr.unpack, o)
  BY <1>1 DEF With
<1> HIDE DEF e
<1> QED  BY <1>2, <1>3 DEF With

\* Padding and flushing touch the format and the code only.
LEMMA PaddedFrame ==
    ASSUME NEW fr, NEW to, IsFrame(fr) PROVE Moved(Padded(fr, to), fr, fr.at, fr.hints)
<1> DEFINE v == Append(fr.fmt, Item("x", to - fr.offset, ""))
<1>1. Moved(fr, fr, fr.at, fr.hints)
  BY DEF Moved
<1>2. to > fr.offset => Padded(fr, to) = [fr EXCEPT !.fmt = v, !.offset = to]
  BY DEF Padded
<1>3. ~(to > fr.offset) => Padded(fr, to) = fr
  BY DEF Padded
<1> HIDE DEF v
<1>4. [fr EXCEPT !.fmt = v, !.offset = to] = With(fr, fr.at, fr.hints, v, fr.pack, fr.unpack, to)
  BY UpdateFormat
<1> QED  BY <1>1, <1>2, <1>3, <1>4, WithMoves

LEMMA FlushedFrame ==
    ASSUME NEW fr, IsFrame(fr) PROVE Moved(Flushed(fr), fr, fr.at, fr.hints)
<1> DEFINE k == Append(fr.pack, [op |-> "struct", fmt |-> fr.fmt])
           u == Append(fr.unpack, [op |-> "struct", fmt |-> fr.fmt])
<1>1. Moved(fr, fr, fr.at, fr.hints)
  BY DEF Moved
<1>2. fr.fmt # <<>> => Flushed(fr) = [fr EXCEPT !.pack = k, !.unpack = u, !.fmt = <<>>]
  BY DEF Flushed
<1>3. fr.fmt = <<>> => Flushed(fr) = fr
  BY DEF Flushed
<1> HIDE DEF k, u
<1>4. [fr EXCEPT !.pack = k, !.unpack = u, !.fmt = <<>>]
          = With(fr, fr.at, fr.hints, <<>>, k, u, fr.offset)
  <2>1. IsFrame(fr)
    OBVIOUS
  <2> QED  BY ONLY <2>1, UpdateFlushed, ZenonT(60)
<1>5. CASE fr.fmt = <<>>
  BY <1>1, <1>3, <1>5
<1>6. CASE fr.fmt # <<>>
  BY <1>2, <1>4, <1>6, WithMoves
<1> QED  BY <1>5, <1>6

\* A field moves the second pass on by one and adds its name.
LEMMA FieldFrame ==
    ASSUME NEW fr, NEW f, IsFrame(fr)
    PROVE  Moved(FieldCode(fr, f), fr, fr.at + 1, Append(fr.hints, Hint(f)))
<1> DEFINE o == fr.offset + FieldSize(f)
           a == fr.at + 1
           h == Append(fr.hints, Hint(f))
           next == [fr EXCEPT !.offset = o, !.at = a, !.hints = h]
           out == Flushed(next)
           vs == Append(next.fmt, Item("s", f.n, f.name))
           v1 == Append(next.fmt, Item(FormatChar(f.type), 1, f.name))
           k == Append(out.pack, Object(f))
           u == Append(out.unpack, Object(f))
<1>1. RawBytes(f) => FieldCode(fr, f) = [next EXCEPT !.fmt = vs]
  BY DEF FieldCode
<1>2. ~RawBytes(f) /\ f.as = "one" /\ ~IsClass(f.type) => FieldCode(fr, f) = [next EXCEPT !.fmt = v1]
  BY DEF FieldCode
<1>3. ~RawBytes(f) /\ ~(f.as = "one" /\ ~IsClass(f.type)) =>
          FieldCode(fr, f) = [out EXCEPT !.pack = k, !.unpack = u]
  BY DEF FieldCode
<1> HIDE DEF o, a, h
<1>4. next = With(fr, a, h, fr.fmt, fr.pack, fr.unpack, o)
  BY UpdatePlace
<1>5. Moved(next, fr, a, h)
  BY <1>4, WithMoves
<1> HIDE DEF next, vs, v1
<1>6. Moved(out, fr, a, h)
  BY <1>5, FlushedFrame DEF Moved
<1> HIDE DEF out, k, u
<1>7. \A v : [next EXCEPT !.fmt = v] = With(next, next.at, next.hints, v, next.pack, next.unpack, next.offset)
  BY <1>5 DEF Moved, IsFrame, With
<1>8. [out EXCEPT !.pack = k, !.unpack = u] = With(out, out.at, out.hints, out.fmt, k, u, out.offset)
  BY <1>6, UpdateCode DEF Moved
<1>9. Moved([next EXCEPT !.fmt = vs], fr, a, h) /\ Moved([next EXCEPT !.fmt = v1], fr, a, h)
  BY <1>5, <1>7, WithMoves DEF Moved
<1>10. Moved([out EXCEPT !.pack = k, !.unpack = u], fr, a, h)
  BY <1>6, <1>8, WithMoves DEF Moved
<1>11. Moved(FieldCode(fr, f), fr, a, h)
  BY <1>1, <1>2, <1>3, <1>9, <1>10
<1> QED  BY <1>11 DEF a, h

\* The call on top goes on.
LEMMA TopMoves ==
    ASSUME NEW s, NEW seen, NEW more, NEW fr, s # <<>>, Framed(s, seen), Descends(s),
           seen \subseteq more, FrameOK(fr, more), fr.type = Head(s).type
    PROVE  LET r == <<fr>> \o Tail(s)
           IN  Framed(r, more) /\ Descends(r) /\ InProgress(r) = InProgress(s)
<1> DEFINE r == <<fr>> \o Tail(s)
<1>1. IsSeq(s)
  BY DEF Framed
<1>2. /\ IsSeq(r) /\ DOMAIN r = DOMAIN s /\ r[1] = fr
      /\ \A i \in DOMAIN s \ {1} : r[i] = s[i]
  BY <1>1, Exchanges
<1>3. Head(s) = s[1] /\ 1 \in DOMAIN s
  BY <1>1, Pops
<1> HIDE DEF r
<1>4. \A i \in DOMAIN s : r[i].type = s[i].type
  BY <1>2, <1>3
<1>5. \A i \in DOMAIN s \ {1} : FrameOK(r[i], more)
  <2> TAKE i \in DOMAIN s \ {1}
  <2>1. FrameOK(s[i], seen)
    BY DEF Framed
  <2> QED  BY <2>1, <1>2, FrameStays
<1>6. Framed(r, more)
  BY <1>2, <1>5 DEF Framed
<1>7. Descends(r)
  BY <1>2, <1>4 DEF Descends
<1>8. InProgress(r) = InProgress(s)
  BY <1>2, <1>4 DEF InProgress
<1> QED  BY <1>6, <1>7, <1>8 DEF r

\* A call is made for a struct that is nested less deeply than the one on top.
LEMMA CallIsMade ==
    ASSUME WellNested, NEW s, NEW seen, Framed(s, seen), Descends(s), NEW t \in DOMAIN Structs,
           s # <<>> => Depth(t) < Depth(Head(s).type)
    PROVE  LET r == <<Call(t)>> \o s
           IN  Framed(r, seen) /\ Descends(r) /\ InProgress(r) = InProgress(s) \cup {t}
<1> DEFINE r == <<Call(t)>> \o s
<1>1. IsSeq(s)
  BY DEF Framed
<1>2. /\ IsSeq(r) /\ DOMAIN r = 1..(Len(s) + 1) /\ r[1] = Call(t) /\ Len(s) \in Nat
      /\ DOMAIN s = 1..Len(s)
      /\ \A i \in 1..Len(s) : r[i + 1] = s[i]
  BY <1>1, Pushes
<1>3. Call(t).type = t
  BY DEF Call
<1> HIDE DEF r
<1>4. \A i \in DOMAIN r \ {1} : i - 1 \in DOMAIN s /\ r[i] = s[i - 1]
  <2> TAKE i \in DOMAIN r \ {1}
  <2>1. i - 1 \in 1..Len(s) /\ (i - 1) + 1 = i
    BY <1>2
  <2> QED  BY <2>1, <1>2
<1>5. Framed(r, seen)
  <2>1. FrameOK(r[1], seen)
    BY <1>2, CallIsFrame
  <2>2. \A i \in DOMAIN s : FrameOK(s[i], seen)
    BY DEF Framed
  <2> QED  BY <1>2, <1>4, <2>1, <2>2 DEF Framed
<1>6. \A i \in DOMAIN s : Depth(t) < Depth(s[i].type)
  <2> TAKE i \in DOMAIN s
  <2>1. s # <<>>
    BY <1>1, <1>2 DEF IsSeq
  <2>2. Head(s) = s[1] /\ 1 \in DOMAIN s /\ Depth(t) < Depth(s[1].type)
    BY <1>1, <2>1, Pops
  <2>3. i = 1 \/ Depth(s[1].type) < Depth(s[i].type)
    BY <1>2, <2>2 DEF Descends
  <2> QED  BY <2>2, <2>3, DepthIsNat
<1>7. Descends(r)
  <2> SUFFICES ASSUME NEW i \in DOMAIN r, NEW j \in DOMAIN r, i < j
               PROVE  Depth(r[i].type) < Depth(r[j].type)
    BY DEF Descends
  <2>1. j # 1 /\ j - 1 \in DOMAIN s /\ r[j] = s[j - 1]
    BY <1>2, <1>4
  <2>2. CASE i = 1
    BY <2>1, <2>2, <1>2, <1>3, <1>6
  <2>3. CASE i # 1
    <3>1. i - 1 \in DOMAIN s /\ r[i] = s[i - 1] /\ i - 1 < j - 1
      BY <1>2, <1>4, <2>3
    <3> QED  BY <3>1, <2>1 DEF Descends
  <2> QED  BY <2>2, <2>3
<1>8. InProgress(r) = InProgress(s) \cup {t}
  <2>1. \A i \in DOMAIN s : i + 1 \in DOMAIN r /\ r[i + 1] = s[i]
    BY <1>2
  <2>2. 1 \in DOMAIN r /\ r[1].type = t
    BY <1>2, <1>3
  <2>3. InProgress(r) \subseteq InProgress(s) \cup {t}
    BY <1>4, <2>2 DEF InProgress
  <2>4. InProgress(s) \cup {t} \subseteq InProgress(r)
    BY <2>1, <2>2 DEF InProgress
  <2> QED  BY <2>3, <2>4
<1> QED  BY <1>5, <1>7, <1>8 DEF r

\* The call on top returns.
LEMMA TopReturns ==
    ASSUME NEW s, NEW seen, Framed(s, seen), Descends(s), s # <<>>
    PROVE  /\ Framed(Tail(s), seen) /\ Descends(Tail(s))
           /\ InProgress(s) = InProgress(Tail(s)) \cup {Head(s).type}
           /\ Head(s).type \notin InProgress(Tail(s))
           /\ \A i \in DOMAIN s : s[i].type = Head(s).type \/ Depth(Head(s).type) < Depth(s[i].type)
<1> DEFINE r == Tail(s)
<1>1. IsSeq(s)
  BY DEF Framed
<1>2. /\ IsSeq(r) /\ DOMAIN s = 1..Len(s) /\ DOMAIN r = 1..(Len(s) - 1) /\ Len(s) \in Nat \ {0}
      /\ Head(s) = s[1]
      /\ \A i \in 1..(Len(s) - 1) : r[i] = s[i + 1]
  BY <1>1, Pops
<1> HIDE DEF r
<1>3. \A i \in DOMAIN r : i + 1 \in DOMAIN s /\ r[i] = s[i + 1]
  BY <1>2
<1>4. \A i \in DOMAIN s \ {1} : i - 1 \in DOMAIN r /\ r[i - 1] = s[i]
  <2> TAKE i \in DOMAIN s \ {1}
  <2>1. i - 1 \in 1..(Len(s) - 1) /\ (i - 1) + 1 = i
    BY <1>2
  <2> QED  BY <2>1, <1>2
<1>5. Framed(r, seen)
  BY <1>2, <1>3 DEF Framed
<1>6. Descends(r)
  <2> SUFFICES ASSUME NEW i \in DOMAIN r, NEW j \in DOMAIN r, i < j
               PROVE  Depth(r[i].type) < Depth(r[j].type)
    BY DEF Descends
  <2>1. i + 1 < j + 1
    BY <1>2
  <2> QED  BY <2>1, <1>3 DEF Descends
<1>7. \A i \in DOMAIN s \ {1} : Depth(Head(s).type) < Depth(s[i].type)
  <2> TAKE i \in DOMAIN s \ {1}
  <2>1. 1 \in DOMAIN s /\ 1 < i
    BY <1>2
  <2> QED  BY <2>1, <1>2 DEF Descends
<1>8. Head(s).type \notin InProgress(r)
  <2> SUFFICES ASSUME NEW i \in DOMAIN r, r[i].type = Head(s).type PROVE FALSE
    BY DEF InProgress
  <2>1. i + 1 \in DOMAIN s \ {1} /\ r[i] = s[i + 1]
    BY <1>2, <1>3
  <2>2. Depth(Head(s).type) < Depth(Head(s).type)
    BY <1>7, <2>1
  <2> QED  BY <2>2, DepthIsNat
<1>9. InProgress(s) = InProgress(r) \cup {Head(s).type}
  <2>1. 1 \in DOMAIN s
    BY <1>2
  <2> QED  BY <1>2, <1>3, <1>4, <2>1 DEF InProgress
<1> QED  BY <1>2, <1>5, <1>6, <1>7, <1>8, <1>9 DEF r
(***************************************************************************)
(* Each step keeps the invariant.                                          *)
(***************************************************************************)
\* The frame on top, and the struct it is for.
LEMMA TopIsFrame ==
    ASSUME WellNested, Framed(stack, visited), stack # <<>>
    PROVE  /\ FrameOK(Top, visited) /\ Top.type \in DOMAIN Structs /\ Top.type \in InProgress(stack)
           /\ DOMAIN Fields = 1..Len(Fields) /\ Len(Fields) \in Nat
<1>1. IsSeq(stack)
  BY DEF Framed
<1>2. Head(stack) = stack[1] /\ 1 \in DOMAIN stack
  BY <1>1, Pops
<1>3. FrameOK(Top, visited) /\ Top.type \in InProgress(stack)
  BY <1>2 DEF Framed, Top, InProgress
<1>4. Top.type \in DOMAIN Structs
  BY <1>3 DEF FrameOK
<1> QED  BY <1>3, <1>4, FieldsAreDeclared DEF Fields

\* What the frame on top becomes in the first pass.
LEMMA NestedFrame ==
    ASSUME WellNested, NEW fr, NEW seen, FrameOK(fr, seen), fr.pass = "nested", NEW more,
           seen \subseteq more, fr.at \in DOMAIN Structs[fr.type],
           IsClass(Structs[fr.type][fr.at].type) => Structs[fr.type][fr.at].type \in more
    PROVE  FrameOK([fr EXCEPT !.at = @ + 1], more) /\ [fr EXCEPT !.at = @ + 1].type = fr.type
<1> DEFINE a == fr.at + 1
           r == [fr EXCEPT !.at = a]
<1>1. fr.at \in Nat \ {0} /\ a \in Nat \ {0} /\ \A i \in Nat : i < a => i < fr.at \/ i = fr.at
  BY DEF FrameOK
<1>2. IsFrame(fr) /\ fr.type \in DOMAIN Structs
  BY DEF FrameOK
<1>3. DOMAIN Structs[fr.type] \subseteq Nat
  BY <1>2, FieldsAreDeclared
<1>4. \A i \in DOMAIN Structs[fr.type] :
          IsClass(Structs[fr.type][i].type) /\ i < a => Structs[fr.type][i].type \in more
  BY <1>1, <1>3 DEF FrameOK
<1> HIDE DEF a
<1>5. r = With(fr, a, fr.hints, fr.fmt, fr.pack, fr.unpack, fr.offset)
  BY <1>2 DEF IsFrame, With
<1>6. Moved(r, fr, a, fr.hints)
  BY <1>5, WithMoves
<1> HIDE DEF r
<1>7. FrameOK(r, more)
  BY <1>1, <1>4, <1>6 DEF FrameOK, Moved
<1> QED  BY <1>6, <1>7 DEF r, a, Moved

LEMMA Nested_Keeps ==
    ASSUME WellNested, GInv, Nested PROVE GInv'
<1> DEFINE fr == [Top EXCEPT !.at = @ + 1]
           rest == <<fr>> \o Tail(stack)
           t == Field.type
<1>1. /\ stack # <<>> /\ Top.pass = "nested" /\ Top.at <= Len(Fields)
      /\ UNCHANGED <<todo, classes>>
      /\ IsClass(t) => Enters(t, rest)
      /\ ~IsClass(t) => stack' = rest /\ UNCHANGED visited
  BY DEF Nested
<1>2. Framed(stack, visited) /\ Descends(stack)
  BY DEF GInv
<1>3. /\ FrameOK(Top, visited) /\ Top.type \in DOMAIN Structs
      /\ DOMAIN Fields = 1..Len(Fields) /\ Len(Fields) \in Nat
  BY <1>1, <1>2, TopIsFrame
<1>4. Top.at \in DOMAIN Structs[Top.type] /\ Field = Structs[Top.type][Top.at]
  BY <1>1, <1>3 DEF FrameOK, Fields, Field
<1>5. visited \subseteq visited' /\ (IsClass(t) => t \in visited')
  BY <1>1 DEF Enters
<1>6. FrameOK(fr, visited') /\ fr.type = Top.type
  BY <1>1, <1>3, <1>4, <1>5, NestedFrame
<1> HIDE DEF fr
<1>7. Framed(rest, visited') /\ Descends(rest) /\ InProgress(rest) = InProgress(stack)
  BY <1>1, <1>2, <1>5, <1>6, TopMoves DEF Top
<1>8. Head(rest) = fr
  <2>1. IsSeq(Tail(stack))
    BY <1>1, <1>2, Pops DEF Framed
  <2> QED  BY <2>1, Pushes
<1>9. IsClass(t) => t \in DOMAIN Structs /\ Depth(t) < Depth(Top.type)
  BY <1>3, <1>4, FieldsAreDeclared
<1>10. Printed' = Printed /\ InOrder' /\ PrintedOnce'
  BY <1>1 DEF GInv, Printed, InOrder, PrintedOnce
<1>11. RootsToCome'
  BY <1>1, <1>5 DEF GInv, RootsToCome
<1> HIDE DEF rest, t
<1>12. CASE stack' = rest /\ visited' = visited
  <2>1. BegunIsKnown'
    BY <1>7, <1>10, <1>12 DEF GInv, BegunIsKnown
  <2> QED  BY <1>7, <1>10, <1>11, <1>12, <2>1 DEF GInv
<1>13. CASE IsClass(t) /\ stack' = <<Call(t)>> \o rest /\ visited' = visited \cup {t} /\ t \notin visited
  <2>1. rest # <<>> => Depth(t) < Depth(Head(rest).type)
    BY <1>6, <1>8, <1>9, <1>13
  <2>2. /\ Framed(stack', visited') /\ Descends(stack')
        /\ InProgress(stack') = InProgress(rest) \cup {t}
    BY <1>7, <1>9, <1>13, <2>1, CallIsMade
  <2>3. BegunIsKnown'
    BY <1>7, <1>10, <1>13, <2>2 DEF GInv, BegunIsKnown
  <2> QED  BY <1>10, <1>11, <2>2, <2>3 DEF GInv
<1>14. \/ stack' = rest /\ visited' = visited
       \/ IsClass(t) /\ stack' = <<Call(t)>> \o rest /\ visited' = visited \cup {t} /\ t \notin visited
  BY <1>1 DEF Enters
<1> QED  BY <1>12, <1>13, <1>14

LEMMA NextRoot_Keeps ==
    ASSUME WellNested, GInv, NextRoot PROVE GInv'
<1> DEFINE t == Head(todo)
<1>1. /\ stack = <<>> /\ todo # <<>> /\ todo' = Tail(todo) /\ Enters(t, <<>>)
      /\ UNCHANGED classes
  BY DEF NextRoot
<1>2. todo \in Seq(DOMAIN Structs) /\ ToSet(Roots) \subseteq visited \cup ToSet(todo)
  BY DEF GInv, RootsToCome
<1>3. t \in DOMAIN Structs /\ Tail(todo) \in Seq(DOMAIN Structs)
  BY <1>1, <1>2
<1>4. ToSet(todo) \subseteq {t} \cup ToSet(Tail(todo))
  <2> SUFFICES ASSUME NEW i \in DOMAIN todo PROVE todo[i] = t \/ todo[i] \in ToSet(Tail(todo))
    BY DEF ToSet
  <2>1. IsSeq(todo)
    BY <1>2, SeqIsSeq
  <2>2. /\ DOMAIN todo = 1..Len(todo) /\ DOMAIN Tail(todo) = 1..(Len(todo) - 1) /\ t = todo[1]
        /\ Len(todo) \in Nat
        /\ \A k \in 1..(Len(todo) - 1) : Tail(todo)[k] = todo[k + 1]
    BY <1>1, <2>1, Pops
  <2>3. CASE i = 1
    BY <2>2, <2>3
  <2>4. CASE i # 1
    <3>1. i - 1 \in 1..(Len(todo) - 1) /\ (i - 1) + 1 = i
      BY <2>2, <2>4
    <3> QED  BY <3>1, <2>2 DEF ToSet
  <2> QED  BY <2>3, <2>4
<1>5. visited' = visited \cup {t} \/ (visited' = visited /\ t \in visited)
  BY <1>1 DEF Enters
<1>6. RootsToCome'
  BY <1>1, <1>2, <1>3, <1>4, <1>5 DEF RootsToCome
<1>7. Printed' = Printed /\ InOrder' /\ PrintedOnce'
  BY <1>1 DEF GInv, Printed, InOrder, PrintedOnce
<1>8. Framed(<<>>, visited') /\ Descends(<<>>) /\ InProgress(<<>>) = {}
  BY DEF Framed, Descends, InProgress, IsSeq, ToSet
<1> HIDE DEF t
<1>9. CASE stack' = <<>> /\ visited' = visited
  <2>1. BegunIsKnown'
    BY <1>1, <1>7, <1>9 DEF GInv, BegunIsKnown
  <2> QED  BY <1>6, <1>7, <1>8, <1>9, <2>1 DEF GInv
<1>10. CASE stack' = <<Call(t)>> \o <<>> /\ visited' = visited \cup {t} /\ t \notin visited
  <2>1. Framed(stack', visited') /\ Descends(stack') /\ InProgress(stack') = {t}
    BY <1>3, <1>8, <1>10, CallIsMade
  <2>2. BegunIsKnown'
    BY <1>1, <1>7, <1>8, <1>10, <2>1 DEF GInv, BegunIsKnown
  <2> QED  BY <1>6, <1>7, <2>1, <2>2 DEF GInv
<1> QED  BY <1>1, <1>9, <1>10 DEF Enters
\* A step that only exchanges the frame on top keeps everything else.
LEMMA Becomes_Keeps ==
    ASSUME WellNested, GInv, NEW fr, stack # <<>>, Becomes(fr), UNCHANGED <<todo, visited, classes>>,
           FrameOK(fr, visited), fr.type = Top.type
    PROVE  GInv'
<1>1. Framed(stack, visited) /\ Descends(stack) /\ stack' = <<fr>> \o Tail(stack)
  BY DEF GInv, Becomes
<1>2. /\ Framed(stack', visited) /\ Descends(stack') /\ InProgress(stack') = InProgress(stack)
  BY <1>1, TopMoves DEF Top
<1>3. BegunIsKnown' /\ InOrder' /\ PrintedOnce' /\ RootsToCome'
  BY <1>2 DEF GInv, BegunIsKnown, InOrder, PrintedOnce, RootsToCome, Printed
<1> QED  BY <1>2, <1>3 DEF GInv

LEMMA ClassBegins_Keeps ==
    ASSUME WellNested, GInv, ClassBegins PROVE GInv'
<1> DEFINE g == [Top EXCEPT !.pass = "body"]
           fr == [Top EXCEPT !.pass = "body", !.at = 1]
<1>1. /\ stack # <<>> /\ Top.pass = "nested" /\ Top.at > Len(Fields) /\ Becomes(fr)
      /\ UNCHANGED <<todo, visited, classes>>
  BY DEF ClassBegins
<1>2. /\ FrameOK(Top, visited) /\ Top.type \in DOMAIN Structs
      /\ DOMAIN Fields = 1..Len(Fields) /\ Len(Fields) \in Nat
  BY <1>1, TopIsFrame DEF GInv
<1>3. \A i \in DOMAIN Structs[Top.type] : i < Top.at
  BY <1>1, <1>2 DEF Fields, FrameOK
<1>4. \A i \in DOMAIN Structs[Top.type] :
          IsClass(Structs[Top.type][i].type) => Structs[Top.type][i].type \in visited
  BY <1>2, <1>3 DEF FrameOK
<1>5. g = [type |-> Top.type, pass |-> "body", at |-> Top.at, hints |-> Top.hints, fmt |-> Top.fmt,
           pack |-> Top.pack, unpack |-> Top.unpack, offset |-> Top.offset]
  BY <1>2 DEF FrameOK, IsFrame
<1>6. fr = [g EXCEPT !.at = 1]
  OBVIOUS
<1> HIDE DEF g
<1>7. fr = [type |-> Top.type, pass |-> "body", at |-> 1, hints |-> Top.hints, fmt |-> Top.fmt,
            pack |-> Top.pack, unpack |-> Top.unpack, offset |-> Top.offset]
  BY <1>5, <1>6
<1> HIDE DEF fr
<1>8. /\ IsFrame(fr) /\ fr.type = Top.type /\ fr.pass = "body" /\ fr.at = 1
      /\ fr.hints = Top.hints
  BY <1>7 DEF IsFrame
<1>9. FrameOK(fr, visited)
  BY <1>2, <1>4, <1>8 DEF FrameOK
<1> QED  BY <1>1, <1>8, <1>9, Becomes_Keeps

LEMMA BodyField_Keeps ==
    ASSUME WellNested, GInv, BodyField PROVE GInv'
<1> DEFINE padded == Padded(Top, Layout[Top.type].offset[Top.at])
           fr == FieldCode(padded, Field)
<1>1. /\ stack # <<>> /\ Top.pass = "body" /\ Top.at <= Len(Fields) /\ Becomes(fr)
      /\ UNCHANGED <<todo, visited, classes>>
  BY DEF BodyField
<1>2. /\ FrameOK(Top, visited) /\ Top.type \in DOMAIN Structs
      /\ DOMAIN Fields = 1..Len(Fields) /\ Len(Fields) \in Nat
  BY <1>1, TopIsFrame DEF GInv
<1>3. Top.at \in DOMAIN Structs[Top.type] /\ Field = Structs[Top.type][Top.at]
  BY <1>1, <1>2 DEF FrameOK, Fields, Field
<1>4. Hint(Field) \subseteq MayName(Top.type)
  BY <1>2, <1>3, HintIsDeclared
<1>5. IsFrame(Top) /\ IsSeq(Top.hints) /\ Top.at \in Nat \ {0}
  BY <1>2 DEF FrameOK
<1>6. Moved(padded, Top, Top.at, Top.hints)
  BY <1>5, PaddedFrame
<1> HIDE DEF padded
<1>7. Moved(fr, padded, padded.at + 1, Append(padded.hints, Hint(Field)))
  BY <1>6, FieldFrame DEF Moved
<1> HIDE DEF fr
<1>8. /\ IsFrame(fr) /\ fr.type = Top.type /\ fr.pass = "body" /\ fr.at = Top.at + 1
      /\ fr.hints = Append(Top.hints, Hint(Field))
  BY <1>1, <1>6, <1>7 DEF Moved
<1> DEFINE h == Hint(Field)
<1> HIDE DEF h
<1>9. /\ IsSeq(Append(Top.hints, h)) /\ DOMAIN Append(Top.hints, h) = 1..(Len(Top.hints) + 1)
      /\ DOMAIN Top.hints = 1..Len(Top.hints) /\ Len(Top.hints) \in Nat
      /\ Append(Top.hints, h)[Len(Top.hints) + 1] = h
      /\ \A i \in DOMAIN Top.hints : Append(Top.hints, h)[i] = Top.hints[i]
  BY <1>5, Appends
<1>10. \A i \in DOMAIN Top.hints : Top.hints[i] \subseteq MayName(Top.type)
  BY <1>2 DEF FrameOK
<1>11. \A i \in DOMAIN Append(Top.hints, h) : Append(Top.hints, h)[i] \subseteq MayName(Top.type)
  <2> TAKE i \in DOMAIN Append(Top.hints, h)
  <2>1. i = Len(Top.hints) + 1 \/ i \in DOMAIN Top.hints
    BY <1>9
  <2>2. h \subseteq MayName(Top.type)
    BY <1>4 DEF h
  <2> QED  BY <1>9, <1>10, <2>1, <2>2
<1>12. FrameOK(fr, visited)
  <2>1. fr.at \in Nat \ {0}
    BY <1>5, <1>8
  <2>2. \A i \in DOMAIN Structs[fr.type] :
            IsClass(Structs[fr.type][i].type) => Structs[fr.type][i].type \in visited
    BY <1>1, <1>2, <1>8 DEF FrameOK
  <2> QED  BY <1>2, <1>8, <1>9, <1>11, <2>1, <2>2 DEF FrameOK, h
<1> QED  BY <1>1, <1>8, <1>12, Becomes_Keeps

LEMMA ClassEnds_Keeps ==
    ASSUME WellNested, GInv, ClassEnds PROVE GInv'
<1> DEFINE padded == Padded(Top, SizeOf(Top.type))
           done == IF Fields = <<>> THEN Top ELSE Flushed(padded)
           names == UNION { done.hints[i] : i \in DOMAIN done.hints }
           c == [name |-> Top.type, wire_size |-> SizeOf(Top.type), hints |-> names,
                 pack |-> done.pack, unpack |-> done.unpack]
<1>1. /\ stack # <<>> /\ Top.pass = "body" /\ stack' = Tail(stack)
      /\ classes' = Append(classes, c) /\ UNCHANGED <<todo, visited>>
  BY DEF ClassEnds
<1>2. Framed(stack, visited) /\ Descends(stack)
  BY DEF GInv
<1>3. FrameOK(Top, visited) /\ Top.type \in DOMAIN Structs /\ Top.type \in InProgress(stack)
  BY <1>1, <1>2, TopIsFrame
<1>4. IsFrame(Top)
  BY <1>3 DEF FrameOK
<1>5. Moved(padded, Top, Top.at, Top.hints)
  BY <1>4, PaddedFrame
<1> HIDE DEF padded
<1>6. done.hints = Top.hints
  BY <1>5, FlushedFrame DEF Moved
<1> HIDE DEF done
<1>7. names \subseteq MayName(Top.type)
  BY <1>3, <1>6 DEF FrameOK
<1>8. c.name = Top.type /\ c.hints = names
  OBVIOUS
<1> HIDE DEF c, names
<1>9. /\ Framed(stack', visited) /\ Descends(stack')
      /\ InProgress(stack) = InProgress(stack') \cup {Top.type} /\ Top.type \notin InProgress(stack')
      /\ \A i \in DOMAIN stack : stack[i].type = Top.type \/ Depth(Top.type) < Depth(stack[i].type)
  BY <1>1, <1>2, TopReturns DEF Top
<1>10. IsSeq(classes)
  BY DEF GInv, InOrder
<1>11. /\ IsSeq(classes') /\ Len(classes) \in Nat /\ DOMAIN classes = 1..Len(classes)
       /\ DOMAIN classes' = 1..(Len(classes) + 1) /\ Len(classes') = Len(classes) + 1
       /\ classes'[Len(classes) + 1] = c
       /\ \A i \in DOMAIN classes : classes'[i] = classes[i]
  BY <1>1, <1>10, Appends
<1>12. Printed' = Printed \cup {Top.type}
  <2>1. \A i \in DOMAIN classes' : i = Len(classes) + 1 \/ i \in DOMAIN classes
    BY <1>11
  <2>2. Len(classes) + 1 \in DOMAIN classes' /\ DOMAIN classes \subseteq DOMAIN classes'
    BY <1>11
  <2> QED  BY <1>8, <1>11, <2>1, <2>2 DEF Printed
<1>13. visited = Printed \cup InProgress(stack) /\ Printed \cap InProgress(stack) = {}
  BY DEF GInv, BegunIsKnown
<1>14. Top.type \notin Printed
  BY <1>3, <1>13
<1>15. BegunIsKnown'
  BY <1>1, <1>9, <1>12, <1>13 DEF BegunIsKnown
<1>16. MayName(Top.type) \subseteq GeneratedEnums \cup Printed
  <2> SUFFICES ASSUME NEW f \in ToSet(Structs[Top.type]), IsClass(f.type) PROVE f.type \in Printed
    BY DEF MayName
  <2>1. PICK i \in DOMAIN Structs[Top.type] : f = Structs[Top.type][i]
    BY DEF ToSet
  <2>2. f.type \in visited
    BY <1>1, <1>3, <2>1 DEF FrameOK
  <2>3. f.type \in DOMAIN Structs /\ Depth(f.type) < Depth(Top.type)
    BY <1>3, <2>1, FieldsAreDeclared
  <2>4. f.type \notin InProgress(stack)
    <3> SUFFICES ASSUME NEW k \in DOMAIN stack, stack[k].type = f.type PROVE FALSE
      BY DEF InProgress
    <3>1. f.type = Top.type \/ Depth(Top.type) < Depth(f.type)
      BY <1>9
    <3> QED  BY <2>3, <3>1, DepthIsNat
  <2> QED  BY <1>13, <2>2, <2>4
<1>17. InOrder'
  <2> SUFFICES ASSUME NEW i \in DOMAIN classes'
               PROVE  classes'[i].hints \subseteq
                          GeneratedEnums \cup { classes'[j].name : j \in 1..(i - 1) }
    BY <1>11 DEF InOrder
  <2>1. CASE i \in DOMAIN classes
    <3>1. classes[i].hints \subseteq GeneratedEnums \cup { classes[j].name : j \in 1..(i - 1) }
      BY <2>1 DEF GInv, InOrder
    <3>2. 1..(i - 1) \subseteq DOMAIN classes
      BY <1>11, <2>1
    <3> QED  BY <1>11, <2>1, <3>1, <3>2
  <2>2. CASE i \notin DOMAIN classes
    <3>1. i = Len(classes) + 1 /\ 1..(i - 1) = DOMAIN classes
      BY <1>11, <2>2
    <3>2. { classes'[j].name : j \in 1..(i - 1) } = Printed
      BY <1>11, <3>1 DEF Printed
    <3>3. classes'[i].hints \subseteq MayName(Top.type)
      BY <1>7, <1>8, <1>11, <3>1
    <3> QED  BY <1>16, <3>2, <3>3
  <2> QED  BY <2>1, <2>2
<1>18. PrintedOnce'
  <2>1. IsFiniteSet(Printed) /\ Cardinality(Printed) = Len(classes)
    BY DEF GInv, PrintedOnce
  <2>2. /\ IsFiniteSet(Printed \cup {Top.type})
        /\ Cardinality(Printed \cup {Top.type}) = Cardinality(Printed) + 1
    BY <1>14, <2>1, FS_AddElement
  <2> QED  BY <1>12, <1>11, <2>1, <2>2 DEF PrintedOnce
<1>19. RootsToCome'
  BY <1>1 DEF GInv, RootsToCome
<1> QED  BY <1>1, <1>9, <1>15, <1>17, <1>18, <1>19 DEF GInv

LEMMA GInvIsInductive ==
    ASSUME WellNested
    PROVE  /\ Init => GInv
           /\ GInv /\ [Next]_vars => GInv'
<1>1. Init => GInv
  <2> SUFFICES ASSUME Init PROVE GInv
    OBVIOUS
  <2>1. todo = Roots /\ stack = <<>> /\ visited = {} /\ classes = <<>>
    BY DEF Init, BindingsInit
  <2>2. Framed(stack, visited) /\ Descends(stack) /\ InProgress(stack) = {}
    BY <2>1 DEF Framed, Descends, InProgress, IsSeq, ToSet
  <2>3. Printed = {} /\ InOrder
    BY <2>1 DEF Printed, InOrder, IsSeq, ToSet
  <2>4. PrintedOnce
    BY <2>1, <2>3, FS_EmptySet DEF PrintedOnce
  <2>5. BegunIsKnown /\ RootsToCome
    BY <2>1, <2>2, <2>3 DEF BegunIsKnown, RootsToCome, WellNested
  <2> QED  BY <2>2, <2>3, <2>4, <2>5 DEF GInv
<1>2. ASSUME GInv, [Next]_vars PROVE GInv'
  <2>1. CASE BindingsNext
    BY <1>2, <2>1, NextRoot_Keeps, Nested_Keeps, ClassBegins_Keeps, BodyField_Keeps, ClassEnds_Keeps
       DEF BindingsNext
  <2>2. CASE UNCHANGED bindings
    BY <1>2, <2>2 DEF GInv, bindings, BegunIsKnown, InOrder, PrintedOnce, RootsToCome, Printed
  <2> QED  BY <1>2, <2>1, <2>2 DEF Next, vars
<1> QED  BY <1>1, <1>2

\* The payload of every id is a root.
LEMMA PayloadsAreRoots == WellNested => \A m \in ToSet(MsgIds) : Payload[m] \in ToSet(Roots)
<1> HAVE WellNested
<1> TAKE m \in ToSet(MsgIds)
<1>1. MsgIds \in Seq(DOMAIN Payload)
  BY DEF WellNested
<1>2. PICK i \in DOMAIN MsgIds : m = MsgIds[i]
  BY DEF ToSet
<1> DEFINE p == [k \in DOMAIN MsgIds |-> Payload[MsgIds[k]]]
<1>3. p \in Seq(ToSet(p)) /\ Len(p) = Len(MsgIds) /\ DOMAIN p = DOMAIN MsgIds
  BY <1>1 DEF ToSet
<1>4. p[i] = Payload[m]
  BY <1>2
<1> HIDE DEF p
<1>5. IsSeq(p)
  BY <1>3 DEF IsSeq
<1>6. /\ DOMAIN (<<"MotorSubCmd">> \o p) = 1..(Len(p) + 1)
      /\ \A k \in 1..Len(p) : (<<"MotorSubCmd">> \o p)[k + 1] = p[k]
  BY <1>5, Pushes
<1>7. i \in 1..Len(p) /\ Len(p) \in Nat
  BY <1>1, <1>3
<1>8. Roots = <<"MotorSubCmd">> \o p
  BY DEF Roots, p
<1>9. i + 1 \in DOMAIN Roots /\ Roots[i + 1] = Payload[m]
  BY <1>4, <1>6, <1>7, <1>8
<1> QED  BY <1>9 DEF ToSet

\* Each class is printed once and after those its fields name, and every message gets one.
LEMMA ClassesInOrder ==
    ASSUME WellNested, GInv
    PROVE  /\ \A i \in DOMAIN classes :
                  classes[i].hints \subseteq GeneratedEnums \cup { classes[j].name : j \in 1..(i - 1) }
           /\ Cardinality(Printed) = Len(classes)
           /\ BindingsDone => \A m \in DOMAIN MessageById : MessageById[m] \in Printed
<1>1. \A i \in DOMAIN classes :
          classes[i].hints \subseteq GeneratedEnums \cup { classes[j].name : j \in 1..(i - 1) }
  BY DEF GInv, InOrder
<1>2. Cardinality(Printed) = Len(classes)
  BY DEF GInv, PrintedOnce
<1>3. BindingsDone => \A m \in DOMAIN MessageById : MessageById[m] \in Printed
  <2> SUFFICES ASSUME BindingsDone, NEW m \in ToSet(MsgIds) PROVE Payload[m] \in Printed
    BY DEF MessageById
  <2>1. todo = <<>> /\ InProgress(stack) = {}
    BY DEF BindingsDone, InProgress
  <2>2. ToSet(Roots) \subseteq visited
    BY <2>1 DEF GInv, RootsToCome, ToSet
  <2>3. visited = Printed
    BY <2>1 DEF GInv, BegunIsKnown
  <2> QED  BY <2>2, <2>3, PayloadsAreRoots
<1> QED  BY <1>1, <1>2, <1>3
-----------------------------------------------------------------------------
(***************************************************************************)
(* The diagram shows the traffic.                                          *)
(***************************************************************************)
\* What collect_msg_edges draws for a message.
EdgesOf(m) ==
    CASE Direction(m) = "Inbound" -> InboundEdges(m)
      [] Direction(m) = "Outbound" -> OutboundEdges(m)
      [] Direction(m) = "Bidirectional" -> InboundEdges(m) \cup OutboundEdges(m)
      [] OTHER -> InternalEdges(m)

\* The messages whose edges are drawn have all of theirs, and nobody else's are there.
Drawn(m) ==
    /\ EdgesOf(m) \subseteq edges
    /\ Direction(m) \in {"Inbound", "Bidirectional"} => m \in inbound
    /\ Direction(m) \in {"Outbound", "Bidirectional"} => m \in outbound

DInv ==
    /\ IsSeq(undrawn)
    /\ \A m \in ToSet(MsgIds) : m \in ToSet(undrawn) \/ Drawn(m)
    /\ \A e \in edges : e \in EdgesOf(e[3])

\* A message's edges carry its name.
LEMMA EdgesAreNamed == \A m : \A e \in EdgesOf(m) : e[3] = m
<1> SUFFICES ASSUME NEW m, NEW e \in EdgesOf(m) PROVE e[3] = m
  OBVIOUS
<1>1. EdgesOf(m) \subseteq InboundEdges(m) \cup OutboundEdges(m) \cup InternalEdges(m)
  BY DEF EdgesOf
<1>2. \A x \in InboundEdges(m) \cup OutboundEdges(m) \cup InternalEdges(m) : x[3] = m
  BY DEF InboundEdges, OutboundEdges, InternalEdges
<1> QED  BY <1>1, <1>2

LEMMA CollectMsgEdges_Keeps ==
    ASSUME DInv, CollectMsgEdges PROVE DInv'
<1>1. undrawn # <<>> /\ undrawn' = Tail(undrawn) /\ IsSeq(undrawn)
  BY DEF CollectMsgEdges, DInv
<1>2. /\ IsSeq(Tail(undrawn)) /\ DOMAIN undrawn = 1..Len(undrawn) /\ Len(undrawn) \in Nat \ {0}
      /\ DOMAIN Tail(undrawn) = 1..(Len(undrawn) - 1) /\ Id = undrawn[1]
      /\ \A i \in 1..(Len(undrawn) - 1) : Tail(undrawn)[i] = undrawn[i + 1]
  BY <1>1, Pops DEF Id
<1>3. \A m \in ToSet(undrawn) : m = Id \/ m \in ToSet(undrawn')
  <2> SUFFICES ASSUME NEW i \in DOMAIN undrawn, i # 1 PROVE undrawn[i] \in ToSet(Tail(undrawn))
    BY <1>1, <1>2 DEF ToSet
  <2>1. i - 1 \in 1..(Len(undrawn) - 1) /\ (i - 1) + 1 = i
    BY <1>2
  <2> QED  BY <2>1, <1>2 DEF ToSet
<1>4. /\ edges' = edges \cup EdgesOf(Id)
      /\ inbound \subseteq inbound' /\ outbound \subseteq outbound'
      /\ Direction(Id) \in {"Inbound", "Bidirectional"} => Id \in inbound'
      /\ Direction(Id) \in {"Outbound", "Bidirectional"} => Id \in outbound'
  <2>1. CASE Direction(Id) = "Inbound"
    BY <2>1 DEF CollectMsgEdges, Draws, EdgesOf
  <2>2. CASE Direction(Id) = "Outbound"
    BY <2>2 DEF CollectMsgEdges, Draws, EdgesOf
  <2>3. CASE Direction(Id) = "Bidirectional"
    BY <2>3 DEF CollectMsgEdges, Draws, EdgesOf
  <2>4. CASE Direction(Id) \notin {"Inbound", "Outbound", "Bidirectional"}
    BY <2>4 DEF CollectMsgEdges, Draws, EdgesOf
  <2> QED  BY <2>1, <2>2, <2>3, <2>4
<1>5. \A m \in ToSet(MsgIds) : m \in ToSet(undrawn') \/ Drawn(m)'
  <2> TAKE m \in ToSet(MsgIds)
  <2>1. m \in ToSet(undrawn) \/ Drawn(m)
    BY DEF DInv
  <2>2. Drawn(m) => Drawn(m)'
    BY <1>4 DEF Drawn
  <2>3. m = Id => Drawn(m)'
    BY <1>4 DEF Drawn
  <2> QED  BY <1>3, <2>1, <2>2, <2>3
<1>6. \A e \in edges' : e \in EdgesOf(e[3])
  BY <1>4, EdgesAreNamed DEF DInv
<1> QED  BY <1>1, <1>2, <1>5, <1>6 DEF DInv
LEMMA DInvIsInductive ==
    ASSUME WellNested
    PROVE  /\ Init => DInv
           /\ DInv /\ [Next]_vars => DInv'
<1>1. Init => DInv
  <2> SUFFICES ASSUME Init PROVE DInv
    OBVIOUS
  <2>1. undrawn = MsgIds /\ edges = {}
    BY DEF Init, DocsInit
  <2>2. IsSeq(MsgIds)
    BY SeqIsSeq DEF WellNested
  <2> QED  BY <2>1, <2>2 DEF DInv
<1>2. ASSUME DInv, [Next]_vars PROVE DInv'
  <2>1. CASE CollectMsgEdges
    BY <1>2, <2>1, CollectMsgEdges_Keeps
  <2>2. CASE UNCHANGED <<undrawn, edges, inbound, outbound>>
    BY <1>2, <2>2 DEF DInv, Drawn
  <2>3. CASE BeginSection \/ Describe \/ TableEnds
    BY <2>2, <2>3 DEF BeginSection, Describe, TableEnds
  <2>4. CASE UNCHANGED docs
    BY <2>2, <2>4 DEF docs
  <2> QED  BY <1>2, <2>1, <2>3, <2>4 DEF Next, DocsNext, vars
<1> QED  BY <1>1, <1>2

\* What the declarations make of the direction of a message.
LEMMA Directions ==
    ASSUME DeclaredAsSent, NEW m \in BusMessages
    PROVE  /\ Authorized(m) => Direction(m) \in {"Inbound", "Bidirectional"}
           /\ PySubscribes(m) => Direction(m) \in {"Outbound", "Bidirectional"}
           /\ m \notin OnWire => Direction(m) = "Internal"
<1>1. PyPublishes(m) => CxxSubscribes(m)
  BY DEF DeclaredAsSent
<1>2. PySubscribes(m) => CxxPublishes(m)
  BY DEF DeclaredAsSent
<1>3. Authorized(m) <=> PyPublishes(m)
  BY DEF DeclaredAsSent
<1>4. m \notin OnWire => ~PyPublishes(m) /\ ~PySubscribes(m)
  BY <1>3 DEF OnWire, Authorized, PySubscribes
<1> QED  BY <1>1, <1>2, <1>3, <1>4 DEF Direction, IsInbound, IsOutbound

\* The finished diagram has the edges from the bridge to all who take what it injects, those
\* to the bridge from all who send what it forwards, and of a message that never crosses the
\* bridge exactly those from a sender to a receiver.  It claims no edge between services for
\* a message that also crosses (collect_msg_edges, doc_generator.h).
THEOREM DiagramShowsTraffic ==
    ASSUME WellNested, DeclaredAsSent PROVE Spec => []TrafficDrawn
<1>1. DInv => TrafficDrawn
  <2> SUFFICES ASSUME DInv, undrawn = <<>>, NEW m \in BusMessages
               PROVE  LET senders == { s \in Internal : m \in Sends(s) }
                          between == { <<e[1], e[2]>> : e \in { x \in edges : x[3] = m } }
                      IN  /\ Authorized(m) =>
                               /\ {"UdpBridge"} \X SubscribersOf(m) \subseteq between
                               /\ m \in inbound
                          /\ PySubscribes(m) =>
                               senders \X {"UdpBridge"} \subseteq between /\ m \in outbound
                          /\ m \notin OnWire => between = senders \X SubscribersOf(m)
    BY DEF TrafficDrawn
  <2> DEFINE senders == { s \in Internal : m \in Sends(s) }
             between == { <<e[1], e[2]>> : e \in { x \in edges : x[3] = m } }
  <2>1. senders = PublishersOf(m)
    BY DEF DeclaredAsSent, PublishersOf
  <2>2. Drawn(m)
    BY DEF DInv, DeclaredAsSent, ToSet
  <2>3. \A e \in EdgesOf(m) : <<e[1], e[2]>> \in between
    BY <2>2, EdgesAreNamed DEF Drawn
  <2>4. \A b \in between : \E e \in EdgesOf(m) : b = <<e[1], e[2]>>
    BY DEF DInv
  <2> HIDE DEF between, senders
  <2>5. ASSUME Authorized(m) PROVE {"UdpBridge"} \X SubscribersOf(m) \subseteq between /\ m \in inbound
    <3>1. Direction(m) \in {"Inbound", "Bidirectional"}
      BY <2>5, Directions
    <3>2. InboundEdges(m) \subseteq EdgesOf(m)
      BY <3>1 DEF EdgesOf
    <3>3. \A s \in SubscribersOf(m) : <<"UdpBridge", s>> \in between
      <4> TAKE s \in SubscribersOf(m)
      <4>1. <<"UdpBridge", s, m>> \in EdgesOf(m)
        BY <3>2 DEF InboundEdges
      <4> QED  BY <4>1, <2>3
    <3> QED  BY <3>1, <3>3, <2>2 DEF Drawn
  <2>6. ASSUME PySubscribes(m) PROVE senders \X {"UdpBridge"} \subseteq between /\ m \in outbound
    <3>1. Direction(m) \in {"Outbound", "Bidirectional"}
      BY <2>6, Directions
    <3>2. OutboundEdges(m) \subseteq EdgesOf(m)
      BY <3>1 DEF EdgesOf
    <3>3. \A p \in senders : <<p, "UdpBridge">> \in between
      <4> TAKE p \in senders
      <4>1. <<p, "UdpBridge", m>> \in EdgesOf(m)
        BY <2>1, <3>2 DEF OutboundEdges
      <4> QED  BY <4>1, <2>3
    <3> QED  BY <3>1, <3>3, <2>2 DEF Drawn
  <2>7. ASSUME m \notin OnWire PROVE between = senders \X SubscribersOf(m)
    <3>1. EdgesOf(m) = InternalEdges(m)
      BY <2>7, Directions DEF EdgesOf
    <3>2. \A e \in EdgesOf(m) : <<e[1], e[2]>> \in senders \X SubscribersOf(m)
      BY <2>1, <3>1 DEF InternalEdges
    <3>3. \A p \in senders, s \in SubscribersOf(m) : <<p, s>> \in between
      <4> TAKE p \in senders, s \in SubscribersOf(m)
      <4>1. <<p, s, m>> \in EdgesOf(m)
        BY <2>1, <3>1 DEF InternalEdges
      <4> QED  BY <4>1, <2>3
    <3> QED  BY <2>4, <3>2, <3>3
  <2> QED  BY <2>5, <2>6, <2>7 DEF between, senders
<1> QED  BY <1>1, DInvIsInductive, PTL DEF Spec
-----------------------------------------------------------------------------
(***************************************************************************)
(* Each section stands alone.                                              *)
(***************************************************************************)
IsSection(sec) ==
    sec = [id |-> sec.id, direction |-> sec.direction, publishers |-> sec.publishers,
           subscribers |-> sec.subscribers, tables |-> sec.tables]

Shown(sec) == { sec.tables[k].class : k \in DOMAIN sec.tables }

PayloadOf(sec) == Struct(Payload[sec.id])

\* A table in progress has described the classes of the fields behind it.
TableOK(table, shown) ==
    /\ table = [class |-> table.class, at |-> table.at]
    /\ table.class \in shown
    /\ table.at \in Nat \ {0}
    /\ \A k \in DOMAIN FieldsOf(table.class) :
           k < table.at => ClassesOf(FieldsOf(table.class)[k]) \subseteq shown

\* A section has one table for each class it shows, which are its payload and those
\* described, all of them needed; what is needed for one of them is shown, or its table
\* is still in progress.
SectionOK(sec, frames, seen) ==
    /\ IsSection(sec) /\ sec.id \in ToSet(MsgIds) /\ IsSeq(sec.tables)
    /\ Shown(sec) = seen \cup {PayloadOf(sec)} /\ PayloadOf(sec) \notin seen
    /\ Shown(sec) \subseteq Needed({PayloadOf(sec)})
    /\ IsFiniteSet(Shown(sec)) /\ Cardinality(Shown(sec)) = Len(sec.tables)
    /\ IsSeq(frames)
    /\ \A i \in DOMAIN frames : TableOK(frames[i], Shown(sec))
    /\ \A c \in Shown(sec) : Uses(c) \subseteq Shown(sec) \/ \E i \in DOMAIN frames : frames[i].class = c

Complete(sec) ==
    /\ IsSeq(sec.tables)
    /\ Shown(sec) = Needed({PayloadOf(sec)})
    /\ Cardinality(Shown(sec)) = Len(sec.tables)

SInv ==
    /\ IsSeq(sections) /\ IsSeq(unwritten) /\ ToSet(unwritten) \subseteq ToSet(MsgIds)
    /\ \A i \in DOMAIN sections : i < Len(sections) => Complete(sections[i])
    /\ sections # <<>> => SectionOK(sections[Len(sections)], tables, described)
    /\ sections = <<>> => tables = <<>>

\* A set that contains what its members use contains all that is needed.
LEMMA NeededIsLeast ==
    ASSUME NEW s, \A c \in s : Uses(c) \subseteq s, NEW r \in s PROVE Needed({r}) \subseteq s
<1>1. \A x : x \subseteq s => WithUses(x) \subseteq s
  BY DEF WithUses
<1>2. {r} \subseteq s
  OBVIOUS
<1> QED  BY <1>1, <1>2 DEF Needed

\* What needs nothing else is needed by itself.
LEMMA NeedsItself == \A r : r \in Needed({r})
<1>1. \A x, y : y \in x => y \in WithUses(x)
  BY DEF WithUses
<1> QED  BY <1>1 DEF Needed

\* A section without a table in progress is complete.
LEMMA NoTableLeft ==
    ASSUME NEW sec, NEW seen, SectionOK(sec, <<>>, seen) PROVE Complete(sec)
<1>1. \A c \in Shown(sec) : Uses(c) \subseteq Shown(sec)
  BY DEF SectionOK
<1>2. PayloadOf(sec) \in Shown(sec)
  BY DEF SectionOK
<1>3. Needed({PayloadOf(sec)}) \subseteq Shown(sec)
  BY <1>1, <1>2, NeededIsLeast
<1> QED  BY <1>3 DEF SectionOK, Complete

\* A field uses one class at most.
LEMMA OneClass == ASSUME NEW f, NEW c \in ClassesOf(f) PROVE ClassesOf(f) = {c}
BY DEF ClassesOf
\* What SelfContained says of a class that a section shows.
LEMMA ShownIsContained ==
    ASSUME SelfContained, NEW sec, NEW frames, NEW seen, SectionOK(sec, frames, seen),
           NEW c \in Shown(sec)
    PROVE  /\ Uses(c) \subseteq Needed({PayloadOf(sec)}) /\ PayloadOf(sec) \notin Uses(c)
           /\ DOMAIN FieldsOf(c) = 1..Len(FieldsOf(c)) /\ Len(FieldsOf(c)) \in Nat
           /\ DOMAIN FieldsOf(c) \subseteq Nat
<1>1. sec.id \in ToSet(MsgIds) /\ c \in Needed({PayloadOf(sec)})
  BY DEF SectionOK
<1>2. /\ Uses(c) \subseteq Needed({PayloadOf(sec)}) /\ PayloadOf(sec) \notin Uses(c)
      /\ IsSeq(FieldsOf(c))
  BY <1>1 DEF SelfContained, PayloadOf, IsSeq
<1> QED  BY <1>2, SeqDomain

\* The table on top goes on to its next field, whose classes are shown now.
LEMMA TableMoves ==
    ASSUME NEW f, NEW shown, NEW more, TableOK(f, shown), shown \subseteq more,
           ClassesOf(FieldsOf(f.class)[f.at]) \subseteq more, DOMAIN FieldsOf(f.class) \subseteq Nat
    PROVE  TableOK([f EXCEPT !.at = @ + 1], more) /\ [f EXCEPT !.at = @ + 1].class = f.class
<1> DEFINE a == f.at + 1
<1>1. f = [class |-> f.class, at |-> f.at] /\ f.at \in Nat \ {0}
  BY DEF TableOK
<1>2. a \in Nat \ {0} /\ \A k \in Nat : k < a => k < f.at \/ k = f.at
  BY <1>1
<1>3. \A k \in DOMAIN FieldsOf(f.class) : k < a => ClassesOf(FieldsOf(f.class)[k]) \subseteq more
  BY <1>2 DEF TableOK
<1> HIDE DEF a
<1> DEFINE r == [f EXCEPT !.at = a]
<1>4. r = [class |-> f.class, at |-> a]
  BY <1>1
<1> HIDE DEF r
<1>5. r.class = f.class /\ r.at = a
  BY <1>4
<1>6. f.class \in more
  BY DEF TableOK
<1>7. TableOK(r, more)
  BY <1>2, <1>3, <1>4, <1>5, <1>6 DEF TableOK
<1> QED  BY <1>5, <1>7 DEF r, a

LEMMA TableStays ==
    ASSUME NEW f, NEW shown, NEW more, TableOK(f, shown), shown \subseteq more
    PROVE  TableOK(f, more)
BY DEF TableOK

\* A table that has come to its end has described all that its class uses.
LEMMA TableDone ==
    ASSUME SelfContained, NEW sec, NEW frames, NEW seen, SectionOK(sec, frames, seen),
           frames # <<>>, Head(frames).at > Len(FieldsOf(Head(frames).class))
    PROVE  SectionOK(sec, Tail(frames), seen)
<1> DEFINE f == Head(frames)
           r == Tail(frames)
<1>1. IsSeq(frames)
  BY DEF SectionOK
<1>2. /\ IsSeq(r) /\ DOMAIN frames = 1..Len(frames) /\ DOMAIN r = 1..(Len(frames) - 1)
      /\ Len(frames) \in Nat \ {0} /\ f = frames[1]
      /\ \A i \in 1..(Len(frames) - 1) : r[i] = frames[i + 1]
  BY <1>1, Pops
<1>3. TableOK(f, Shown(sec))
  <2>1. 1 \in DOMAIN frames
    BY <1>2
  <2> QED  BY <1>2, <2>1 DEF SectionOK
<1> HIDE DEF r
<1>4. \A i \in DOMAIN r : i + 1 \in DOMAIN frames /\ r[i] = frames[i + 1]
  BY <1>2
<1>5. \A i \in DOMAIN frames \ {1} : i - 1 \in DOMAIN r /\ r[i - 1] = frames[i]
  <2> TAKE i \in DOMAIN frames \ {1}
  <2>1. i - 1 \in 1..(Len(frames) - 1) /\ (i - 1) + 1 = i
    BY <1>2
  <2> QED  BY <2>1, <1>2
<1>6. Uses(f.class) \subseteq Shown(sec)
  <2>1. f.class \in Shown(sec) /\ f.at \in Nat
    BY <1>3 DEF TableOK
  <2>2. DOMAIN FieldsOf(f.class) = 1..Len(FieldsOf(f.class)) /\ Len(FieldsOf(f.class)) \in Nat
    BY <2>1, ShownIsContained
  <2>3. f.at > Len(FieldsOf(f.class))
    OBVIOUS
  <2> HIDE DEF f
  <2>4. \A k \in DOMAIN FieldsOf(f.class) : k < f.at
    BY <2>1, <2>2, <2>3
  <2> QED  BY <1>3, <2>4 DEF TableOK, Uses
<1>7. \A c \in Shown(sec) : Uses(c) \subseteq Shown(sec) \/ \E i \in DOMAIN r : r[i].class = c
  <2> TAKE c \in Shown(sec)
  <2>1. Uses(c) \subseteq Shown(sec) \/ \E i \in DOMAIN frames : frames[i].class = c
    BY DEF SectionOK
  <2>2. CASE Uses(c) \subseteq Shown(sec)
    BY <2>2
  <2>3. ASSUME NEW i \in DOMAIN frames, frames[i].class = c
        PROVE  Uses(c) \subseteq Shown(sec) \/ \E k \in DOMAIN r : r[k].class = c
    <3>1. CASE i = 1
      BY <1>2, <1>6, <2>3, <3>1
    <3>2. CASE i # 1
      BY <1>5, <2>3, <3>2
    <3> QED  BY <3>1, <3>2
  <2> QED  BY <2>1, <2>2, <2>3
<1>8. \A i \in DOMAIN r : TableOK(r[i], Shown(sec))
  BY <1>4 DEF SectionOK
<1>9. SectionOK(sec, r, seen)
  BY <1>2, <1>7, <1>8 DEF SectionOK
<1> QED  BY <1>9 DEF r

\* The class of the field has a table already, or needs none.
LEMMA FieldIsKnown ==
    ASSUME SelfContained, NEW sec, NEW frames, NEW seen, SectionOK(sec, frames, seen),
           frames # <<>>, ClassesOf(FieldsOf(Head(frames).class)[Head(frames).at]) \subseteq seen
    PROVE  SectionOK(sec, <<[Head(frames) EXCEPT !.at = @ + 1]>> \o Tail(frames), seen)
<1> DEFINE f == Head(frames)
           g == [f EXCEPT !.at = @ + 1]
           r == <<g>> \o Tail(frames)
<1>1. IsSeq(frames)
  BY DEF SectionOK
<1>2. /\ IsSeq(r) /\ DOMAIN r = DOMAIN frames /\ r[1] = g
      /\ \A i \in DOMAIN frames \ {1} : r[i] = frames[i]
  BY <1>1, Exchanges
<1>3. f = frames[1] /\ 1 \in DOMAIN frames
  BY <1>1, Pops
<1>4. TableOK(f, Shown(sec))
  BY <1>3 DEF SectionOK
<1>5. f.class \in Shown(sec)
  BY <1>4 DEF TableOK
<1>6. DOMAIN FieldsOf(f.class) \subseteq Nat
  BY <1>5, ShownIsContained
<1>7. ClassesOf(FieldsOf(f.class)[f.at]) \subseteq Shown(sec)
  BY DEF SectionOK
<1> HIDE DEF f
<1>8. TableOK(g, Shown(sec)) /\ g.class = f.class
  BY <1>4, <1>6, <1>7, TableMoves
<1> HIDE DEF g, r
<1>9. \A i \in DOMAIN r : TableOK(r[i], Shown(sec)) /\ r[i].class = frames[i].class
  BY <1>2, <1>3, <1>8 DEF SectionOK
<1>10. SectionOK(sec, r, seen)
  BY <1>2, <1>9 DEF SectionOK
<1> QED  BY <1>10 DEF r, g, f
\* The class of the field gets a table of its own.
LEMMA FieldIsNew ==
    ASSUME SelfContained, NEW sec, NEW frames, NEW seen, SectionOK(sec, frames, seen),
           frames # <<>>, NEW c,
           Head(frames).at \in DOMAIN FieldsOf(Head(frames).class),
           ClassesOf(FieldsOf(Head(frames).class)[Head(frames).at]) = {c}, c \notin seen
    PROVE  LET rest == <<[Head(frames) EXCEPT !.at = @ + 1]>> \o Tail(frames)
           IN  SectionOK([sec EXCEPT !.tables = Append(@, Table(c))],
                         <<[class |-> c, at |-> 1]>> \o rest, seen \cup {c})
<1> DEFINE f == Head(frames)
           g == [f EXCEPT !.at = @ + 1]
           rest == <<g>> \o Tail(frames)
           new == [class |-> c, at |-> 1]
           r == <<new>> \o rest
           t == Append(sec.tables, Table(c))
           longer == [sec EXCEPT !.tables = t]
           more == Shown(sec) \cup {c}
<1>1. IsSeq(frames)
  BY DEF SectionOK
<1>2. /\ IsSeq(rest) /\ DOMAIN rest = DOMAIN frames /\ rest[1] = g
      /\ \A i \in DOMAIN frames \ {1} : rest[i] = frames[i]
  BY <1>1, Exchanges
<1>3. f = frames[1] /\ 1 \in DOMAIN frames
  BY <1>1, Pops
<1>4. TableOK(f, Shown(sec))
  BY <1>3 DEF SectionOK
<1>5. f.class \in Shown(sec)
  BY <1>4 DEF TableOK
<1>6. f.at \in DOMAIN FieldsOf(f.class) /\ ClassesOf(FieldsOf(f.class)[f.at]) = {c}
  OBVIOUS
<1> HIDE DEF f
<1>7. /\ DOMAIN FieldsOf(f.class) \subseteq Nat
      /\ Uses(f.class) \subseteq Needed({PayloadOf(sec)}) /\ PayloadOf(sec) \notin Uses(f.class)
  BY <1>5, ShownIsContained
<1>8. c \in Uses(f.class)
  BY <1>6 DEF Uses
<1>9. c \in Needed({PayloadOf(sec)}) /\ c # PayloadOf(sec) /\ c \notin Shown(sec)
  BY <1>7, <1>8 DEF SectionOK
<1>10. TableOK(g, more) /\ g.class = f.class
  BY <1>4, <1>6, <1>7, TableMoves
<1> HIDE DEF g, rest
<1>11. /\ IsSeq(r) /\ DOMAIN r = 1..(Len(rest) + 1) /\ r[1] = new /\ Len(rest) \in Nat
       /\ DOMAIN rest = 1..Len(rest)
       /\ \A i \in 1..Len(rest) : r[i + 1] = rest[i]
  BY <1>2, Pushes
<1>12. \A i \in DOMAIN rest : TableOK(rest[i], more) /\ rest[i].class = frames[i].class
  <2> TAKE i \in DOMAIN rest
  <2>1. CASE i = 1
    BY <1>2, <1>3, <1>10, <2>1
  <2>2. CASE i # 1
    <3>1. rest[i] = frames[i] /\ TableOK(frames[i], Shown(sec))
      BY <1>2, <2>2 DEF SectionOK
    <3> QED  BY <3>1, TableStays
  <2> QED  BY <2>1, <2>2
<1>13. TableOK(new, more) /\ new.class = c
  <2>1. IsSeq(FieldsOf(c))
    BY <1>9 DEF SelfContained, SectionOK, PayloadOf, IsSeq
  <2>2. DOMAIN FieldsOf(c) = 1..Len(FieldsOf(c)) /\ Len(FieldsOf(c)) \in Nat
    BY <2>1, SeqDomain
  <2>3. \A k \in DOMAIN FieldsOf(c) : ~(k < 1)
    BY <2>2
  <2> QED  BY <2>3 DEF TableOK
<1> HIDE DEF new, r
<1>14. \A i \in DOMAIN r : i = 1 \/ (i - 1 \in DOMAIN rest /\ r[i] = rest[i - 1])
  <2> TAKE i \in DOMAIN r
  <2>1. i # 1 => i - 1 \in 1..Len(rest) /\ (i - 1) + 1 = i
    BY <1>11
  <2> QED  BY <2>1, <1>11
<1>15. \A i \in DOMAIN r : TableOK(r[i], more)
  BY <1>11, <1>12, <1>13, <1>14
<1>16. \A x \in more : Uses(x) \subseteq more \/ \E i \in DOMAIN r : r[i].class = x
  <2> TAKE x \in more
  <2>1. CASE x = c
    <3>1. 1 \in DOMAIN r
      BY <1>11
    <3> QED  BY <1>11, <1>13, <2>1, <3>1
  <2>2. ASSUME NEW i \in DOMAIN frames, frames[i].class = x
        PROVE  \E k \in DOMAIN r : r[k].class = x
    <3>1. i \in DOMAIN rest /\ rest[i].class = x
      BY <1>2, <1>12, <2>2
    <3>2. i + 1 \in DOMAIN r /\ r[i + 1] = rest[i]
      BY <1>11, <3>1
    <3> QED  BY <3>1, <3>2
  <2>3. x # c => Uses(x) \subseteq Shown(sec) \/ \E i \in DOMAIN frames : frames[i].class = x
    BY DEF SectionOK
  <2> QED  BY <2>1, <2>2, <2>3
<1>17. IsSeq(sec.tables) /\ IsSection(sec)
  BY DEF SectionOK
<1>18. /\ IsSeq(t) /\ Len(t) = Len(sec.tables) + 1 /\ Len(sec.tables) \in Nat
       /\ DOMAIN sec.tables = 1..Len(sec.tables) /\ DOMAIN t = 1..(Len(sec.tables) + 1)
       /\ t[Len(sec.tables) + 1] = Table(c)
       /\ \A k \in DOMAIN sec.tables : t[k] = sec.tables[k]
  BY <1>17, Appends
<1> HIDE DEF t
<1>19. longer = [id |-> sec.id, direction |-> sec.direction, publishers |-> sec.publishers,
                 subscribers |-> sec.subscribers, tables |-> t]
  BY <1>17 DEF IsSection
<1> HIDE DEF longer
<1>20. IsSection(longer) /\ longer.id = sec.id /\ longer.tables = t
  BY <1>19 DEF IsSection
<1>21. Shown(longer) = more
  <2>1. \A k \in DOMAIN t : k = Len(sec.tables) + 1 \/ k \in DOMAIN sec.tables
    BY <1>18
  <2>2. Len(sec.tables) + 1 \in DOMAIN t /\ DOMAIN sec.tables \subseteq DOMAIN t
    BY <1>18
  <2>3. Table(c).class = c
    BY DEF Table
  <2> QED  BY <1>18, <1>20, <2>1, <2>2, <2>3 DEF Shown
<1>22. PayloadOf(longer) = PayloadOf(sec)
  BY <1>20 DEF PayloadOf
<1>23. IsFiniteSet(more) /\ Cardinality(more) = Len(t)
  <2>1. IsFiniteSet(Shown(sec)) /\ Cardinality(Shown(sec)) = Len(sec.tables)
    BY DEF SectionOK
  <2>2. IsFiniteSet(Shown(sec) \cup {c}) /\ Cardinality(Shown(sec) \cup {c}) = Cardinality(Shown(sec)) + 1
    BY <1>9, <2>1, FS_AddElement
  <2> QED  BY <1>18, <2>1, <2>2
<1>24. /\ sec.id \in ToSet(MsgIds) /\ more = (seen \cup {c}) \cup {PayloadOf(sec)}
       /\ PayloadOf(sec) \notin seen \cup {c} /\ more \subseteq Needed({PayloadOf(sec)})
  BY <1>9 DEF SectionOK
<1> HIDE DEF more
<1>25. SectionOK(longer, r, seen \cup {c})
  BY <1>11, <1>15, <1>16, <1>18, <1>20, <1>21, <1>22, <1>23, <1>24 DEF SectionOK
<1> QED  BY <1>25 DEF longer, t, r, new, rest, g, f
\* A step that only works on the last section keeps the invariant if it keeps that one.
LEMMA LastSection ==
    ASSUME SInv, sections # <<>>, NEW sec, UNCHANGED unwritten,
           \/ UNCHANGED sections /\ sec = sections[Len(sections)]
           \/ sections' = [sections EXCEPT ![Len(sections)] = sec],
           SectionOK(sec, tables', described')
    PROVE  SInv'
<1>1. IsSeq(sections) /\ IsSeq(unwritten) /\ ToSet(unwritten) \subseteq ToSet(MsgIds)
  BY DEF SInv
<1>2. DOMAIN sections = 1..Len(sections) /\ Len(sections) \in Nat
  BY <1>1, SeqDomain
<1>3. Len(sections) # 0
  BY <1>1 DEF IsSeq
<1> DEFINE n == Len(sections)
           T == ToSet(sections) \cup {sec}
<1>4. n \in DOMAIN sections
  BY <1>2, <1>3
<1>5. sections \in Seq(T) /\ sec \in T
  BY <1>1 DEF IsSeq
<1> HIDE DEF T
<1>6. [sections EXCEPT ![n] = sec] \in Seq(T) /\ Len([sections EXCEPT ![n] = sec]) = n
  BY <1>2, <1>4, <1>5
<1>7. IsSeq(sections') /\ Len(sections') = n /\ sections' # <<>>
  <2>1. CASE UNCHANGED sections
    BY <1>1, <2>1
  <2>2. CASE sections' = [sections EXCEPT ![n] = sec]
    BY <1>2, <1>3, <1>6, <2>2, SeqIsSeq
  <2> QED  BY <2>1, <2>2
<1>8. sections'[n] = sec /\ \A i \in DOMAIN sections : i # n => sections'[i] = sections[i]
  BY <1>4
<1>9. DOMAIN sections' = DOMAIN sections
  BY <1>2, <1>7, SeqDomain
<1>10. \A i \in DOMAIN sections' : i < Len(sections') => Complete(sections'[i])
  <2> SUFFICES ASSUME NEW i \in DOMAIN sections, i < n PROVE Complete(sections'[i])
    BY <1>7, <1>9
  <2>1. i # n /\ Complete(sections[i])
    BY <1>2 DEF SInv
  <2> QED  BY <1>8, <2>1
<1>11. SectionOK(sections'[Len(sections')], tables', described')
  BY <1>7, <1>8
<1> QED  BY <1>1, <1>7, <1>10, <1>11 DEF SInv

LEMMA TableEnds_Keeps ==
    ASSUME SelfContained, SInv, TableEnds PROVE SInv'
<1>1. /\ tables # <<>> /\ Head(tables).at > Len(FieldsOf(Head(tables).class))
      /\ tables' = Tail(tables) /\ UNCHANGED <<unwritten, described, sections>>
  BY DEF TableEnds, InTable
<1>2. sections # <<>> /\ SectionOK(sections[Len(sections)], tables, described)
  BY <1>1 DEF SInv
<1>3. SectionOK(sections[Len(sections)], tables', described')
  BY <1>1, <1>2, TableDone
<1> QED  BY <1>1, <1>2, <1>3, LastSection

LEMMA Describe_Keeps ==
    ASSUME SelfContained, SInv, Describe PROVE SInv'
<1> DEFINE f == FieldsOf(InTable.class)[InTable.at]
           new == ClassesOf(f) \ described
           rest == <<[InTable EXCEPT !.at = @ + 1]>> \o Tail(tables)
           c == CHOOSE x \in new : TRUE
           sec == sections[Len(sections)]
<1>1. /\ tables # <<>> /\ InTable.at <= Len(FieldsOf(InTable.class))
      /\ described' = described \cup new /\ UNCHANGED unwritten
      /\ new = {} => tables' = rest /\ UNCHANGED sections
      /\ new # {} => /\ tables' = <<[class |-> c, at |-> 1]>> \o rest
                     /\ sections' = [sections EXCEPT ![Len(sections)].tables = Append(@, Table(c))]
  BY DEF Describe
<1>2. sections # <<>> /\ SectionOK(sec, tables, described)
  BY <1>1 DEF SInv
<1>3. IsSeq(tables)
  BY <1>2 DEF SectionOK
<1>4. InTable = tables[1] /\ 1 \in DOMAIN tables
  BY <1>1, <1>3, Pops DEF InTable
<1>5. InTable.class \in Shown(sec) /\ InTable.at \in Nat \ {0}
  BY <1>2, <1>4 DEF SectionOK, TableOK
<1>6. /\ DOMAIN FieldsOf(InTable.class) = 1..Len(FieldsOf(InTable.class))
      /\ Len(FieldsOf(InTable.class)) \in Nat
  BY <1>2, <1>5, ShownIsContained
<1>7. InTable.at \in DOMAIN FieldsOf(InTable.class)
  BY <1>1, <1>5, <1>6
<1> HIDE DEF c, sec, rest
<1>8. CASE new = {}
  <2>1. ClassesOf(f) \subseteq described /\ described' = described
    BY <1>1, <1>8
  <2>2. SectionOK(sec, rest, described)
    BY <1>1, <1>2, <2>1, FieldIsKnown DEF rest, InTable
  <2> QED  BY <1>1, <1>2, <1>8, <2>1, <2>2, LastSection DEF sec
<1>9. CASE new # {}
  <2>1. c \in new
    BY <1>9 DEF c
  <2>2. ClassesOf(f) = {c} /\ c \notin described /\ described' = described \cup {c}
    <3>1. c \in ClassesOf(f) /\ c \notin described
      BY <2>1
    <3>2. ClassesOf(f) = {c}
      BY <3>1, OneClass
    <3> QED  BY <1>1, <3>1, <3>2
  <2> DEFINE longer == [sec EXCEPT !.tables = Append(@, Table(c))]
  <2>3. SectionOK(longer, tables', described')
    <3> DEFINE frames == <<[class |-> c, at |-> 1]>> \o rest
               seen == described \cup {c}
    <3>1. /\ tables # <<>> /\ Head(tables).at \in DOMAIN FieldsOf(Head(tables).class)
          /\ ClassesOf(FieldsOf(Head(tables).class)[Head(tables).at]) = {c}
      BY <1>1, <1>7, <2>2 DEF InTable
    <3>2. SectionOK(longer, frames, seen)
      <4> HIDE DEF f, new
      <4> QED  BY <1>2, <2>2, <3>1, FieldIsNew DEF rest, InTable
    <3>3. tables' = frames /\ described' = seen
      BY <1>1, <1>9, <2>2
    <3> HIDE DEF frames, seen, longer
    <3> QED  BY <3>2, <3>3
  <2>4. sections' = [sections EXCEPT ![Len(sections)] = longer]
    BY <1>1, <1>9 DEF sec
  <2> HIDE DEF longer
  <2> QED  BY <1>1, <1>2, <2>3, <2>4, LastSection
<1> QED  BY <1>8, <1>9

\* A section begins with the table of its payload.
LEMMA BeginSection_Keeps ==
    ASSUME SelfContained, SInv, BeginSection PROVE SInv'
<1> DEFINE m == Head(unwritten)
           sec == Section(m)
           root == Struct(Payload[m])
           frame == [class |-> root, at |-> 1]
           table == Table(root)
<1>1. /\ tables = <<>> /\ unwritten # <<>> /\ described' = {} /\ tables' = <<frame>>
      /\ sections' = Append(sections, sec) /\ unwritten' = Tail(unwritten)
  BY DEF BeginSection
<1>2. IsSeq(sections) /\ IsSeq(unwritten) /\ ToSet(unwritten) \subseteq ToSet(MsgIds)
  BY DEF SInv
<1>3. /\ IsSeq(unwritten') /\ ToSet(unwritten') \subseteq ToSet(MsgIds) /\ m \in ToSet(MsgIds)
  <2>1. unwritten \in Seq(ToSet(MsgIds))
    BY <1>2 DEF IsSeq
  <2>2. unwritten' \in Seq(ToSet(MsgIds)) /\ m \in ToSet(MsgIds)
    BY <1>1, <2>1
  <2> QED  BY <2>2, SeqIsSeq
<1> HIDE DEF m
<1>4. sec = [id |-> m, direction |-> Direction(m), publishers |-> PublishersOf(m),
             subscribers |-> SubscribersOf(m), tables |-> <<table>>]
  BY DEF Section
<1> HIDE DEF sec, table
<1>5. IsSection(sec) /\ sec.id = m /\ sec.tables = <<table>>
  BY <1>4 DEF IsSection
<1>6. PayloadOf(sec) = root
  BY <1>5 DEF PayloadOf
<1>7. table.class = root
  BY DEF table, Table
<1>8. Shown(sec) = {root} /\ IsSeq(sec.tables) /\ Len(sec.tables) = 1
  <2>1. IsSeq(<<table>>)
    BY DEF IsSeq, ToSet
  <2>2. DOMAIN <<table>> = {1} /\ <<table>>[1] = table /\ Len(<<table>>) = 1
    OBVIOUS
  <2> QED  BY <1>5, <1>7, <2>1, <2>2 DEF Shown
<1>9. IsFiniteSet({root}) /\ Cardinality({root}) = 1
  BY FS_Singleton
<1>10. root \in Needed({root})
  BY NeedsItself
<1> HIDE DEF root
<1>11. TableOK(frame, {root})
  <2>1. IsSeq(FieldsOf(root))
    BY <1>3, <1>10 DEF SelfContained, root, IsSeq
  <2>2. DOMAIN FieldsOf(root) = 1..Len(FieldsOf(root)) /\ Len(FieldsOf(root)) \in Nat
    BY <2>1, SeqDomain
  <2>3. \A k \in DOMAIN FieldsOf(root) : ~(k < 1)
    BY <2>2
  <2> QED  BY <2>3 DEF TableOK
<1>12. frame.class = root
  OBVIOUS
<1> HIDE DEF frame
<1>13. IsSeq(<<frame>>) /\ DOMAIN <<frame>> = {1} /\ <<frame>>[1] = frame
  BY DEF IsSeq, ToSet
<1>14. SectionOK(sec, <<frame>>, {})
  BY <1>3, <1>5, <1>6, <1>8, <1>9, <1>10, <1>11, <1>12, <1>13 DEF SectionOK
<1>15. /\ IsSeq(sections') /\ Len(sections') = Len(sections) + 1 /\ Len(sections) \in Nat
       /\ DOMAIN sections = 1..Len(sections) /\ DOMAIN sections' = 1..(Len(sections) + 1)
       /\ sections'[Len(sections) + 1] = sec
       /\ \A i \in DOMAIN sections : sections'[i] = sections[i]
  BY <1>1, <1>2, Appends
<1>16. \A i \in DOMAIN sections : Complete(sections[i])
  <2> TAKE i \in DOMAIN sections
  <2>1. CASE i < Len(sections)
    BY <2>1 DEF SInv
  <2>2. CASE ~(i < Len(sections))
    <3>1. i = Len(sections)
      BY <1>15, <2>2
    <3>2. sections # <<>>
      BY <1>15
    <3>3. SectionOK(sections[i], <<>>, described)
      BY <1>1, <3>1, <3>2 DEF SInv
    <3> QED  BY <3>3, NoTableLeft
  <2> QED  BY <2>1, <2>2
<1>17. \A i \in DOMAIN sections' : i < Len(sections') => Complete(sections'[i])
  <2> SUFFICES ASSUME NEW i \in DOMAIN sections', i < Len(sections') PROVE Complete(sections'[i])
    OBVIOUS
  <2>1. i \in DOMAIN sections
    BY <1>15
  <2> QED  BY <1>15, <1>16, <2>1
<1>18. SectionOK(sections'[Len(sections')], tables', described')
  BY <1>1, <1>14, <1>15
<1>19. sections' # <<>>
  BY <1>15
<1> QED  BY <1>3, <1>15, <1>17, <1>18, <1>19 DEF SInv

LEMMA SInvIsInductive ==
    ASSUME WellNested, SelfContained
    PROVE  /\ Init => SInv
           /\ SInv /\ [Next]_vars => SInv'
<1>1. Init => SInv
  <2> SUFFICES ASSUME Init PROVE SInv
    OBVIOUS
  <2>1. unwritten = MsgIds /\ sections = <<>> /\ tables = <<>>
    BY DEF Init, DocsInit
  <2>2. IsSeq(MsgIds) /\ IsSeq(<<>>)
    BY SeqIsSeq DEF WellNested, IsSeq, ToSet
  <2> QED  BY <2>1, <2>2 DEF SInv
<1>2. ASSUME SInv, [Next]_vars PROVE SInv'
  <2>1. CASE UNCHANGED <<unwritten, tables, described, sections>>
    BY <1>2, <2>1 DEF SInv
  <2>2. CASE CollectMsgEdges
    BY <2>1, <2>2 DEF CollectMsgEdges
  <2>3. CASE UNCHANGED docs
    BY <2>1, <2>3 DEF docs
  <2> QED  BY <1>2, <2>2, <2>3, BeginSection_Keeps, Describe_Keeps, TableEnds_Keeps
           DEF Next, DocsNext, vars
<1> QED  BY <1>1, <1>2

\* A section stands alone: it has one table for its payload and for each class in it,
\* whatever the sections before it have described (emit_md_payload_section and
\* emit_md_struct_section, doc_generator.h).
THEOREM SectionsAreComplete ==
    ASSUME WellNested, SelfContained PROVE Spec => []SectionsStandAlone
<1>1. SInv => SectionsStandAlone
  <2> SUFFICES ASSUME SInv, NEW i \in DOMAIN sections, i < Len(sections) \/ tables = <<>>
               PROVE  LET shown == [k \in DOMAIN sections[i].tables |-> sections[i].tables[k].class]
                      IN  /\ ToSet(shown) = Needed({Struct(Payload[sections[i].id])})
                          /\ Cardinality(ToSet(shown)) = Len(shown)
    BY DEF SectionsStandAlone
  <2> DEFINE sec == sections[i]
             shown == [k \in DOMAIN sec.tables |-> sec.tables[k].class]
  <2>1. Complete(sec)
    <3>1. DOMAIN sections = 1..Len(sections) /\ Len(sections) \in Nat
      BY SeqDomain DEF SInv
    <3>2. CASE i < Len(sections)
      BY <3>2 DEF SInv
    <3>3. CASE ~(i < Len(sections))
      <4>1. i = Len(sections) /\ sections # <<>>
        BY <3>1, <3>3
      <4>2. SectionOK(sec, <<>>, described)
        BY <3>3, <4>1 DEF SInv
      <4> QED  BY <4>2, NoTableLeft
    <3> QED  BY <3>2, <3>3
  <2> HIDE DEF sec
  <2>2. ToSet(shown) = Shown(sec)
    BY DEF ToSet, Shown
  <2>3. Len(shown) = Len(sec.tables)
    <3>1. DOMAIN sec.tables = 1..Len(sec.tables) /\ Len(sec.tables) \in Nat
      BY <2>1, SeqDomain DEF Complete
    <3> QED  BY <3>1
  <2> HIDE DEF shown
  <2>4. /\ ToSet(shown) = Needed({Struct(Payload[sec.id])})
        /\ Cardinality(ToSet(shown)) = Len(shown)
    BY <2>1, <2>2, <2>3 DEF Complete, PayloadOf
  <2> QED  BY <2>4 DEF sec, shown
<1> QED  BY <1>1, SInvIsInductive, PTL DEF Spec
=============================================================================
