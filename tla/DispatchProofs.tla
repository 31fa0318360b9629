--------------------------- MODULE DispatchProofs ---------------------------
(***************************************************************************)
(* What Dispatch guarantees for every set of threads and every wiring: its *)
(* types, mutual exclusion, that a wiring that climbs cannot re-enter a    *)
(* handler, and that a wiring with a lock order cannot deadlock; and what  *)
(* follows for the wiring of the application.                              *)
(***************************************************************************)
EXTENDS SilDispatch, SequenceTheorems, WellFoundedInduction, TLAPS

-----------------------------------------------------------------------------
(* Call stacks as sequences: what a step does to the innermost frame.      *)

\* r is s with f as its innermost frame.
Replaced(s, r, f) ==
    /\ r \in Seq(Frame)
    /\ Len(r) = Len(s)
    /\ r[Len(s)] = f
    /\ \A i \in 1..(Len(s) - 1) : r[i] = s[i]

\* r is s with g called from it.
Pushed(s, r, g) ==
    /\ r \in Seq(Frame)
    /\ Len(r) = Len(s) + 1
    /\ r[Len(s) + 1] = g
    /\ \A i \in 1..Len(s) : r[i] = s[i]

LEMMA NonEmpty ==
    ASSUME NEW S, NEW s \in Seq(S), s # <<>>
    PROVE  Len(s) \in Nat \ {0}
  OBVIOUS

\* Replacing the innermost frame leaves the callers alone.
LEMMA ReplaceTop ==
    ASSUME NEW s \in Seq(Frame), s # <<>>, NEW f \in Frame
    PROVE  /\ Len(s) \in Nat \ {0}
           /\ s[Len(s)] \in Frame
           /\ Replaced(s, [s EXCEPT ![Len(s)] = f], f)
  BY DEF Replaced

\* A call leaves every frame of the callers in its place.
LEMMA PushFrame ==
    ASSUME NEW s \in Seq(Frame), NEW g \in Frame
    PROVE  Pushed(s, Append(s, g), g)
  BY DEF Pushed

\* r is s without its innermost frame.
Popped(s, r) ==
    /\ r \in Seq(Frame)
    /\ Len(r) = Len(s) - 1
    /\ \A i \in 1..(Len(s) - 1) : r[i] = s[i]

\* A return leaves the callers alone.
LEMMA PopFrame ==
    ASSUME NEW s \in Seq(Frame), s # <<>>
    PROVE  Popped(s, SubSeq(s, 1, Len(s) - 1))
<1>1. Len(s) \in Nat \ {0} /\ \A i \in 1..(Len(s) - 1) : s[i] \in Frame
  OBVIOUS
<1> DEFINE n == Len(s) - 1
<1>2. n \in Int /\ 1 \in Int /\ n \in Nat /\ n = Len(s) - 1 /\ \A i \in 1..n : s[i] \in Frame
  BY <1>1
<1> HIDE DEF n
<1>3. /\ SubSeq(s, 1, n) \in Seq(Frame)
      /\ Len(SubSeq(s, 1, n)) = IF 1 <= n THEN n - 1 + 1 ELSE 0
      /\ \A i \in 1..(n - 1 + 1) : SubSeq(s, 1, n)[i] = s[1 + i - 1]
  BY <1>2, SubSeqProperties, SMTT(20)
<1>4. /\ Len(SubSeq(s, 1, n)) = n
      /\ \A i \in 1..n : SubSeq(s, 1, n)[i] = s[i]
  BY <1>2, <1>3
<1>5. QED
  BY <1>2, <1>3, <1>4 DEF Popped, n

\* The elements of a sequence after its head is taken are elements of it.
LEMMA TailRange ==
    ASSUME NEW S, NEW q \in Seq(S), q # <<>>
    PROVE  /\ Head(q) \in Range(q) /\ Head(q) \in S
           /\ Tail(q) \in Seq(S)
           /\ Range(Tail(q)) \subseteq Range(q)
           /\ Range(q) \subseteq S
  BY HeadTailProperties DEF Range

-----------------------------------------------------------------------------
(* What an activation may still call.                                      *)

FrameInv(f) ==
    /\ Range(f.calls) \subseteq Callees(f.h, f.phase)
    /\ \A ph \in Phase : \A m \in Range(f.plan[ph]) :
          Range(Subscribers[m]) \subseteq Callees(f.h, ph)

FramesInv(s) == \A i \in 1..Len(s) : FrameInv(s[i])

\* A handler is entered with a path of its own.
LEMMA EnterFrame ==
    ASSUME NEW h \in Handler, NEW p \in Paths[h]
    PROVE  Enter(h, p) \in Frame /\ FrameInv(Enter(h, p))
<1>1. p \in Path
  BY WiringAssumption DEF Path
<1>2. <<>> \in Seq(Handler) /\ Range(<<>>) = {}
  BY DEF Range
<1>3. Enter(h, p) \in Frame
  BY <1>1, <1>2 DEF Enter, Frame, Phase
<1>4. \A ph \in Phase : \A m \in Range(p[ph]) : Range(Subscribers[m]) \subseteq Callees(h, ph)
  <2> SUFFICES ASSUME NEW ph \in Phase, NEW m \in Range(p[ph]),
                      NEW g \in Range(Subscribers[m])
               PROVE  g \in Callees(h, ph)
    OBVIOUS
  <2>1. p[ph] \in Seq(Msg)
    BY <1>1 DEF Path
  <2>2. m \in Msg
    BY <2>1 DEF Range
  <2>3. g \in Handler
    BY <2>2, WiringAssumption DEF Range
  <2>4. QED
    BY <2>3 DEF Callees
<1>5. QED
  BY <1>2, <1>3, <1>4 DEF FrameInv, Enter

-----------------------------------------------------------------------------
(* The shape of every step: the stack of one thread, at its inner end.     *)

Others(t) == \A u \in Thread \ {t} : stack'[u] = stack[u]

LEMMA StartShape ==
    ASSUME TypeOK, NEW t \in Thread, Start(t)
    PROVE  \E g \in Frame :
              /\ stack' \in [Thread -> Seq(Frame)] /\ Others(t)
              /\ stack[t] = <<>> /\ Pushed(stack[t], stack'[t], g)
              /\ g.h = Root[t] /\ g.phase = "pre" /\ FrameInv(g)
<1>1. PICK p \in Paths[Root[t]] : Push(t, Enter(Root[t], p))
  BY DEF Start
<1> DEFINE g == Enter(Root[t], p)
<1>2. g \in Frame /\ FrameInv(g)
  BY EnterFrame, WiringAssumption
<1>3. g.h = Root[t] /\ g.phase = "pre"
  BY DEF Enter
<1>4. stack[t] \in Seq(Frame) /\ stack[t] = <<>>
  BY DEF TypeOK, Start
<1>5. stack' = [stack EXCEPT ![t] = Append(stack[t], g)]
  BY <1>1 DEF Push
<1>6. Pushed(stack[t], Append(stack[t], g), g)
  BY <1>2, <1>4, PushFrame
<1> HIDE DEF g
<1>7. stack'[t] = Append(stack[t], g) /\ Others(t) /\ stack' \in [Thread -> Seq(Frame)]
  BY <1>4, <1>5, <1>6 DEF TypeOK, Others, Pushed
<1>8. QED
  BY <1>2, <1>3, <1>4, <1>6, <1>7

\* The innermost frame is replaced by f, an activation of the same handler.
Changes(t, f) ==
    /\ stack' \in [Thread -> Seq(Frame)] /\ Others(t)
    /\ stack[t] # <<>> /\ Replaced(stack[t], stack'[t], f)
    /\ f.h = Top(t).h /\ FrameInv(f)

LEMMA TopFrame ==
    ASSUME TypeOK, \A t \in Thread : FramesInv(stack[t]), NEW t \in Thread, stack[t] # <<>>
    PROVE  /\ stack[t] \in Seq(Frame) /\ Len(stack[t]) \in Nat \ {0}
           /\ Top(t) \in Frame /\ FrameInv(Top(t))
<1>1. stack[t] \in Seq(Frame)
  BY DEF TypeOK
<1>2. Len(stack[t]) \in Nat \ {0} /\ stack[t][Len(stack[t])] \in Frame
  BY <1>1
<1>3. QED
  BY <1>1, <1>2 DEF Top, FramesInv

LEMMA SetTopShape ==
    ASSUME TypeOK, NEW t \in Thread, stack[t] # <<>>, NEW f \in Frame, SetTop(t, f),
           f.h = Top(t).h, FrameInv(f)
    PROVE  Changes(t, f)
<1>1. stack[t] \in Seq(Frame)
  BY DEF TypeOK
<1> DEFINE r == [stack[t] EXCEPT ![Len(stack[t])] = f]
<1>2. Replaced(stack[t], r, f)
  BY <1>1, ReplaceTop
<1>3. stack' = [stack EXCEPT ![t] = r]
  BY DEF SetTop
<1> HIDE DEF r
<1>4. stack'[t] = r /\ Others(t) /\ stack' \in [Thread -> Seq(Frame)]
  BY <1>2, <1>3 DEF TypeOK, Others, Replaced
<1>5. QED
  BY <1>2, <1>4 DEF Changes

\* Publish turns one planned message into the calls of its subscribers.
LEMMA PublishShape ==
    ASSUME TypeOK, \A u \in Thread : FramesInv(stack[u]), NEW t \in Thread, Publish(t)
    PROVE  \E f \in Frame : Changes(t, f) /\ f.phase = Top(t).phase
<1> DEFINE f == Top(t)
           m == Head(f.plan[f.phase])
           g == [f EXCEPT !.plan[f.phase] = Tail(f.plan[f.phase]), !.calls = Subscribers[m]]
<1>1. f \in Frame /\ FrameInv(f) /\ stack[t] # <<>>
  BY TopFrame DEF Publish
<1>2. f.plan[f.phase] # <<>> /\ SetTop(t, g)
  BY DEF Publish
<1>3. f.phase \in Phase /\ f.plan \in [Phase -> Seq(Msg)] /\ f.h \in Handler
  BY <1>1 DEF Frame, Path
<1>4. /\ m \in Range(f.plan[f.phase]) /\ m \in Msg
      /\ Tail(f.plan[f.phase]) \in Seq(Msg)
      /\ Range(Tail(f.plan[f.phase])) \subseteq Range(f.plan[f.phase])
  BY <1>2, <1>3, TailRange
<1>5. Subscribers[m] \in Seq(Handler)
  BY <1>4, WiringAssumption
<1> DEFINE pl == [f.plan EXCEPT ![f.phase] = Tail(f.plan[f.phase])]
<1>6. pl \in [Phase -> Seq(Msg)]
  BY <1>3, <1>4
<1>7. \A q \in Path, c \in Seq(Handler) :
         LET x == [f EXCEPT !.plan = q, !.calls = c] IN
         x \in Frame /\ x.h = f.h /\ x.phase = f.phase /\ x.plan = q /\ x.calls = c
  <2> HIDE DEF f
  <2>1. QED
    BY <1>1 DEF Frame
<1>8. g \in Frame /\ g.h = f.h /\ g.phase = f.phase /\ g.plan = pl /\ g.calls = Subscribers[m]
  <2>1. g = [f EXCEPT !.plan = pl, !.calls = Subscribers[m]] /\ pl \in Path
    BY <1>6, Zenon DEF Path
  <2> HIDE DEF f, g, pl, m
  <2>2. QED
    BY <1>5, <1>7, <2>1
<1>9. FrameInv(g)
  <2>1. Range(Subscribers[m]) \subseteq Callees(f.h, f.phase)
    BY <1>1, <1>3, <1>4 DEF FrameInv
  <2>2. \A ph \in Phase : Range(pl[ph]) \subseteq Range(f.plan[ph])
    BY <1>3, <1>4
  <2> HIDE DEF pl, g, m
  <2>4. QED
    BY <1>1, <1>8, <2>1, <2>2 DEF FrameInv
<1> HIDE DEF g
<1>10. Changes(t, g)
  BY <1>1, <1>2, <1>8, <1>9, SetTopShape
<1>11. QED
  BY <1>8, <1>10

\* Changing the phase of a drained frame keeps what it may still call.
LEMMA PhaseChange ==
    ASSUME NEW f \in Frame, FrameInv(f), Drained(f), NEW ph \in Phase
    PROVE  LET g == [f EXCEPT !.phase = ph] IN
           g \in Frame /\ g.h = f.h /\ g.phase = ph /\ FrameInv(g)
<1> DEFINE g == [f EXCEPT !.phase = ph]
<1>1. g \in Frame /\ g.h = f.h /\ g.phase = ph /\ g.plan = f.plan /\ g.calls = f.calls
  BY DEF Frame
<1>2. f.calls = <<>> /\ Range(<<>>) = {}
  BY DEF Drained, Range
<1> HIDE DEF g
<1>3. FrameInv(g)
  BY <1>1, <1>2 DEF FrameInv
<1>4. QED
  BY <1>1, <1>3 DEF g

LEMMA LockShape ==
    ASSUME TypeOK, \A u \in Thread : FramesInv(stack[u]), NEW t \in Thread, Lock(t)
    PROVE  \E f \in Frame : Changes(t, f) /\ Top(t).phase = "pre" /\ f.phase = "held"
<1>1. stack[t] # <<>> /\ Top(t).phase = "pre" /\ Drained(Top(t))
  BY DEF Lock, Locking
<1>2. Top(t) \in Frame /\ FrameInv(Top(t))
  BY <1>1, TopFrame
<1> DEFINE f == [Top(t) EXCEPT !.phase = "held"]
<1>3. f \in Frame /\ f.h = Top(t).h /\ f.phase = "held" /\ FrameInv(f)
  BY <1>1, <1>2, PhaseChange DEF Phase
<1>4. SetTop(t, f)
  BY DEF Lock
<1> HIDE DEF f
<1>5. QED
  BY <1>1, <1>3, <1>4, SetTopShape

LEMMA UnlockShape ==
    ASSUME TypeOK, \A u \in Thread : FramesInv(stack[u]), NEW t \in Thread, Unlock(t)
    PROVE  \E f \in Frame : Changes(t, f) /\ Top(t).phase = "held" /\ f.phase = "post"
<1>1. stack[t] # <<>> /\ Top(t).phase = "held" /\ Drained(Top(t))
  BY DEF Unlock
<1>2. Top(t) \in Frame /\ FrameInv(Top(t))
  BY <1>1, TopFrame
<1> DEFINE f == [Top(t) EXCEPT !.phase = "post"]
<1>3. f \in Frame /\ f.h = Top(t).h /\ f.phase = "post" /\ FrameInv(f)
  BY <1>1, <1>2, PhaseChange DEF Phase
<1>4. SetTop(t, f)
  BY DEF Unlock
<1> HIDE DEF f
<1>5. QED
  BY <1>1, <1>3, <1>4, SetTopShape

LEMMA ReturnShape ==
    ASSUME TypeOK, NEW t \in Thread, Return(t)
    PROVE  /\ stack' \in [Thread -> Seq(Frame)] /\ Others(t)
           /\ stack[t] # <<>> /\ Top(t).phase = "post" /\ Popped(stack[t], stack'[t])
<1> DEFINE r == SubSeq(stack[t], 1, Len(stack[t]) - 1)
<1>1. stack[t] \in Seq(Frame) /\ stack[t] # <<>> /\ Top(t).phase = "post"
  BY DEF TypeOK, Return
<1>2. Popped(stack[t], r)
  BY <1>1, PopFrame
<1>3. stack' = [stack EXCEPT ![t] = r]
  BY DEF Return
<1> HIDE DEF r
<1>4. stack'[t] = r /\ Others(t) /\ stack' \in [Thread -> Seq(Frame)]
  BY <1>2, <1>3 DEF TypeOK, Others, Popped
<1>5. QED
  BY <1>1, <1>2, <1>4

\* A call takes the next handler off the caller's list and enters it.
LEMMA CallShape ==
    ASSUME TypeOK, \A u \in Thread : FramesInv(stack[u]), NEW t \in Thread, Call(t)
    PROVE  \E f, g \in Frame : \E r \in Seq(Frame) :
              /\ stack' \in [Thread -> Seq(Frame)] /\ Others(t) /\ stack[t] # <<>>
              /\ Replaced(stack[t], r, f) /\ Pushed(r, stack'[t], g)
              /\ f.h = Top(t).h /\ f.phase = Top(t).phase /\ FrameInv(f)
              /\ g.h \in Callees(f.h, f.phase) /\ g.phase = "pre" /\ FrameInv(g)
<1> DEFINE c == Top(t)
           k == Head(c.calls)
           f == [c EXCEPT !.calls = Tail(c.calls)]
           r == [stack[t] EXCEPT ![Len(stack[t])] = f]
<1>1. stack[t] # <<>> /\ c.calls # <<>>
  BY DEF Call
<1>2. stack[t] \in Seq(Frame) /\ c \in Frame /\ FrameInv(c)
  BY <1>1, TopFrame
<1>3. PICK p \in Paths[k] : stack' = [stack EXCEPT ![t] = Append(r, Enter(k, p))]
  BY DEF Call
<1>4. c.calls \in Seq(Handler) /\ c.phase \in Phase
  BY <1>2 DEF Frame
<1>5. /\ k \in Range(c.calls) /\ k \in Handler
      /\ Tail(c.calls) \in Seq(Handler) /\ Range(Tail(c.calls)) \subseteq Range(c.calls)
  BY <1>1, <1>4, TailRange
<1>6. k \in Callees(c.h, c.phase)
  BY <1>2, <1>5 DEF FrameInv
<1>7. \A q \in Seq(Handler) :
         LET x == [c EXCEPT !.calls = q] IN
         x \in Frame /\ x.h = c.h /\ x.phase = c.phase /\ x.plan = c.plan /\ x.calls = q
  <2> HIDE DEF c
  <2>1. QED
    BY <1>2 DEF Frame
<1>8. /\ f \in Frame /\ f.h = c.h /\ f.phase = c.phase
      /\ f.plan = c.plan /\ f.calls = Tail(c.calls)
  <2> HIDE DEF c
  <2>1. QED
    BY <1>5, <1>7
<1> HIDE DEF c, k, f
<1>9. FrameInv(f)
  BY <1>2, <1>5, <1>8 DEF FrameInv
<1> DEFINE g == Enter(k, p)
<1>10. g \in Frame /\ FrameInv(g) /\ g.h = k /\ g.phase = "pre"
  <2>1. g.h = k /\ g.phase = "pre"
    BY DEF Enter
  <2>2. QED
    BY <1>5, <2>1, EnterFrame
<1>11. Replaced(stack[t], r, f)
  BY <1>1, <1>2, <1>8, ReplaceTop
<1>12. r \in Seq(Frame)
  BY <1>11 DEF Replaced
<1> HIDE DEF g, r
<1>13. Pushed(r, Append(r, g), g)
  BY <1>10, <1>12, PushFrame
<1>14. stack'[t] = Append(r, g) /\ Others(t) /\ stack' \in [Thread -> Seq(Frame)]
  BY <1>3, <1>13 DEF TypeOK, Others, Pushed, g
<1>15. QED
  BY <1>1, <1>6, <1>8, <1>9, <1>10, <1>11, <1>12, <1>13, <1>14 DEF c

-----------------------------------------------------------------------------
(* Types, and the frames' callees.                                         *)

TypeInv == TypeOK /\ \A t \in Thread : FramesInv(stack[t])

\* A step of t keeps the typing of its stack if it keeps the outermost frame.
LEMMA TypeStep ==
    ASSUME TypeInv, NEW t \in Thread,
           stack' \in [Thread -> Seq(Frame)], Others(t),
           stack'[t] # <<>> => stack'[t][1].h = Root[t],
           FramesInv(stack'[t])
    PROVE  TypeInv'
<1>1. \A u \in Thread : FramesInv(stack'[u])
  BY DEF TypeInv, Others
<1>2. TypeOK'
  BY DEF TypeInv, TypeOK, Others
<1>3. QED
  BY <1>1, <1>2 DEF TypeInv, FramesInv, FrameInv, Callees

LEMMA ReplacedType ==
    ASSUME NEW s \in Seq(Frame), s # <<>>, NEW f \in Frame, NEW r, Replaced(s, r, f),
           f.h = s[Len(s)].h
    PROVE  /\ \A i \in 1..Len(s) : r[i].h = s[i].h
           /\ FramesInv(s) /\ FrameInv(f) => FramesInv(r)
<1>1. Len(s) \in Nat \ {0} /\ \A i \in 1..Len(s) : i = Len(s) \/ i \in 1..(Len(s) - 1)
  OBVIOUS
<1>2. QED
  BY <1>1 DEF Replaced, FramesInv

LEMMA PushedType ==
    ASSUME NEW s \in Seq(Frame), NEW g \in Frame, NEW r, Pushed(s, r, g)
    PROVE  FramesInv(s) /\ FrameInv(g) => FramesInv(r)
<1>1. Len(s) \in Nat /\ \A i \in 1..(Len(s) + 1) : i = Len(s) + 1 \/ i \in 1..Len(s)
  OBVIOUS
<1>2. QED
  BY <1>1 DEF Pushed, FramesInv

LEMMA TypeNext == TypeInv /\ [Next]_vars => TypeInv'
<1> SUFFICES ASSUME TypeInv, [Next]_vars
             PROVE  TypeInv'
  OBVIOUS
<1>0. TypeOK /\ \A t \in Thread : FramesInv(stack[t])
  BY DEF TypeInv
<1>1. CASE UNCHANGED vars
  <2>1. stack' = stack
    BY <1>1 DEF vars
  <2>2. TypeOK' /\ \A t \in Thread : FramesInv(stack'[t])
    BY <1>0, <2>1 DEF TypeOK
  <2>3. QED
    BY <2>2 DEF TypeInv, FramesInv, FrameInv, Callees
<1> SUFFICES ASSUME NEW t \in Thread, Start(t) \/ Step(t)
             PROVE  TypeInv'
  BY <1>1 DEF Next
<1>s. /\ stack[t] \in Seq(Frame) /\ FramesInv(stack[t]) /\ Len(stack[t]) \in Nat
      /\ stack[t] # <<>> => Len(stack[t]) \in Nat \ {0} /\ stack[t][1].h = Root[t]
  BY <1>0 DEF TypeOK
<1>r. ASSUME NEW f \in Frame, Changes(t, f) PROVE TypeInv'
  <2>1. /\ Replaced(stack[t], stack'[t], f) /\ stack[t] # <<>> /\ f.h = stack[t][Len(stack[t])].h
        /\ FrameInv(f) /\ Others(t) /\ stack' \in [Thread -> Seq(Frame)]
    BY <1>r DEF Changes, Top
  <2>2. /\ \A i \in 1..Len(stack[t]) : stack'[t][i].h = stack[t][i].h
        /\ FramesInv(stack'[t])
    BY <1>s, <2>1, ReplacedType
  <2>3. stack'[t][1].h = Root[t]
    BY <1>s, <2>1, <2>2
  <2>4. QED
    BY <2>1, <2>2, <2>3, TypeStep
<1>2. CASE Start(t)
  <2>1. PICK g \in Frame :
              /\ stack' \in [Thread -> Seq(Frame)] /\ Others(t)
              /\ stack[t] = <<>> /\ Pushed(stack[t], stack'[t], g)
              /\ g.h = Root[t] /\ g.phase = "pre" /\ FrameInv(g)
    BY <1>0, <1>2, StartShape
  <2>2. FramesInv(stack'[t])
    BY <1>s, <2>1, PushedType
  <2>3. stack'[t][1].h = Root[t]
    BY <2>1 DEF Pushed
  <2>4. QED
    BY <2>1, <2>2, <2>3, TypeStep
<1>3. CASE Publish(t)
  BY <1>0, <1>3, <1>r, PublishShape
<1>4. CASE Call(t)
  <2>1. PICK f \in Frame, g \in Frame, r \in Seq(Frame) :
              /\ stack' \in [Thread -> Seq(Frame)] /\ Others(t) /\ stack[t] # <<>>
              /\ Replaced(stack[t], r, f) /\ Pushed(r, stack'[t], g)
              /\ f.h = Top(t).h /\ f.phase = Top(t).phase /\ FrameInv(f)
              /\ g.h \in Callees(f.h, f.phase) /\ g.phase = "pre" /\ FrameInv(g)
    BY <1>0, <1>4, CallShape
  <2>2. FramesInv(r) /\ r[1].h = Root[t] /\ Len(r) \in Nat \ {0}
    <3>1. f.h = stack[t][Len(stack[t])].h
      BY <2>1 DEF Top
    <3>2. Len(r) = Len(stack[t])
      BY <2>1 DEF Replaced
    <3>3. QED
      BY <1>s, <2>1, <3>1, <3>2, ReplacedType
  <2>3. FramesInv(stack'[t])
    BY <2>1, <2>2, PushedType
  <2>4. stack'[t][1].h = Root[t]
    BY <2>1, <2>2 DEF Pushed
  <2>5. QED
    BY <2>1, <2>3, <2>4, TypeStep
<1>5. CASE Lock(t)
  BY <1>0, <1>5, <1>r, LockShape
<1>6. CASE Unlock(t)
  BY <1>0, <1>6, <1>r, UnlockShape
<1>7. CASE Return(t)
  <2>1. /\ stack' \in [Thread -> Seq(Frame)] /\ Others(t)
        /\ stack[t] # <<>> /\ Popped(stack[t], stack'[t])
    BY <1>0, <1>7, ReturnShape
  <2>2. FramesInv(stack'[t])
    BY <1>s, <2>1 DEF FramesInv, Popped
  <2>3. stack'[t] # <<>> => stack'[t][1].h = Root[t]
    <3>1. stack'[t] \in Seq(Frame) /\ Len(stack'[t]) = Len(stack[t]) - 1
      BY <2>1 DEF Popped
    <3>2. stack'[t] # <<>> => Len(stack'[t]) \in Nat \ {0}
      BY <3>1, NonEmpty
    <3>3. QED
      BY <1>s, <2>1, <3>1, <3>2 DEF Popped
  <2>4. QED
    BY <2>1, <2>2, <2>3, TypeStep
<1>8. QED
  BY <1>2, <1>3, <1>4, <1>5, <1>6, <1>7 DEF Step

LEMMA TypeInit == Init => TypeInv
<1>1. <<>> \in Seq(Frame) /\ Len(<<>>) = 0
  OBVIOUS
<1>2. QED
  BY <1>1 DEF Init, TypeInv, TypeOK, FramesInv

\* Every call stack holds well-formed activations whose pending calls are those
\* of the paths of their handlers (MessageBus::dispatch and the handlers).
THEOREM TypeCorrect == Spec => []TypeOK
<1>1. TypeInv => TypeOK
  BY DEF TypeInv
<1>2. QED
  BY <1>1, TypeInit, TypeNext, PTL DEF Spec

-----------------------------------------------------------------------------
(* The mutexes below a frame depend on the frames below it.                *)

LEMMA BelowAgrees ==
    ASSUME NEW s, NEW r, NEW i \in Nat, \A j \in 1..(i - 1) : r[j] = s[j]
    PROVE  Below(r, i) = Below(s, i)
  BY DEF Below

LEMMA BelowNext ==
    ASSUME NEW s \in Seq(Frame), NEW i \in 1..Len(s)
    PROVE  Below(s, i + 1) = Below(s, i) \cup Own(s[i].h, s[i].phase)
<1>1. \A k \in 1..(i + 1 - 1) : k = i \/ k \in 1..(i - 1)
  OBVIOUS
<1>2. i \in 1..(i + 1 - 1) /\ \A k \in 1..(i - 1) : k \in 1..(i + 1 - 1)
  OBVIOUS
<1>3. QED
  BY <1>1, <1>2 DEF Below, Own

LEMMA ReplacedBelow ==
    ASSUME NEW s \in Seq(Frame), s # <<>>, NEW f \in Frame, NEW r, Replaced(s, r, f)
    PROVE  /\ \A i \in 1..Len(s) : Below(r, i) = Below(s, i)
           /\ Owned(s) = Below(s, Len(s)) \cup Own(s[Len(s)].h, s[Len(s)].phase)
           /\ Owned(r) = Below(s, Len(s)) \cup Own(f.h, f.phase)
<1>1. Len(s) \in Nat \ {0} /\ Len(s) \in 1..Len(s)
  BY NonEmpty
<1>2. \A i \in 1..Len(s) : Below(r, i) = Below(s, i)
  <2> SUFFICES ASSUME NEW i \in 1..Len(s) PROVE Below(r, i) = Below(s, i)
    OBVIOUS
  <2>1. \A j \in 1..(i - 1) : j \in 1..(Len(s) - 1)
    BY <1>1
  <2>2. \A j \in 1..(i - 1) : r[j] = s[j]
    BY <2>1 DEF Replaced
  <2>3. QED
    BY <2>2, BelowAgrees
<1>3. r \in Seq(Frame) /\ Len(r) = Len(s) /\ r[Len(s)] = f
  BY DEF Replaced
<1>4. QED
  BY <1>1, <1>2, <1>3, BelowNext DEF Owned

LEMMA PushedBelow ==
    ASSUME NEW s \in Seq(Frame), NEW g \in Frame, NEW r, Pushed(s, r, g), g.phase = "pre"
    PROVE  /\ \A i \in 1..(Len(s) + 1) : Below(r, i) = Below(s, i)
           /\ Owned(r) = Owned(s)
<1>1. Len(s) \in Nat
  OBVIOUS
<1>2. \A i \in 1..(Len(s) + 1) : Below(r, i) = Below(s, i)
  <2> SUFFICES ASSUME NEW i \in 1..(Len(s) + 1) PROVE Below(r, i) = Below(s, i)
    OBVIOUS
  <2>1. \A j \in 1..(i - 1) : j \in 1..Len(s)
    BY <1>1
  <2>2. \A j \in 1..(i - 1) : r[j] = s[j]
    BY <2>1 DEF Pushed
  <2>3. QED
    BY <2>2, BelowAgrees
<1>3. r \in Seq(Frame) /\ Len(r) = Len(s) + 1 /\ r[Len(s) + 1] = g
  BY DEF Pushed
<1>4. Below(r, Len(s) + 2) = Below(r, Len(s) + 1) \cup Own(g.h, g.phase)
  <2>1. Len(s) + 1 \in 1..Len(r) /\ (Len(s) + 1) + 1 = Len(s) + 2
    BY <1>1, <1>3
  <2>2. QED
    BY <1>3, <2>1, BelowNext
<1>5. Owned(r) = Below(r, Len(s) + 2) /\ Owned(s) = Below(s, Len(s) + 1)
  BY <1>1, <1>3 DEF Owned
<1>6. Own(g.h, g.phase) = {}
  BY DEF Own
<1>7. Len(s) + 1 \in 1..(Len(s) + 1)
  BY <1>1
<1>8. QED
  BY <1>2, <1>4, <1>5, <1>6, <1>7

LEMMA PoppedBelow ==
    ASSUME NEW s \in Seq(Frame), s # <<>>, NEW r, Popped(s, r), s[Len(s)].phase = "post"
    PROVE  /\ \A i \in 1..(Len(s) - 1) : Below(r, i) = Below(s, i)
           /\ Owned(r) = Owned(s)
<1>1. Len(s) \in Nat \ {0} /\ Len(s) \in 1..Len(s)
  BY NonEmpty
<1>2. \A i \in 1..Len(s) : Below(r, i) = Below(s, i)
  <2> SUFFICES ASSUME NEW i \in 1..Len(s) PROVE Below(r, i) = Below(s, i)
    OBVIOUS
  <2>1. \A j \in 1..(i - 1) : j \in 1..(Len(s) - 1)
    BY <1>1
  <2>2. \A j \in 1..(i - 1) : r[j] = s[j]
    BY <2>1 DEF Popped
  <2>3. QED
    BY <2>2, BelowAgrees
<1>3. Len(r) + 1 = Len(s)
  BY <1>1 DEF Popped
<1>4. Owned(s) = Below(s, Len(s)) \cup Own(s[Len(s)].h, s[Len(s)].phase)
  BY <1>1, BelowNext DEF Owned
<1>5. QED
  BY <1>1, <1>2, <1>3, <1>4 DEF Owned, Own

-----------------------------------------------------------------------------
(* Mutual exclusion.                                                       *)

\* A step of t takes at most the mutex it has found free, and changes nothing
\* another thread owns.
LEMMA OwnedStep ==
    ASSUME TypeInv, NEW t \in Thread, Start(t) \/ Step(t)
    PROVE  /\ Others(t)
           /\ \/ Owned(stack'[t]) \subseteq Owned(stack[t])
              \/ /\ Owned(stack'[t]) \subseteq Owned(stack[t]) \cup {Wanted(t)}
                 /\ Lock(t)
<1>0. TypeOK /\ \A u \in Thread : FramesInv(stack[u])
  BY DEF TypeInv
<1>s. stack[t] \in Seq(Frame)
  BY <1>0 DEF TypeOK
<1>r. ASSUME NEW f \in Frame, Changes(t, f)
      PROVE  /\ Others(t)
             /\ Owned(stack[t]) = Below(stack[t], Len(stack[t])) \cup Own(Top(t).h, Top(t).phase)
             /\ Owned(stack'[t]) = Below(stack[t], Len(stack[t])) \cup Own(Top(t).h, f.phase)
  <2>1. Replaced(stack[t], stack'[t], f) /\ stack[t] # <<>> /\ f.h = Top(t).h /\ Others(t)
    BY <1>r DEF Changes
  <2>2. QED
    BY <1>s, <2>1, ReplacedBelow DEF Top
<1>2. CASE Start(t)
  BY <1>0, <1>s, <1>2, StartShape, PushedBelow
<1>3. CASE Publish(t)
  BY <1>0, <1>3, <1>r, PublishShape
<1>4. CASE Call(t)
  <2>1. PICK f \in Frame, g \in Frame, r \in Seq(Frame) :
              /\ Others(t) /\ stack[t] # <<>>
              /\ Replaced(stack[t], r, f) /\ Pushed(r, stack'[t], g)
              /\ f.h = Top(t).h /\ f.phase = Top(t).phase /\ g.phase = "pre"
    BY <1>0, <1>4, CallShape
  <2>2. Owned(r) = Owned(stack[t])
    <3>1. /\ Owned(stack[t]) = Below(stack[t], Len(stack[t])) \cup Own(Top(t).h, Top(t).phase)
          /\ Owned(r) = Below(stack[t], Len(stack[t])) \cup Own(f.h, f.phase)
      BY <1>s, <2>1, ReplacedBelow DEF Top
    <3>2. QED
      BY <2>1, <3>1
  <2>3. Owned(stack'[t]) = Owned(r)
    BY <2>1, PushedBelow
  <2>4. QED
    BY <2>1, <2>2, <2>3
<1>5. CASE Lock(t)
  <2>1. PICK f \in Frame : Changes(t, f) /\ Top(t).phase = "pre" /\ f.phase = "held"
    BY <1>0, <1>5, LockShape
  <2>2. QED
    BY <1>5, <1>r, <2>1 DEF Own, Wanted
<1>6. CASE Unlock(t)
  <2>1. PICK f \in Frame : Changes(t, f) /\ Top(t).phase = "held" /\ f.phase = "post"
    BY <1>0, <1>6, UnlockShape
  <2>2. QED
    BY <1>r, <2>1 DEF Own
<1>7. CASE Return(t)
  <2>1. /\ Others(t)
        /\ stack[t] # <<>> /\ Top(t).phase = "post" /\ Popped(stack[t], stack'[t])
    BY <1>0, <1>7, ReturnShape
  <2>2. QED
    BY <1>s, <2>1, PoppedBelow DEF Top
<1>8. QED
  BY <1>2, <1>3, <1>4, <1>5, <1>6, <1>7 DEF Step

LEMMA ExclusionNext == TypeInv /\ MutualExclusion /\ [Next]_vars => MutualExclusion'
<1> SUFFICES ASSUME TypeInv, MutualExclusion, [Next]_vars
             PROVE  MutualExclusion'
  OBVIOUS
<1>1. CASE UNCHANGED vars
  BY <1>1 DEF MutualExclusion, Holds, Owned, Below, vars
<1> SUFFICES ASSUME NEW t \in Thread, Start(t) \/ Step(t)
             PROVE  MutualExclusion'
  BY <1>1 DEF Next
<1>2. /\ Others(t)
      /\ \/ Owned(stack'[t]) \subseteq Owned(stack[t])
         \/ /\ Owned(stack'[t]) \subseteq Owned(stack[t]) \cup {Wanted(t)}
            /\ Lock(t)
  BY OwnedStep
<1>3. \A u \in Thread \ {t} : Owned(stack'[u]) = Owned(stack[u])
  BY <1>2 DEF Others
<1>4. Lock(t) => \A u \in Thread \ {t} : Wanted(t) \notin Owned(stack[u])
  BY DEF Lock, Blocks, Holds
<1>5. \A u, v \in Thread : \A m \in Mutex :
          m \in Owned(stack[u]) /\ m \in Owned(stack[v]) => u = v
  BY DEF MutualExclusion, Holds
<1>6. \A u, v \in Thread : \A m \in Mutex :
          m \in Owned(stack'[u]) /\ m \in Owned(stack'[v]) => u = v
  BY <1>2, <1>3, <1>4, <1>5
<1>7. QED
  BY <1>6 DEF MutualExclusion, Holds, Owned, Below

\* Two threads never own the same mutex: what std::mutex and std::recursive_mutex
\* promise, of lock guards that live as long as their handlers.
THEOREM Exclusion == Spec => []MutualExclusion
<1>1. Init => MutualExclusion
  <2>1. Below(<<>>, Len(<<>>) + 1) = {}
    BY DEF Below
  <2>2. QED
    BY <2>1 DEF Init, MutualExclusion, Holds, Owned
<1>2. QED
  BY <1>1, TypeInit, TypeNext, ExclusionNext, PTL DEF Spec

-----------------------------------------------------------------------------
(* The lock order.                                                         *)

\* HeldAsDeclared of one call stack.
Declared(s, Needs, May) ==
    \A i \in 1..Len(s) : Needs[s[i].h] \subseteq Below(s, i) /\ Below(s, i) \subseteq May[s[i].h]

LEMMA ReplacedDeclared ==
    ASSUME NEW s \in Seq(Frame), s # <<>>, NEW f \in Frame, NEW r, Replaced(s, r, f),
           f.h = s[Len(s)].h, NEW Needs, NEW May, Declared(s, Needs, May)
    PROVE  Declared(r, Needs, May)
<1>1. \A i \in 1..Len(s) : Below(r, i) = Below(s, i)
  BY ReplacedBelow
<1>2. \A i \in 1..Len(s) : r[i].h = s[i].h
  BY ReplacedType
<1>3. Len(r) = Len(s)
  BY DEF Replaced
<1>4. QED
  BY <1>1, <1>2, <1>3 DEF Declared

\* A frame pushed on s, whose caller declares Own and what it passes on.
LEMMA PushedDeclared ==
    ASSUME NEW s \in Seq(Frame), NEW g \in Frame, NEW r, Pushed(s, r, g), g.phase = "pre",
           NEW Needs, NEW May, Declared(s, Needs, May),
           Needs[g.h] \subseteq Owned(s), Owned(s) \subseteq May[g.h]
    PROVE  Declared(r, Needs, May)
<1>1. Len(s) \in Nat /\ \A i \in 1..(Len(s) + 1) : i = Len(s) + 1 \/ i \in 1..Len(s)
  OBVIOUS
<1>2. \A i \in 1..(Len(s) + 1) : Below(r, i) = Below(s, i)
  BY PushedBelow
<1>3. Len(r) = Len(s) + 1 /\ r[Len(s) + 1] = g /\ \A i \in 1..Len(s) : r[i] = s[i]
  BY DEF Pushed
<1>4. QED
  BY <1>1, <1>2, <1>3 DEF Declared, Owned

\* What the callees of the innermost frame need and may find is what it owns.
LEMMA CalleeDeclared ==
    ASSUME NEW s \in Seq(Frame), s # <<>>, NEW Rank, NEW Needs, NEW May,
           LockOrdered(Rank, Needs, May), Declared(s, Needs, May),
           NEW g \in Callees(s[Len(s)].h, s[Len(s)].phase)
    PROVE  Needs[g] \subseteq Owned(s) /\ Owned(s) \subseteq May[g]
<1> DEFINE f == s[Len(s)]
<1>1. Len(s) \in 1..Len(s) /\ f \in Frame
  BY NonEmpty
<1>2. f.h \in Handler /\ f.phase \in Phase
  BY <1>1 DEF Frame
<1>3. Owned(s) = Below(s, Len(s)) \cup Own(f.h, f.phase)
  BY <1>1, NonEmpty, BelowNext DEF Owned
<1>4. Needs[f.h] \subseteq Below(s, Len(s)) /\ Below(s, Len(s)) \subseteq May[f.h]
  BY <1>1 DEF Declared
<1>5. /\ Needs[g] \subseteq Needs[f.h] \cup Own(f.h, f.phase)
      /\ May[f.h] \cup Own(f.h, f.phase) \subseteq May[g]
  BY <1>2 DEF LockOrdered
<1>6. QED
  BY <1>3, <1>4, <1>5

LEMMA DeclaredNext ==
    ASSUME NEW Rank, NEW Needs, NEW May, LockOrdered(Rank, Needs, May),
           TypeInv, HeldAsDeclared(Needs, May), [Next]_vars
    PROVE  HeldAsDeclared(Needs, May)'
<1>1. CASE UNCHANGED vars
  <2>1. stack' = stack
    BY <1>1 DEF vars
  <2>2. \A t \in Thread : Declared(stack'[t], Needs, May)
    BY <2>1 DEF HeldAsDeclared, Declared
  <2>3. QED
    BY <2>2 DEF HeldAsDeclared, Declared, Below
<1> SUFFICES ASSUME NEW t \in Thread, Start(t) \/ Step(t)
             PROVE  HeldAsDeclared(Needs, May)'
  BY <1>1 DEF Next
<1>0. TypeOK /\ \A u \in Thread : FramesInv(stack[u])
  BY DEF TypeInv
<1>s. stack[t] \in Seq(Frame) /\ Declared(stack[t], Needs, May)
  BY <1>0 DEF TypeOK, HeldAsDeclared, Declared
<1>a. ASSUME Others(t), Declared(stack'[t], Needs, May)
      PROVE  HeldAsDeclared(Needs, May)'
  <2>1. \A u \in Thread : Declared(stack[u], Needs, May)
    BY DEF HeldAsDeclared, Declared
  <2>2. \A u \in Thread : Declared(stack'[u], Needs, May)
    BY <1>a, <2>1 DEF Others
  <2>3. QED
    BY <2>2 DEF HeldAsDeclared, Declared, Below
<1>r. ASSUME NEW f \in Frame, Changes(t, f) PROVE HeldAsDeclared(Needs, May)'
  <2>1. /\ Replaced(stack[t], stack'[t], f) /\ stack[t] # <<>> /\ Others(t)
        /\ f.h = stack[t][Len(stack[t])].h
    BY <1>r DEF Changes, Top
  <2>2. QED
    BY <1>s, <1>a, <2>1, ReplacedDeclared
<1>2. CASE Start(t)
  <2>1. PICK g \in Frame :
              /\ Others(t) /\ stack[t] = <<>> /\ Pushed(stack[t], stack'[t], g)
              /\ g.h = Root[t] /\ g.phase = "pre"
    BY <1>0, <1>2, StartShape
  <2>2. Owned(stack[t]) = {}
    BY <2>1 DEF Owned, Below
  <2>3. Needs[g.h] = {}
    BY <2>1 DEF LockOrdered
  <2>4. QED
    BY <1>s, <1>a, <2>1, <2>2, <2>3, PushedDeclared
<1>3. CASE Publish(t)
  BY <1>0, <1>3, <1>r, PublishShape
<1>4. CASE Call(t)
  <2>1. PICK f \in Frame, g \in Frame, r \in Seq(Frame) :
              /\ Others(t) /\ stack[t] # <<>>
              /\ Replaced(stack[t], r, f) /\ Pushed(r, stack'[t], g)
              /\ f.h = Top(t).h /\ f.phase = Top(t).phase
              /\ g.h \in Callees(f.h, f.phase) /\ g.phase = "pre"
    BY <1>0, <1>4, CallShape
  <2>2. Declared(r, Needs, May)
    BY <1>s, <2>1, ReplacedDeclared DEF Top
  <2>3. r # <<>> /\ r[Len(r)] = f
    <3>1. Len(r) = Len(stack[t]) /\ r[Len(stack[t])] = f /\ Len(stack[t]) \in Nat \ {0}
      BY <1>s, <2>1, NonEmpty DEF Replaced
    <3>2. Len(<<>>) = 0
      OBVIOUS
    <3>3. QED
      BY <3>1, <3>2
  <2>4. Needs[g.h] \subseteq Owned(r) /\ Owned(r) \subseteq May[g.h]
    BY <2>1, <2>2, <2>3, CalleeDeclared
  <2>5. Declared(stack'[t], Needs, May)
    BY <2>1, <2>2, <2>4, PushedDeclared
  <2>6. QED
    BY <1>a, <2>1, <2>5
<1>5. CASE Lock(t)
  BY <1>0, <1>5, <1>r, LockShape
<1>6. CASE Unlock(t)
  BY <1>0, <1>6, <1>r, UnlockShape
<1>7. CASE Return(t)
  <2>1. /\ Others(t) /\ stack[t] # <<>> /\ Top(t).phase = "post"
        /\ Popped(stack[t], stack'[t])
    BY <1>0, <1>7, ReturnShape
  <2>2. /\ Len(stack'[t]) = Len(stack[t]) - 1
        /\ \A i \in 1..(Len(stack[t]) - 1) : stack'[t][i] = stack[t][i]
        /\ \A i \in 1..(Len(stack[t]) - 1) : Below(stack'[t], i) = Below(stack[t], i)
    BY <1>s, <2>1, PoppedBelow DEF Popped, Top
  <2>3. Declared(stack'[t], Needs, May)
    BY <1>s, <2>1, <2>2, NonEmpty DEF Declared
  <2>4. QED
    BY <1>a, <2>1, <2>3
<1>8. QED
  BY <1>2, <1>3, <1>4, <1>5, <1>6, <1>7 DEF Step

\* In a wiring with a lock order every handler finds on its own thread the mutexes
\* it declares, whichever chain of publications it is reached by.
THEOREM LocksDeclared ==
    ASSUME NEW Rank, NEW Needs, NEW May, LockOrdered(Rank, Needs, May)
    PROVE  Spec => []HeldAsDeclared(Needs, May)
<1>1. Init => HeldAsDeclared(Needs, May)
  BY DEF Init, HeldAsDeclared
<1>2. TypeInv /\ HeldAsDeclared(Needs, May) /\ [Next]_vars => HeldAsDeclared(Needs, May)'
  BY DeclaredNext
<1>3. QED
  BY <1>1, <1>2, TypeInit, TypeNext, PTL DEF Spec

-----------------------------------------------------------------------------
(* Deadlock.                                                               *)

\* The thread that waits for the mutex of the highest rank waits for a thread
\* that is not waiting: every set of waiting threads has a way out.
LEMMA OrderedNotStuck ==
    ASSUME NEW Rank, NEW Needs, NEW May, LockOrdered(Rank, Needs, May),
           TypeInv, HeldAsDeclared(Needs, May), MutualExclusion
    PROVE  NoCircularWait
<1> SUFFICES ASSUME NEW S \in SUBSET Thread, S # {},
                    \A t \in S : \E u \in S : Blocks(u, t)
             PROVE  FALSE
  BY DEF NoCircularWait
<1> DEFINE rank(t) == Rank[Wanted(t)]
<1>0. PICK top \in Nat : Rank \in [Mutex -> 0..top]
  <2>1. Rank \in [Mutex -> Nat]
    BY DEF LockOrdered
  <2>2. PICK top \in Range(Rank) : \A m \in Mutex : Rank[m] <= top
    BY DEF LockOrdered
  <2>3. top \in Nat /\ \A m \in Mutex : Rank[m] \in 0..top
    BY <2>1, <2>2 DEF Range
  <2>4. QED
    BY <2>1, <2>3
<1>1. ASSUME NEW t \in Thread, Locking(t)
      PROVE  /\ Top(t).h \in Handler /\ Wanted(t) \in Mutex /\ rank(t) \in 0..top
             /\ Needs[Top(t).h] \subseteq Owned(stack[t])
             /\ Owned(stack[t]) \subseteq May[Top(t).h]
             /\ Owned(stack[t]) \subseteq Mutex
  <2>1. stack[t] \in Seq(Frame) /\ stack[t] # <<>> /\ Top(t).phase = "pre"
    BY <1>1 DEF TypeInv, TypeOK, Locking
  <2>2. Len(stack[t]) \in 1..Len(stack[t]) /\ Top(t) \in Frame
    BY <2>1, NonEmpty DEF Top
  <2>3. Top(t).h \in Handler
    BY <2>2 DEF Frame
  <2>4. Owned(stack[t]) = Below(stack[t], Len(stack[t])) \cup Own(Top(t).h, Top(t).phase)
    BY <2>1, <2>2, BelowNext, NonEmpty DEF Owned, Top
  <2>5. Owned(stack[t]) = Below(stack[t], Len(stack[t]))
    BY <2>1, <2>4 DEF Own
  <2>6. /\ Needs[Top(t).h] \subseteq Below(stack[t], Len(stack[t]))
        /\ Below(stack[t], Len(stack[t])) \subseteq May[Top(t).h]
    BY <2>2 DEF HeldAsDeclared, Top
  <2>7. Wanted(t) \in Mutex
    BY <2>3, WiringAssumption DEF Wanted
  <2>8. rank(t) \in 0..top /\ May[Top(t).h] \subseteq Mutex
    BY <1>0, <2>3, <2>7 DEF LockOrdered
  <2>9. QED
    BY <2>3, <2>5, <2>6, <2>7, <2>8
<1>2. \A t \in S : Locking(t) /\ t \in Thread
  BY DEF Blocks
<1>3. ASSUME NEW t \in S PROVE \E u \in S : rank(t) < rank(u)
  <2>1. PICK u \in S : Blocks(u, t)
    OBVIOUS
  <2>2. PICK v \in S : Blocks(v, u)
    OBVIOUS
  <2>3. Wanted(t) \in Owned(stack[u]) /\ Wanted(u) \in Owned(stack[v])
    BY <2>1, <2>2 DEF Blocks, Holds
  <2>4. Wanted(u) \notin Owned(stack[u]) \/ Wanted(u) \notin Recursive
    <3>1. v = u => Wanted(u) \notin Recursive
      BY <2>2 DEF Blocks
    <3>2. Wanted(u) \in Mutex /\ u \in Thread /\ v \in Thread
      BY <1>1, <1>2
    <3>3. Wanted(u) \in Owned(stack[u]) => v = u
      BY <2>3, <3>2 DEF MutualExclusion, Holds
    <3>4. QED
      BY <3>1, <3>3
  <2>5. /\ Top(u).h \in Handler
        /\ Needs[Top(u).h] \subseteq Owned(stack[u])
        /\ Wanted(t) \in May[Top(u).h]
    BY <1>1, <1>2, <2>3
  <2>6. \/ Wanted(u) \in Needs[Top(u).h] \cap Recursive
        \/ Rank[Wanted(t)] < Rank[Wanted(u)]
        \/ Wanted(t) \in Recursive /\ Wanted(t) = Wanted(u)
    BY <2>5 DEF LockOrdered, Wanted
  <2>7. QED
    BY <2>3, <2>4, <2>5, <2>6
<1>4. \A t \in S : rank(t) \in 0..top
  BY <1>1, <1>2
<1> DEFINE room == { top - rank(t) : t \in S }
<1>5. room \subseteq Nat /\ room # {}
  BY <1>4
<1> HIDE DEF room
<1>6. PICK x \in room : \A y \in room : <<y, x>> \notin OpToRel(<, Nat)
  BY <1>5, WFMin, NatLessThanWellFounded
<1>7. \A y \in room : ~ (y < x)
  BY <1>5, <1>6 DEF OpToRel
<1>8. PICK t \in S : x = top - rank(t)
  BY DEF room
<1>9. PICK u \in S : rank(t) < rank(u)
  BY <1>3
<1>10. top - rank(u) \in room
  BY DEF room
<1>11. QED
  BY <1>4, <1>7, <1>8, <1>9, <1>10

\* No set of threads of the application is ever stuck, each waiting for a lock
\* that one of them owns, if the wiring has a lock order: in every interleaving,
\* for any number of threads.
THEOREM DeadlockFree ==
    ASSUME NEW Rank, NEW Needs, NEW May, LockOrdered(Rank, Needs, May)
    PROVE  Spec => []NoCircularWait
<1>1. TypeInv /\ HeldAsDeclared(Needs, May) /\ MutualExclusion => NoCircularWait
  BY OrderedNotStuck
<1>2. Spec => []TypeInv
  BY TypeInit, TypeNext, PTL DEF Spec
<1>3. QED
  BY <1>1, <1>2, LocksDeclared, Exclusion, PTL

-----------------------------------------------------------------------------
(* Calls that climb.                                                       *)

Climbing(s, Level) ==
    \A i, j \in 1..Len(s) : i < j => Level[s[i].h] < Level[s[j].h]

ClimbInv(Level) == \A t \in Thread : Climbing(stack[t], Level)

LEMMA PushedClimbs ==
    ASSUME NEW s \in Seq(Frame), NEW g \in Frame, NEW r, Pushed(s, r, g),
           NEW Level, CallsClimb(Level), Climbing(s, Level),
           s # <<>> => g.h \in Callees(s[Len(s)].h, s[Len(s)].phase)
    PROVE  Climbing(r, Level)
<1>1. Len(s) \in Nat /\ \A i \in 1..(Len(s) + 1) : i = Len(s) + 1 \/ i \in 1..Len(s)
  OBVIOUS
<1>2. Len(r) = Len(s) + 1 /\ r[Len(s) + 1] = g /\ \A i \in 1..Len(s) : r[i] = s[i]
  BY DEF Pushed
<1>3. \A i \in 1..Len(s) : s[i].h \in Handler /\ s[i].phase \in Phase
  <2>1. \A i \in 1..Len(s) : s[i] \in Frame
    OBVIOUS
  <2>2. QED
    BY <2>1 DEF Frame
<1>4. Level \in [Handler -> Nat] /\ g.h \in Handler
  BY DEF CallsClimb, Frame
<1>5. ASSUME NEW i \in 1..Len(s) PROVE Level[s[i].h] < Level[g.h]
  <2>1. Len(s) \in 1..Len(s) /\ s # <<>>
    BY <1>1
  <2>2. Level[s[Len(s)].h] < Level[g.h]
    BY <1>3, <2>1 DEF CallsClimb
  <2>3. i = Len(s) \/ Level[s[i].h] < Level[s[Len(s)].h]
    BY <1>1, <2>1 DEF Climbing
  <2>4. /\ Level[s[i].h] \in Nat /\ Level[s[Len(s)].h] \in Nat /\ Level[g.h] \in Nat
    BY <1>3, <1>4, <2>1
  <2>5. QED
    BY <2>2, <2>3, <2>4
<1>6. SUFFICES ASSUME NEW i \in 1..Len(r), NEW j \in 1..Len(r), i < j
               PROVE  Level[r[i].h] < Level[r[j].h]
  BY DEF Climbing
<1>7. i \in 1..Len(s)
  BY <1>1, <1>2, <1>6
<1>8. QED
  BY <1>1, <1>2, <1>5, <1>6, <1>7 DEF Climbing

LEMMA ReplacedClimbs ==
    ASSUME NEW s \in Seq(Frame), s # <<>>, NEW f \in Frame, NEW r, Replaced(s, r, f),
           f.h = s[Len(s)].h, NEW Level, Climbing(s, Level)
    PROVE  Climbing(r, Level)
<1>1. \A i \in 1..Len(s) : r[i].h = s[i].h
  BY ReplacedType
<1>2. Len(r) = Len(s)
  BY DEF Replaced
<1>3. QED
  BY <1>1, <1>2 DEF Climbing

LEMMA ClimbNext ==
    ASSUME NEW Level, CallsClimb(Level), TypeInv, ClimbInv(Level), [Next]_vars
    PROVE  ClimbInv(Level)'
<1>1. CASE UNCHANGED vars
  <2>1. stack' = stack
    BY <1>1 DEF vars
  <2>2. \A t \in Thread : Climbing(stack'[t], Level)
    BY <2>1 DEF ClimbInv
  <2>3. QED
    BY <2>2 DEF ClimbInv, Climbing
<1> SUFFICES ASSUME NEW t \in Thread, Start(t) \/ Step(t)
             PROVE  ClimbInv(Level)'
  BY <1>1 DEF Next
<1>0. TypeOK /\ \A u \in Thread : FramesInv(stack[u])
  BY DEF TypeInv
<1>s. stack[t] \in Seq(Frame) /\ Climbing(stack[t], Level)
  BY <1>0 DEF TypeOK, ClimbInv
<1>a. ASSUME Others(t), Climbing(stack'[t], Level)
      PROVE  ClimbInv(Level)'
  <2>1. \A u \in Thread : Climbing(stack'[u], Level)
    BY <1>a DEF Others, ClimbInv
  <2>2. QED
    BY <2>1 DEF ClimbInv, Climbing
<1>r. ASSUME NEW f \in Frame, Changes(t, f) PROVE ClimbInv(Level)'
  <2>1. /\ Replaced(stack[t], stack'[t], f) /\ stack[t] # <<>> /\ Others(t)
        /\ f.h = stack[t][Len(stack[t])].h
    BY <1>r DEF Changes, Top
  <2>2. QED
    BY <1>s, <1>a, <2>1, ReplacedClimbs
<1>2. CASE Start(t)
  BY <1>0, <1>2, <1>a, <1>s, StartShape, PushedClimbs
<1>3. CASE Publish(t)
  BY <1>0, <1>3, <1>r, PublishShape
<1>4. CASE Call(t)
  <2>1. PICK f \in Frame, g \in Frame, r \in Seq(Frame) :
              /\ Others(t) /\ stack[t] # <<>>
              /\ Replaced(stack[t], r, f) /\ Pushed(r, stack'[t], g)
              /\ f.h = Top(t).h /\ f.phase = Top(t).phase
              /\ g.h \in Callees(f.h, f.phase)
    BY <1>0, <1>4, CallShape
  <2>2. Climbing(r, Level)
    BY <1>s, <2>1, ReplacedClimbs DEF Top
  <2>3. r[Len(r)] = f
    BY <2>1 DEF Replaced
  <2>4. Climbing(stack'[t], Level)
    BY <2>1, <2>2, <2>3, PushedClimbs
  <2>5. QED
    BY <1>a, <2>1, <2>4
<1>5. CASE Lock(t)
  BY <1>0, <1>5, <1>r, LockShape
<1>6. CASE Unlock(t)
  BY <1>0, <1>6, <1>r, UnlockShape
<1>7. CASE Return(t)
  <2>1. Others(t) /\ stack[t] # <<>> /\ Popped(stack[t], stack'[t])
    BY <1>0, <1>7, ReturnShape
  <2>2. /\ Len(stack'[t]) = Len(stack[t]) - 1
        /\ \A i \in 1..(Len(stack[t]) - 1) : stack'[t][i] = stack[t][i]
    BY <2>1 DEF Popped
  <2>3. \A i \in 1..Len(stack'[t]) : i \in 1..(Len(stack[t]) - 1) /\ i \in 1..Len(stack[t])
    BY <1>s, <2>1, <2>2, NonEmpty
  <2>4. Climbing(stack'[t], Level)
    BY <1>s, <2>2, <2>3 DEF Climbing
  <2>5. QED
    BY <1>a, <2>1, <2>4
<1>8. QED
  BY <1>2, <1>3, <1>4, <1>5, <1>6, <1>7 DEF Step

\* If calls only lead upwards, no publication comes back to a handler that is still
\* running: the synchronous bus never recurses.
THEOREM NeverReentered ==
    ASSUME NEW Level, CallsClimb(Level)
    PROVE  Spec => []NoReentry
<1>1. Init => ClimbInv(Level)
  BY DEF Init, ClimbInv, Climbing
<1>2. TypeInv /\ ClimbInv(Level) /\ [Next]_vars => ClimbInv(Level)'
  BY ClimbNext
<1>3. TypeInv /\ ClimbInv(Level) => NoReentry
  <2> SUFFICES ASSUME TypeInv, ClimbInv(Level), NEW t \in Thread,
                      NEW i \in 1..Len(stack[t]), NEW j \in 1..Len(stack[t]),
                      stack[t][i].h = stack[t][j].h
               PROVE  i = j
    BY DEF NoReentry
  <2>1. /\ i < j => Level[stack[t][i].h] < Level[stack[t][j].h]
        /\ j < i => Level[stack[t][j].h] < Level[stack[t][i].h]
    BY DEF ClimbInv, Climbing
  <2>2. stack[t] \in Seq(Frame)
    BY DEF TypeInv, TypeOK
  <2>3. stack[t][i] \in Frame /\ stack[t][j] \in Frame
    BY <2>2
  <2>4. Level[stack[t][i].h] \in Nat /\ Level[stack[t][j].h] \in Nat
    BY <2>3 DEF CallsClimb, Frame
  <2>5. QED
    BY <2>1, <2>4
<1>4. QED
  BY <1>1, <1>2, <1>3, TypeInit, TypeNext, PTL DEF Spec
-----------------------------------------------------------------------------
(***************************************************************************)
(* What this discipline gives the application, for any number of threads   *)
(* over its wiring.                                                        *)
(***************************************************************************)
LEMMA DeclaredAlways ==
    ASSUME SilLockOrdered
    PROVE  Spec => []HeldAsDeclared(SilNeeds, SilMay)
<1> DEFINE Declares == HeldAsDeclared(SilNeeds, SilMay)
<1>1. Init => Declares
  BY DEF Init, HeldAsDeclared
<1>2. TypeInv /\ Declares /\ [Next]_vars => Declares'
  <2>1. LockOrdered(SilRank, SilNeeds, SilMay)
    BY DEF SilLockOrdered
  <2> QED BY <2>1, DeclaredNext
<1> QED BY <1>1, <1>2, TypeInit, TypeNext, PTL DEF Spec

\* The lock order and the order of calls, once they hold of the wiring, hold of every
\* call stack of every run: what the application's handlers assume of their callers.
THEOREM OrderKept ==
    ASSUME SilLockOrdered
    PROVE  Spec => []DeclaredOrder
<1>1. HeldAsDeclared(SilNeeds, SilMay) => DeclaredOrder
  BY DEF DeclaredOrder
<1> QED BY <1>1, DeclaredAlways, PTL

\* Whoever takes a status report has the motor's mutex below it on its stack.
LEMMA ReportNeedsMotor ==
    ASSUME Handler = SilHandler, TypeOK, HeldAsDeclared(SilNeeds, SilMay),
           NEW t \in Thread, Inside(t, "MotorStatus")
    PROVE  Holds(t, "motor")
<1>1. PICK i \in 1..Len(stack[t]) : stack[t][i].h[2] = "MotorStatus"
  BY DEF Inside
<1>2. stack[t] \in Seq(Frame) /\ stack[t][i].h \in SilHandler
  <2>1. stack[t] \in Seq(Frame)
    BY DEF TypeOK
  <2>2. stack[t][i] \in Frame
    BY <2>1
  <2> QED BY <2>1, <2>2 DEF Frame
<1>3. SilNeeds[stack[t][i].h] = {"motor"}
  BY <1>1, <1>2 DEF SilNeeds
<1>4. "motor" \in Below(stack[t], i)
  BY <1>3 DEF HeldAsDeclared
<1>5. Below(stack[t], i) \subseteq Owned(stack[t])
  BY <1>2 DEF Below, Owned
<1> QED BY <1>4, <1>5 DEF Holds

\* Status reports never overlap, whichever threads make the motor report: a report
\* is published under the motor's mutex, which one thread owns at a time.
THEOREM ReportsSerialised ==
    ASSUME Handler = SilHandler, "motor" \in Mutex, SilLockOrdered
    PROVE  Spec => []StatusSerialised
<1>1. TypeOK /\ MutualExclusion /\ HeldAsDeclared(SilNeeds, SilMay) => StatusSerialised
  BY ReportNeedsMotor DEF MutualExclusion, StatusSerialised
<1> QED BY <1>1, DeclaredAlways, TypeCorrect, Exclusion, PTL
=============================================================================
