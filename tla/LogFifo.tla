------------------------------ MODULE LogFifo ------------------------------
(***************************************************************************)
(* What the log promises: an entry that is logged while the log is open is *)
(* emitted once, in the order of logging; the log closes only when nothing *)
(* is left to emit, and what is logged afterwards is never seen.  The      *)
(* process may die, and take what is pending with it.                      *)
(***************************************************************************)
EXTENDS Naturals, Sequences

CONSTANT Entry

VARIABLES pending, out, phase

vars == <<pending, out, phase>>

Init == pending = <<>> /\ out = <<>> /\ phase = "open"

Log(e) ==
    /\ phase = "open"
    /\ pending' = Append(pending, e)
    /\ UNCHANGED <<out, phase>>

Emit ==
    /\ pending # <<>>
    /\ out' = Append(out, Head(pending))
    /\ pending' = Tail(pending)
    /\ UNCHANGED phase

Close ==
    /\ phase = "open" /\ pending = <<>>
    /\ phase' = "closed"
    /\ UNCHANGED <<pending, out>>

Die ==
    /\ phase' = "dead"
    /\ pending' = <<>>
    /\ UNCHANGED out

Next == Emit \/ Close \/ Die \/ \E e \in Entry : Log(e)

Spec == Init /\ [][Next]_vars /\ WF_vars(Emit)
=============================================================================
