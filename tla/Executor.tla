------------------------------ MODULE Executor ------------------------------
(***************************************************************************)
(* What the simulator promises about motor sequences: it executes          *)
(* steps[0..num_steps-1] one after the other, a new command preempts the   *)
(* running sequence, and a sequence that is not preempted comes to its     *)
(* end.  Time, threads and messages are left out.                          *)
(***************************************************************************)
EXTENDS Naturals

CONSTANTS Sequence,   \* the sequences the motor can be given
          NoSequence  \* what it has before the first one

VARIABLES cmd, step   \* step = 0 when no sequence runs

vars == <<cmd, step>>

Init == cmd = NoSequence /\ step = 0

\* A sequence whose first step takes no time, or that has no step, is a stop.
Starts(c) == c.num_steps > 0 /\ c.steps[1].dur > 0

Accept(c) ==
    /\ cmd' = c
    /\ step' = IF Starts(c) THEN 1 ELSE 0

Advance ==
    /\ step > 0
    /\ step' = IF step < cmd.num_steps THEN step + 1 ELSE 0
    /\ UNCHANGED cmd

Next == Advance \/ \E c \in Sequence : Accept(c)

Spec == Init /\ [][Next]_vars /\ WF_vars(Advance)
=============================================================================
