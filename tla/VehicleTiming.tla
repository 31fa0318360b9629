--------------------------- MODULE VehicleTiming ---------------------------
(***************************************************************************)
(* Vehicle with history: how long the kinematics have been driven.  None   *)
(* of it feeds back into the program.                                      *)
(***************************************************************************)
EXTENDS Vehicle

VARIABLES
    driven,  \* ticks integrated at the speed of the motor's step since it began
    since,   \* ticks integrated since the motor's sequence was accepted
    reused   \* its cmd_id was that of the sequence before it, or of the tick in flight

timing == <<driven, since, reused>>

tvars == <<vars, timing>>

TInit == Init /\ driven = 0 /\ since = 0 /\ reused = FALSE

\* The motor has yet to take a tick that carries the id of command c.
InFlight(c) == tick.cmd_id = c.cmd_id /\ "Motor" \in Range(tick.left)

TAccept(t) ==
    /\ MotorSequence(t)
    /\ driven' = 0 /\ since' = 0
    /\ LET c == Head(pending[t]) IN
       reused' = (c.cmd_id = motor.cmd.cmd_id \/ InFlight(c))

TAdvance ==
    /\ MotorAdvances
    /\ driven' = 0
    /\ UNCHANGED <<since, reused>>

\* The tick is one at the speed and under the id of the step the motor is on.
Drives == Applies /\ tick.rpm = StatusOf(motor).rpm

TKinematicsTick ==
    /\ KinematicsTick
    /\ driven' = IF Drives THEN driven + 1 ELSE driven
    /\ since' = IF motor.active THEN since + 1 ELSE since
    /\ UNCHANGED reused

TOther ==
    /\ \/ Sample \/ AutoTick \/ PowerTick \/ MotorIgnores \/ MotorCounts \/ ReportStep
       \/ PeerStep \/ \E c \in AutoCommands : AutoCommand(c)
    /\ UNCHANGED timing

TNext == TAdvance \/ TKinematicsTick \/ TOther \/ \E t \in Thread : TAccept(t)

TSpec == TInit /\ [][TNext]_tvars

(* The same with the fairness of Vehicle, for the properties that promise an end. *)
TFairSpec == TSpec /\ Fairness

\* The bus calls a subscriber of the tick once.
TickedOnce == \A i, j \in 1..Len(TickOrder) : TickOrder[i] = TickOrder[j] => i = j

\* Periods it takes to use up a duration; at least one, as a step of no duration
\* still lasts until the next tick.
Periods(dur) == IF dur = 0 THEN 1 ELSE (dur + kTickUs - 1) \div kTickUs

StepEnds == motor.active /\ motor'.cmd = motor.cmd /\ motor'.idx > motor.idx

InTime == driven = Periods(motor.cmd.steps[motor.idx + 1].dur)

\* StepsLastTheirTime: a step that is not preempted moves the vehicle at its speed for
\* its duration, rounded up to whole periods: no tick is lost between the clock's
\* sample and the motor, and none is counted that was sampled before the step
\* began, except when a command reuses the id of the last one or of a tick in flight.
StepsLastTheirTime == [][StepEnds /\ ~ reused => InTime]_tvars

\* ElapsedSinceStart: while a sequence runs, the elapsed time reported under its id is
\* no more than what was integrated since it was accepted.
ElapsedSinceStart ==
    motor.active /\ Unlocked /\ kin.cmd_id = motor.cmd.cmd_id =>
        kin.elapsed <= since * kTickUs
=============================================================================
