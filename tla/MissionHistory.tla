--------------------------- MODULE MissionHistory ---------------------------
(***************************************************************************)
(* Mission with the history of the route being driven.  None of it feeds   *)
(* back into the program.                                                  *)
(***************************************************************************)
EXTENDS Mission

VARIABLES
    span,   \* the least and the greatest position since the route was accepted
    fresh   \* AutonomousService knew the position when it accepted the route

history == <<span, fresh>>

hvars == <<vars, history>>

HInit == Init /\ span = [lo |-> 0, hi |-> 0] /\ fresh = TRUE

HDrive(c) ==
    /\ RxDrive(c)
    /\ span' = [lo |-> pos, hi |-> pos]
    /\ fresh' = (auto.last_pos = pos)

HMove ==
    /\ Move
    /\ span' = [lo |-> Least(span.lo, pos'), hi |-> -Least(-span.hi, -pos')]
    /\ UNCHANGED fresh

HOther ==
    /\ \/ Sample \/ AutoTick \/ AskPower \/ TellPosition \/ Written \/ Lose \/ RxPosition \/ RxPower
       \/ \E t \in Thread : Deliver(t)
       \/ \E s \in Drives : RxMotor(s)
       \/ \E e \in Environments : RxEnvironment(e) \/ Answer(e)
    /\ UNCHANGED history

HNext == HMove \/ HOther \/ \E c \in Routes : HDrive(c)

HSpec == HInit /\ [][HNext]_hvars

NodeReached == auto'.cmd = auto.cmd /\ auto'.idx > auto.idx

\* The vehicle was at the node, or went past it, since the route was accepted.
OnTheWay ==
    LET x == auto.cmd.route[auto.idx + 1].x
    IN  span.lo - Near < x /\ x < span.hi + Near

\* ReachedOnTheWay: a node counts as reached only if the vehicle has been there since the
\* route was accepted, although the receiver may deliver a position that is older
\* than the one the clock delivered before it; provided AutonomousService knew the
\* position at which the route began.
ReachedOnTheWay == [][NodeReached /\ fresh => OnTheWay]_hvars

\* ReachedOnRoute: the same of every route, as services/autonomous_service.h says.
ReachedOnRoute == [][NodeReached => OnTheWay]_hvars
=============================================================================
