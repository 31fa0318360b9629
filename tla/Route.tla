-------------------------------- MODULE Route --------------------------------
(***************************************************************************)
(* What a mission promises: the nodes of the last route are reached one    *)
(* after the other, a new route replaces the one being driven, and a route *)
(* is reported complete once, when its last node is reached.               *)
(***************************************************************************)
EXTENDS Naturals, Sequences

CONSTANT Itinerary   \* the routes that can be driven

VARIABLES
    route,    \* the nodes of the route
    reached,  \* how many of them have been reached
    driving,  \* the route is not over
    told      \* how often it has been reported complete

vars == <<route, reached, driving, told>>

Init == route = <<>> /\ reached = 0 /\ driving = FALSE /\ told = 0

Accept(r) ==
    /\ route' = r
    /\ reached' = 0
    /\ driving' = (r # <<>>)
    /\ told' = 0

Reach ==
    /\ driving
    /\ reached' = reached + 1
    /\ driving' = (reached' < Len(route))
    /\ told' = IF driving' THEN told ELSE told + 1
    /\ UNCHANGED route

Next == Reach \/ \E r \in Itinerary : Accept(r)

Spec == Init /\ [][Next]_vars
=============================================================================
