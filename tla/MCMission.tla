------------------------------ MODULE MCMission ------------------------------
(***************************************************************************)
(* Mission on a short track: two regions side by side, the second one      *)
(* steep, other versions of the first, and routes of one and two nodes,    *)
(* with and without tuning, and with none.                                 *)
(***************************************************************************)
EXTENDS Mission

Env(id, lo, hi, incline, max) ==
    [region_id |-> id, lo |-> lo, hi |-> hi, incline |-> incline, max_speed |-> max]

Flat == Env(1, -100, 25, 0, 20)
Slow == Env(1, -100, 15, 0, 10)
Hill == Env(2, 10, 500, -8, 20)
Rough == Env(1, -100, 25, -8, 16)

Track == {Flat, Hill}
Changing == {Flat, Slow, Hill}
Resurfaced == {Flat, Rough}

Node(x, timeout) == [x |-> x, timeout |-> timeout]

Drive(mode, tuning, route) == [mode |-> mode, p_gain |-> 50, tuning |-> tuning, route |-> route]

Tour == Drive("Eco", TRUE, <<Node(20, 4), Node(50, 4)>>)
Hop == Drive("ManualTuning", TRUE, <<Node(35, 3)>>)
Dash == Drive("Performance", FALSE, <<Node(10, 2), Node(30, 3)>>)
Nothing == Drive("Eco", FALSE, <<>>)

AllRoutes == {Tour, Dash, Nothing}
Tours == {Tour, Hop}
OneDash == {Dash}
OneTour == {Tour}

ByHand == {[id |-> 1, rpm |-> 15, dur |-> 2]}
NoDrive == {}
=============================================================================
