---------------------------- MODULE SilDispatch ----------------------------
(***************************************************************************)
(* The dispatch of the application: the threads of Dispatch over the       *)
(* wiring of SilTopology, with the lock order the code keeps without       *)
(* naming it, and what depends on this particular wiring.                  *)
(***************************************************************************)
EXTENDS Dispatch, SilTopology

\* Mission logic first, the log queue and the socket last.
SilRank ==
    "hb" :> 0 @@ "auto" :> 1 @@ "env" :> 2 @@ "motor" :> 3 @@
    "kinematics" :> 4 @@ "power" :> 4 @@ "state" :> 4 @@ "thermal" :> 4 @@
    "log" :> 5 @@ "peer" :> 5

\* The mutex the publisher of an internal message holds whenever it publishes it.
SilNeeds ==
    [h \in SilHandler |->
        CASE h[2] = "MotorStatus" -> {"motor"}
          [] h[2] \in {"InternalEnvRequest", "InternalEnvData"} -> {"auto"} \cup
                 (IF h[2] = "InternalEnvData" THEN {"env"} ELSE {})
          [] OTHER -> {}]

\* Everything a caller of the handler may hold: the locks ranked below its own
\* that some chain of publications can have taken.
SilMay ==
    [h \in SilHandler |->
        CASE h[2] = "MotorStatus" -> {"auto", "env", "motor"}
          [] h = <<"Log", "log">> ->
                 {"hb", "auto", "env", "motor", "kinematics", "power", "state", "thermal"}
          [] h[2] = "MotorSequence" -> {"auto", "env"}
          [] h[2] = "InternalEnvData" -> {"auto", "env"}
          [] h[2] = "InternalEnvRequest" -> {"auto"}
          [] h[2] \in {"KinematicsRequest", "PowerRequest", "KinematicsData", "PowerData"} -> {"auto"}
          [] h[1] = "UdpBridge" /\ h[2] # "rx_loop" -> {"auto", "env"}
          [] OTHER -> {}]

\* How deep in a chain of publications a handler can be.
SilLevel ==
    [h \in SilHandler |->
        CASE h[2] \in {"clock_loop", "rx_loop", "worker_loop", "heartbeat"} -> 0
          [] h[2] \in {"log", "wait_for"} -> 9
          [] h[1] = "UdpBridge" -> 8
          [] h[2] = "MotorStatus" -> 7
          [] h[1] = "Motor" -> 6
          [] h[2] = "InternalEnvData" -> 5
          [] h[2] = "InternalEnvRequest" -> 4
          [] h[2] \in {"KinematicsData", "PowerData"} -> 3
          [] h[2] \in {"KinematicsRequest", "PowerRequest"} -> 2
          [] OTHER -> 1]

SilLockOrdered == LockOrdered(SilRank, SilNeeds, SilMay) /\ CallsClimb(SilLevel)

\* DeclaredOrder: the wiring obeys one lock order and one order of calls, and every
\* handler finds the locks on its thread that the order says it finds: the premises
\* of the proofs that the dispatch neither deadlocks nor recurses.
DeclaredOrder == SilLockOrdered /\ HeldAsDeclared(SilNeeds, SilMay)

Inside(t, m) == \E i \in 1..Len(stack[t]) : stack[t][i].h[2] = m

\* StatusSerialised: two status reports never overlap, although the bus takes no
\* lock and both the clock and the receiver make the motor report: otherwise the
\* State, Power and Kinematics services could take them in different orders.
StatusSerialised ==
    \A t, u \in Thread : Inside(t, "MotorStatus") /\ Inside(u, "MotorStatus") => t = u
=============================================================================
