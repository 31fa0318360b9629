---------------------------- MODULE SilTopology ----------------------------
(***************************************************************************)
(* The wiring of the application: the services, what each subscribes to,   *)
(* the mutex its handlers take and what they publish in each phase.  These *)
(* are the values of the constants of Dispatch.                            *)
(*                                                                         *)
(* Each alternative in the Paths of a handler is one way through its       *)
(* conditions; the data that decides between them is left out, so the      *)
(* wiring allows every sequence of publications the code can make and some *)
(* it cannot.  "log" stands for LogService::log, which every logger calls, *)
(* and "wait_for" for the sleep of the clock: calls that take a mutex      *)
(* without going through the bus.                                          *)
(***************************************************************************)
EXTENDS Naturals, Sequences, SequencesExt, TLC

CONSTANTS
    RxIds,     \* the message ids of the datagrams the peer sends
    MaxDrain   \* the most log entries the worker finds in the queue

\* The services in the order of the tuple AppServices.
AppServices == <<"Motor", "Kinematics", "Power", "State", "Thermal",
                 "Environment", "Autonomous", "Log", "UdpBridge">>

(***************************************************************************)
(* The constructors subscribe, and the members of AppServicesContainer's   *)
(* tuple are constructed from the last to the first: libstdc++'s           *)
(* _Tuple_impl derives from the _Tuple_impl of its tail, and bases come    *)
(* before members.                                                         *)
(***************************************************************************)
ConstructionOrder == Reverse(AppServices)

MotorSubscribes == {"MotorSequence", "PhysicsTick"}
KinematicsSubscribes == {"PhysicsTick", "KinematicsRequest", "MotorStatus"}
PowerSubscribes == {"PhysicsTick", "PowerRequest", "MotorStatus"}
StateSubscribes == {"StateRequest", "MotorStatus"}
ThermalSubscribes == {"PhysicsTick", "EnvironmentData", "ThermalRequest"}
EnvironmentSubscribes == {"EnvironmentData", "InternalEnvRequest"}
AutonomousSubscribes == {"AutoDriveCommand", "KinematicsData", "PhysicsTick",
                         "PowerData", "InternalEnvData"}
LogSubscribes == {}
UdpBridgeSubscribes == {"Log", "StateData", "KinematicsData", "PowerData", "ThermalData",
                        "EnvironmentAck", "AutoDriveStatus", "EnvironmentRequest"}

Subscribes ==
    "Motor" :> MotorSubscribes @@ "Kinematics" :> KinematicsSubscribes @@
    "Power" :> PowerSubscribes @@ "State" :> StateSubscribes @@
    "Thermal" :> ThermalSubscribes @@ "Environment" :> EnvironmentSubscribes @@
    "Autonomous" :> AutonomousSubscribes @@ "Log" :> LogSubscribes @@
    "UdpBridge" :> UdpBridgeSubscribes

UdpBridgePublishes == {"StateRequest", "MotorSequence", "KinematicsRequest", "PowerRequest",
                       "ThermalRequest", "AutoDriveCommand", "EnvironmentData"}

DirectCalls == "log" :> <<<<"Log", "log">>>> @@ "wait_for" :> <<<<"State", "wait_for">>>>

BusMessages == UNION { Subscribes[s] : s \in DOMAIN Subscribes }

ASSUME SilAssumption == RxIds \subseteq BusMessages /\ MaxDrain \in Nat \ {0}

\* Mutant: every id is authorized.
Authorized_Any(id) == TRUE

\* try_publish_raw: only ids in UdpBridge::Publishes reach the bus.
Authorized(id) == id \in UdpBridgePublishes

SilMsg == BusMessages \cup DOMAIN DirectCalls

\* bind_all appends one handler per message and service to the list of dispatch.
HandlersOf(m) ==
    LET takers == SelectSeq(ConstructionOrder, LAMBDA s : m \in Subscribes[s])
    IN  [i \in 1..Len(takers) |-> <<takers[i], m>>]

SilSubscribers == [m \in BusMessages |-> HandlersOf(m)] @@ DirectCalls

-----------------------------------------------------------------------------
SilMutex == {"motor", "kinematics", "power", "state", "thermal", "env", "auto",
             "log", "peer", "hb"}

SilRecursive == {"env", "auto"}

ServiceMutex ==
    "Motor" :> "motor" @@ "Kinematics" :> "kinematics" @@ "Power" :> "power" @@
    "State" :> "state" @@ "Thermal" :> "thermal" @@ "Environment" :> "env" @@
    "Autonomous" :> "auto" @@ "Log" :> "log" @@ "UdpBridge" :> "peer" @@ "main" :> "hb"

\* What a handler publishes before it locks, under its lock, and after it.
Publishing(pre, held, post) == "pre" :> pre @@ "held" :> held @@ "post" :> post

Quiet == Publishing(<<>>, <<>>, <<>>)

Held(seqs) == { Publishing(<<>>, s, <<>>) : s \in seqs }

\* All ways to do one of A and then one of B.
Then(A, B) == { a \o b : a \in A, b \in B }

\* Mutant: the motor reports after it has released its lock.
MotorPaths_Unlocked ==
    <<"Motor", "MotorSequence">> :> {Publishing(<<"log">>, <<>>, <<"MotorStatus">>)} @@
    <<"Motor", "PhysicsTick">> :> {Quiet, Publishing(<<>>, <<>>, <<"MotorStatus", "log">>)}

\* MotorService: every status is published under the lock, at the start of a
\* sequence, at each step and at its end.
MotorPaths ==
    <<"Motor", "MotorSequence">> :>
        { Publishing(<<"log">>, s, <<>>) : s \in {<<"MotorStatus">>, <<"MotorStatus", "log">>} } @@
    <<"Motor", "PhysicsTick">> :> Held({<<>>, <<"MotorStatus", "log">>})

\* Mutant: the reply is published under the lock.
KinematicsPaths_Locked ==
    <<"Kinematics", "PhysicsTick">> :> Held({<<>>, <<"log">>}) @@
    <<"Kinematics", "MotorStatus">> :> {Quiet} @@
    <<"Kinematics", "KinematicsRequest">> :> Held({<<"KinematicsData">>})

\* KinematicsService answers a request after it has released its lock.
KinematicsPaths ==
    <<"Kinematics", "PhysicsTick">> :> Held({<<>>, <<"log">>}) @@
    <<"Kinematics", "MotorStatus">> :> {Quiet} @@
    <<"Kinematics", "KinematicsRequest">> :> {Publishing(<<>>, <<>>, <<"KinematicsData">>)}

PowerPaths ==
    <<"Power", "PhysicsTick">> :> Held({<<>>, <<"log">>}) @@
    <<"Power", "MotorStatus">> :> {Quiet} @@
    <<"Power", "PowerRequest">> :> {Publishing(<<>>, <<>>, <<"PowerData">>)}

\* StateService; the clock publishes the tick without its lock, then sleeps, for
\* which it takes the lock again, unless the tick took longer than a period.
StatePaths ==
    <<"State", "StateRequest">> :> {Publishing(<<>>, <<>>, <<"StateData">>)} @@
    <<"State", "MotorStatus">> :> Held({<<>>, <<"log">>}) @@
    <<"State", "clock_loop">> :>
        { Publishing(<<>>, <<>>, s) : s \in {<<"PhysicsTick", "wait_for">>, <<"PhysicsTick">>} } @@
    <<"State", "wait_for">> :> {Quiet}

ThermalPaths ==
    <<"Thermal", "PhysicsTick">> :> Held({<<>>, <<"log">>}) @@
    <<"Thermal", "EnvironmentData">> :> {Quiet} @@
    <<"Thermal", "ThermalRequest">> :> {Publishing(<<>>, <<>>, <<"ThermalData">>)}

\* EnvironmentService: a hit is logged and shared, a miss is throttled or
\* logged and forwarded, all of it under the lock.
EnvironmentPaths ==
    <<"Environment", "EnvironmentData">> :> Held({<<"log", "EnvironmentAck">>}) @@
    <<"Environment", "InternalEnvRequest">> :>
        Held({<<"log", "InternalEnvData">>, <<>>, <<"log", "EnvironmentRequest">>})

\* publish_motor_sequence_for_current_node
CurrentNode == {<<"MotorSequence">>, <<"log", "MotorSequence">>}

\* The node is reached: it is the last one, or the next one starts.
NodeReached ==
    {<<"log", "log", "AutoDriveStatus", "MotorSequence">>} \cup Then({<<"log">>}, CurrentNode)

\* Mutant: new environment data makes it ask where the vehicle is.
AutonomousPaths_Asks ==
    <<"Autonomous", "AutoDriveCommand">> :> Held(Then({<<"log">>}, {<<>>} \cup CurrentNode)) @@
    <<"Autonomous", "InternalEnvData">> :> Held({<<"KinematicsRequest">>}) @@
    <<"Autonomous", "PowerData">> :> {Quiet} @@
    <<"Autonomous", "KinematicsData">> :>
        Held(Then({<<>>, <<"InternalEnvRequest">>}, {<<>>} \cup NodeReached)) @@
    <<"Autonomous", "PhysicsTick">> :> Held({<<>>, <<"KinematicsRequest", "PowerRequest">>})

AutonomousPaths ==
    <<"Autonomous", "AutoDriveCommand">> :> Held(Then({<<"log">>}, {<<>>} \cup CurrentNode)) @@
    <<"Autonomous", "InternalEnvData">> :> Held(Then({<<>>, <<"log">>}, {<<>>} \cup CurrentNode)) @@
    <<"Autonomous", "PowerData">> :> {Quiet} @@
    <<"Autonomous", "KinematicsData">> :>
        Held(Then({<<>>, <<"InternalEnvRequest">>}, {<<>>} \cup NodeReached)) @@
    <<"Autonomous", "PhysicsTick">> :> Held({<<>>, <<"KinematicsRequest", "PowerRequest">>})

\* LogService: log() only queues; the worker swaps the queue under its lock and
\* publishes the entries without it.
LogPaths ==
    <<"Log", "log">> :> {Quiet} @@
    <<"Log", "worker_loop">> :>
        { Publishing(<<>>, <<>>, [i \in 1..n |-> "Log"]) : n \in 1..MaxDrain }

\* UdpBridge: forward_to_udp sends under the lock; the receiver records the
\* sender under it, and injects the datagram, if it is valid, without it.
UdpBridgePaths ==
    [h \in { <<"UdpBridge", m>> : m \in Subscribes["UdpBridge"] } |-> {Quiet}] @@
    <<"UdpBridge", "rx_loop">> :>
        {Quiet} \cup { Publishing(<<>>, <<>>, <<id>>) : id \in {i \in RxIds : Authorized(i)} }

\* The heartbeat thread of main: a timed wait, then one log entry.
MainPaths == <<"main", "heartbeat">> :> {Publishing(<<>>, <<>>, <<"log">>)}

SilPaths == MotorPaths @@ KinematicsPaths @@ PowerPaths @@ StatePaths @@ ThermalPaths @@
            EnvironmentPaths @@ AutonomousPaths @@ LogPaths @@ UdpBridgePaths @@ MainPaths

SilHandler == DOMAIN SilPaths

SilMutexOf == [h \in SilHandler |-> ServiceMutex[h[1]]]

SeqSet(s) == { s[i] : i \in DOMAIN s }

\* What a handler publishes on one or another of its paths.
PublishedBy(h) == UNION { SeqSet(p.pre) \cup SeqSet(p.held) \cup SeqSet(p.post) : p \in SilPaths[h] }

SilRoot == "clock" :> <<"State", "clock_loop">> @@
           "rx" :> <<"UdpBridge", "rx_loop">> @@
           "worker" :> <<"Log", "worker_loop">> @@
           "heartbeat" :> <<"main", "heartbeat">>
=============================================================================
