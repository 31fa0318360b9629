------------------------------- MODULE Mission -------------------------------
(***************************************************************************)
(* AutonomousService and EnvironmentService on the two threads that reach  *)
(* them.  While a route is active, every tick of the clock asks for the    *)
(* position and the power, and the answers come back on the same stack,    *)
(* under AutonomousService's recursive lock.  The receiver brings routes,  *)
(* environments, and requests of the peer, whose answers reach             *)
(* AutonomousService as well.                                              *)
(*                                                                         *)
(* A region is found by its place in the cache, which is what the shared   *)
(* pointer to it stands for: it is overwritten in place.  The motor, whose *)
(* reports Vehicle models, takes a sequence at once here, and has one      *)
(* step.  Distances are in hundredths of a metre, speeds in hundredths for *)
(* each period, durations in periods; the direction of travel is x, and    *)
(* regions lie across it.                                                  *)
(***************************************************************************)
EXTENDS Integers, Sequences, SequencesExt

CONSTANTS
    Environments,   \* EnvironmentData of the peer
    Routes,         \* AutoDriveCommands of the peer
    Drives,         \* MotorSequences of the peer, of one step
    DefaultSpeed,   \* without a region (1000 rpm)
    Steep,          \* an incline beyond this halves the speed (5 %)
    Near,           \* a node this close counts as reached (0.1 m)
    Throttle,       \* periods between two requests (500 ms)
    MaxStats,       \* slots for node statistics (8)
    MaxEnvs,        \* slots for environment ids (4)
    MissionId,      \* cmd_id of the sequences of a mission (999)
    MaxEnergy,      \* bound: the energy saturates there
    MaxIssued       \* bound: how many datagrams the peer sends unasked

Mode == {"Eco", "Performance", "ManualTuning"}

EnvironmentPayload ==
    [region_id : Nat, lo : Int, hi : Int, incline : Int, max_speed : Nat]

ManeuverNode == [x : Int, timeout : Nat]

AutoDriveCommandPayload ==
    [mode : Mode, p_gain : Nat, tuning : BOOLEAN, route : Seq(ManeuverNode)]

MotorSequence == [id : Nat, rpm : Int, dur : Nat]

ASSUME MissionAssumption ==
    /\ Environments \subseteq EnvironmentPayload
    /\ Routes \subseteq AutoDriveCommandPayload
    /\ \A c \in Routes : Len(c.route) <= MaxStats
    /\ Drives \subseteq MotorSequence
    /\ DefaultSpeed \in Nat /\ Steep \in Nat /\ Near \in Nat \ {0} /\ Throttle \in Nat
    /\ MaxStats \in Nat /\ MaxEnvs \in Nat /\ MissionId \in Nat
    /\ MaxEnergy \in Nat /\ MaxIssued \in Nat

Thread == {"clock", "rx"}

VARIABLES
    auto,     \* AutonomousService
    cache,    \* EnvironmentService: the regions, in the order they came
    since,    \* periods since it last asked the peer, up to Throttle + 1
    update,   \* the region being overwritten, under its lock: <<>> or <<[at, with]>>
    motor,    \* MotorService
    pos,      \* KinematicsService: the position
    tick,     \* the PhysicsTick in flight: the id and the speed the clock sampled
    job,      \* where each thread is, the position it was told and the node it drives to
    request,  \* the EnvironmentRequest on its way to the peer: <<>> or <<x>>
    sent,     \* AutoDriveStatus sent for the present route
    issued    \* datagrams the peer has sent

vars == <<auto, cache, since, update, motor, pos, tick, job, request, sent, issued>>

NoRoute == [mode |-> "Eco", p_gain |-> 0, tuning |-> FALSE, route |-> <<>>]

\* No pointer to a region: nothing is inside it, and the default speed applies.
NoRegion == [region_id |-> 0, lo |-> 1, hi |-> 0, incline |-> 0, max_speed |-> DefaultSpeed]

Least(a, b) == IF a <= b THEN a ELSE b

Abs(n) == IF n < 0 THEN -n ELSE n

-----------------------------------------------------------------------------
Percent(c) == [Eco |-> 75, Performance |-> 110, ManualTuning |-> c.p_gain][c.mode]

\* The speed for a command in region r.
Speed(c, r) ==
    LET steep == c.tuning /\ Abs(r.incline) > Steep
    IN  (r.max_speed * Percent(c)) \div (IF steep THEN 200 ELSE 100)

\* What is read through the shared pointer to region i.  AutonomousService does
\* not hold the lock of the cache: it may read any mixture of the old and the new
\* fields while the region is overwritten.
Seen(i) ==
    IF update # <<>> /\ update[1].at = i
    THEN LET old == cache[i]
             new == update[1].with
         IN  [region_id : {old.region_id}, lo : {old.lo, new.lo}, hi : {old.hi, new.hi},
              incline : {old.incline, new.incline}, max_speed : {old.max_speed, new.max_speed}]
    ELSE {cache[i]}

Region == IF auto.env = 0 THEN {NoRegion} ELSE Seen(auto.env)

\* MotorService takes a sequence.
Taken(s) == [active |-> s.dur > 0, id |-> s.id, rpm |-> IF s.dur > 0 THEN s.rpm ELSE 0,
             left |-> IF s.dur > 0 THEN s.dur ELSE motor.left]

\* publish_motor_sequence_for_current_node, for node i of command c in region r.
CurrentNode(c, i, r) ==
    Taken([id |-> MissionId, rpm |-> Speed(c, r), dur |-> c.route[i + 1].timeout])

StopSequence == Taken([id |-> 0, rpm |-> 0, dur |-> 0])

\* The thread goes on, or on with the same position and node.
Leave(t, at) == job' = [job EXCEPT ![t] = [at |-> at, x |-> 0, target |-> 0]]

Tell(t, x) == job' = [job EXCEPT ![t] = [at |-> "check", x |-> x, target |-> 0]]

Stay(t, at) == job' = [job EXCEPT ![t].at = at]

At(t, at) == job[t].at = at

\* No thread is in a handler of AutonomousService that it has to wait in.
AutoFree == \A t \in Thread : job[t].at \notin {"check", "ask", "reach", "power"}

EnvFree == update = <<>>

-----------------------------------------------------------------------------
Init ==
    /\ auto = [cmd |-> NoRoute, idx |-> 0, active |-> FALSE, env |-> 0, stats |-> <<>>,
               used |-> <<>>, energy |-> 0, start_energy |-> 0, start_pos |-> 0, last_pos |-> 0]
    /\ cache = <<>>
    /\ since = Throttle + 1
    /\ update = <<>>
    /\ motor = [active |-> FALSE, id |-> 0, rpm |-> 0, left |-> 0]
    /\ pos = 0
    /\ tick = [id |-> 0, rpm |-> 0]
    /\ job = [t \in Thread |-> [at |-> "idle", x |-> 0, target |-> 0]]
    /\ request = <<>>
    /\ sent = 0
    /\ issued = 0

\* The clock samples the motor's last report; a period has passed.
Sample ==
    /\ At("clock", "idle")
    /\ tick' = [id |-> motor.id, rpm |-> IF motor.active THEN motor.rpm ELSE 0]
    /\ since' = Least(since + 1, Throttle + 1)
    /\ Leave("clock", "tick")
    /\ UNCHANGED <<auto, cache, update, motor, pos, request, sent, issued>>

\* AutonomousService::on_message(PhysicsTick): while a route is active it asks for
\* the position, and is told.
AutoTick ==
    /\ At("clock", "tick")
    /\ AutoFree
    /\ IF auto.active THEN Tell("clock", pos) ELSE Leave("clock", "move")
    /\ UNCHANGED <<auto, cache, since, update, motor, pos, tick, request, sent, issued>>

\* KinematicsService and MotorService take the tick.
Move ==
    /\ At("clock", "move")
    /\ pos' = pos + tick.rpm
    /\ motor' = IF ~ motor.active \/ tick.id # motor.id THEN motor
                ELSE IF motor.left > 1 THEN [motor EXCEPT !.left = @ - 1]
                ELSE [motor EXCEPT !.active = FALSE, !.rpm = 0]
    /\ Leave("clock", "idle")
    /\ UNCHANGED <<auto, cache, since, update, tick, request, sent, issued>>

-----------------------------------------------------------------------------
\* Where a thread goes from KinematicsData: the clock asks for the power next.
After(t) == IF t = "clock" THEN "power" ELSE "idle"

\* The receiver delivers to AutonomousService the position the peer has asked for.
TellPosition ==
    /\ At("rx", "position")
    /\ AutoFree
    /\ Tell("rx", job["rx"].x)
    /\ UNCHANGED <<auto, cache, since, update, motor, pos, tick, request, sent, issued>>

\* AutonomousService::on_message(KinematicsData), without an active route ...
NotDriving(t) ==
    /\ At(t, "check")
    /\ ~ auto.active \/ auto.idx >= Len(auto.cmd.route)
    /\ auto' = [auto EXCEPT !.last_pos = job[t].x]
    /\ Leave(t, After(t))
    /\ UNCHANGED <<cache, since, update, motor, pos, tick, request, sent, issued>>

Outside(x, r) == x < r.lo \/ x > r.hi

\* ... with one: it asks for a region if it is in none it knows.
CheckRegion(t) ==
    /\ At(t, "check")
    /\ auto.active /\ auto.idx < Len(auto.cmd.route)
    /\ \E r \in Region :
          job' = [job EXCEPT
              ![t].at = IF auto.cmd.tuning /\ Outside(job[t].x, r) THEN "ask" ELSE "reach",
              ![t].target = auto.cmd.route[auto.idx + 1].x]
    /\ UNCHANGED <<auto, cache, since, update, motor, pos, tick, request, sent, issued>>

Covering(x) == { i \in DOMAIN cache : cache[i].lo <= x /\ x <= cache[i].hi }

\* The region that a scan of the cache comes to first.
First(S) == { i \in S : \A j \in S : i <= j }

\* Mutant: the limit on the tracked ids is gone.
Tracked_All(used, id) == IF Contains(used, id) THEN used ELSE Append(used, id)

Tracked(used, id) ==
    IF Contains(used, id) \/ Len(used) >= MaxEnvs THEN used ELSE Append(used, id)

\* EnvironmentService::on_message(InternalEnvRequest), a hit: the region is shared,
\* and AutonomousService drives on with it.
Hit(t) ==
    /\ At(t, "ask")
    /\ EnvFree
    /\ \E i \in First(Covering(job[t].x)) :
          /\ auto' = [auto EXCEPT !.env = i, !.used = Tracked(@, cache[i].region_id)]
          /\ motor' = IF auto.active THEN CurrentNode(auto.cmd, auto.idx, cache[i]) ELSE motor
    /\ Stay(t, "reach")
    /\ UNCHANGED <<cache, since, update, pos, tick, request, sent, issued>>

\* A miss: the peer is asked, unless it has been asked a moment ago.
Miss(t) ==
    /\ At(t, "ask")
    /\ EnvFree
    /\ Covering(job[t].x) = {}
    /\ IF since > Throttle
       THEN request' = <<job[t].x>> /\ since' = 0
       ELSE UNCHANGED <<request, since>>
    /\ Stay(t, "reach")
    /\ UNCHANGED <<auto, cache, update, motor, pos, tick, sent, issued>>

\* Mutant: a node just out of reach counts.
Reached_Inclusive(target, x) ==
    \/ Abs(target - x) <= Near
    \/ (target - auto.last_pos) * (target - x) <= 0

\* A node is reached when the vehicle is close to it or has gone past it.
Reached(target, x) ==
    \/ Abs(target - x) < Near
    \/ (target - auto.last_pos) * (target - x) <= 0

\* The node is not reached yet.
Underway(t) ==
    /\ At(t, "reach")
    /\ ~ Reached(job[t].target, job[t].x)
    /\ auto' = [auto EXCEPT !.last_pos = job[t].x]
    /\ Leave(t, After(t))
    /\ UNCHANGED <<cache, since, update, motor, pos, tick, request, sent, issued>>

\* The statistics of the node that has been reached at x.
Recorded(x) ==
    IF Len(auto.stats) < MaxStats
    THEN Append(auto.stats, [initial |-> auto.start_energy, final |-> auto.energy,
                             moved |-> Abs(x - auto.start_pos)])
    ELSE auto.stats

More == auto.idx + 1 < Len(auto.cmd.route)

\* The node is reached, and the next one starts.
ReachNode(t) ==
    /\ At(t, "reach")
    /\ Reached(job[t].target, job[t].x)
    /\ More
    /\ auto' = [auto EXCEPT !.stats = Recorded(job[t].x), !.idx = @ + 1, !.last_pos = job[t].x]
    /\ \E r \in Region : motor' = CurrentNode(auto.cmd, auto.idx + 1, r)
    /\ Leave(t, After(t))
    /\ UNCHANGED <<cache, since, update, pos, tick, request, sent, issued>>

\* Mutant: the motor is not stopped.
ReachLast_DrivesOn(t) ==
    /\ At(t, "reach")
    /\ Reached(job[t].target, job[t].x)
    /\ ~ More
    /\ auto' = [auto EXCEPT !.stats = Recorded(job[t].x), !.idx = @ + 1, !.active = FALSE,
                            !.last_pos = job[t].x]
    /\ sent' = sent + 1
    /\ Leave(t, After(t))
    /\ UNCHANGED <<cache, since, update, motor, pos, tick, request, issued>>

\* It was the last: the status is published, and the motor stopped.
ReachLast(t) ==
    /\ At(t, "reach")
    /\ Reached(job[t].target, job[t].x)
    /\ ~ More
    /\ auto' = [auto EXCEPT !.stats = Recorded(job[t].x), !.idx = @ + 1, !.active = FALSE,
                            !.last_pos = job[t].x]
    /\ sent' = sent + 1
    /\ motor' = StopSequence
    /\ Leave(t, After(t))
    /\ UNCHANGED <<cache, since, update, pos, tick, request, issued>>

\* AutonomousService::on_message(PowerData), one period of it.
Charged == [auto EXCEPT !.energy = Least(@ + 1, MaxEnergy)]

\* The tick asks for the power, and AutonomousService::on_message(PhysicsTick) ends.
AskPower ==
    /\ At("clock", "power")
    /\ auto' = Charged
    /\ Leave("clock", "move")
    /\ UNCHANGED <<cache, since, update, motor, pos, tick, request, sent, issued>>

Deliver(t) ==
    NotDriving(t) \/ CheckRegion(t) \/ Hit(t) \/ Miss(t) \/ Underway(t) \/ ReachNode(t) \/ ReachLast(t)

-----------------------------------------------------------------------------
\* The receiver has a datagram the peer sends of its own accord.
Receive == At("rx", "idle") /\ issued < MaxIssued /\ issued' = issued + 1

\* Mutant: the new route starts at the node the old one had come to.
RxDrive_KeepsNode(c) ==
    /\ Receive
    /\ AutoFree
    /\ auto' = [auto EXCEPT !.cmd = c, !.active = c.route # <<>>, !.env = 0, !.stats = <<>>,
                            !.used = <<>>, !.energy = 0, !.start_energy = 0, !.start_pos = auto.last_pos]
    /\ motor' = IF c.route # <<>> THEN CurrentNode(c, 0, NoRegion) ELSE motor
    /\ sent' = 0
    /\ UNCHANGED <<cache, since, update, pos, tick, job, request>>

\* AutonomousService::on_message(AutoDriveCommand)
RxDrive(c) ==
    /\ Receive
    /\ AutoFree
    /\ auto' = [cmd |-> c, idx |-> 0, active |-> c.route # <<>>, env |-> 0, stats |-> <<>>,
                used |-> <<>>, energy |-> 0, start_energy |-> 0, start_pos |-> auto.last_pos,
                last_pos |-> auto.last_pos]
    /\ motor' = IF c.route # <<>> THEN CurrentNode(c, 0, NoRegion) ELSE motor
    /\ sent' = 0
    /\ UNCHANGED <<cache, since, update, pos, tick, job, request>>

\* The peer drives the motor itself.
RxMotor(s) ==
    /\ Receive
    /\ motor' = Taken(s)
    /\ UNCHANGED <<auto, cache, since, update, pos, tick, job, request, sent>>

\* KinematicsService copies the position for the peer; the answer comes later.
RxPosition ==
    /\ Receive
    /\ job' = [job EXCEPT !["rx"] = [at |-> "position", x |-> pos, target |-> 0]]
    /\ UNCHANGED <<auto, cache, since, update, motor, pos, tick, request, sent>>

\* PowerService answers the peer, and AutonomousService hears it.
RxPower ==
    /\ Receive
    /\ AutoFree
    /\ auto' = Charged
    /\ UNCHANGED <<cache, since, update, motor, pos, tick, job, request, sent>>

Known(e) == { i \in DOMAIN cache : cache[i].region_id = e.region_id }

\* Mutant: a region that is not in the cache is acknowledged, but not kept.
Cache_KnownOnly(e) ==
    IF Known(e) # {}
    THEN \E i \in First(Known(e)) : update' = <<[at |-> i, with |-> e]>> /\ UNCHANGED cache
    ELSE UNCHANGED <<cache, update>>

\* EnvironmentService::on_message(EnvironmentData): overwrite the region, or append it.
Cache(e) ==
    IF Known(e) # {}
    THEN \E i \in First(Known(e)) : update' = <<[at |-> i, with |-> e]>> /\ UNCHANGED cache
    ELSE cache' = Append(cache, e) /\ UNCHANGED update

Stored(e) ==
    /\ At("rx", "idle")
    /\ EnvFree
    /\ Cache(e)
    /\ IF Known(e) # {} THEN Leave("rx", "write") ELSE UNCHANGED job
    /\ UNCHANGED <<auto, since, motor, pos, tick, sent>>

\* The peer sends an environment of its own accord,
RxEnvironment(e) == Receive /\ Stored(e) /\ UNCHANGED request

\* or in answer to a request,
Answer(e) ==
    /\ request # <<>>
    /\ e.lo <= request[1] /\ request[1] <= e.hi
    /\ Stored(e)
    /\ request' = <<>>
    /\ UNCHANGED issued

\* or the request or the answer is lost.
Lose ==
    /\ request # <<>>
    /\ request' = <<>>
    /\ UNCHANGED <<auto, cache, since, update, motor, pos, tick, job, sent, issued>>

\* The overwriting ends; the lock of the cache is released after the acknowledgement.
Written ==
    /\ At("rx", "write")
    /\ cache' = [cache EXCEPT ![update[1].at] = update[1].with]
    /\ update' = <<>>
    /\ Leave("rx", "idle")
    /\ UNCHANGED <<auto, since, motor, pos, tick, request, sent, issued>>

-----------------------------------------------------------------------------
ClockStep == Sample \/ AutoTick \/ Deliver("clock") \/ AskPower \/ Move

RxStep == TellPosition \/ Deliver("rx") \/ Written

PeerStep ==
    \/ \E c \in Routes : RxDrive(c)
    \/ \E s \in Drives : RxMotor(s)
    \/ \E e \in Environments : RxEnvironment(e)
    \/ RxPosition \/ RxPower \/ Lose

Answers == \E e \in Environments : Answer(e)

Next == ClockStep \/ RxStep \/ PeerStep \/ Answers

Spec == Init /\ [][Next]_vars

(***************************************************************************)
(* The clock goes on, and the receiver finishes what it has begun: it gets *)
(* a lock that is free again and again.  The peer may send nothing and     *)
(* answers may be lost, but of requests made again and again one is        *)
(* answered.                                                               *)
(***************************************************************************)
Fairness == WF_vars(ClockStep) /\ SF_vars(RxStep) /\ SF_vars(Answers)

FairSpec == Spec /\ Fairness

-----------------------------------------------------------------------------
Energy == 0..MaxEnergy

AutoState ==
    [cmd : Routes \cup {NoRoute}, idx : Nat, active : BOOLEAN, env : Nat,
     stats : Seq([initial : Energy, final : Energy, moved : Nat]), used : Seq(Nat),
     energy : Energy, start_energy : Energy, start_pos : Int, last_pos : Int]

Place == {"idle", "tick", "check", "ask", "reach", "power", "move", "position", "write"}

\* TypeOK: the state of both services; the node driven to is on the route, and the
\* telemetry fits its slots.
TypeOK ==
    /\ auto \in AutoState
    /\ auto.idx <= Len(auto.cmd.route) /\ (auto.active => auto.idx < Len(auto.cmd.route))
    /\ auto.env <= Len(cache)
    /\ Len(auto.stats) <= MaxStats /\ Len(auto.used) <= MaxEnvs
    /\ cache \in Seq(Environments)
    /\ since \in 0..(Throttle + 1)
    /\ update \in Seq([at : 1..Len(cache), with : Environments]) /\ Len(update) <= 1
    /\ motor \in [active : BOOLEAN, id : Nat, rpm : Int, left : Nat]
    /\ pos \in Int /\ tick \in [id : Nat, rpm : Int]
    /\ job \in [Thread -> [at : Place, x : Int, target : Int]]
    /\ request \in Seq(Int) /\ Len(request) <= 1
    /\ sent \in Nat /\ issued \in 0..MaxIssued

\* RouteFollowed: the nodes of the last route are reached one at a time and the route is
\* reported complete once, although positions come to AutonomousService on two
\* threads and a new route can arrive at any time.
Followed == INSTANCE Route WITH
    Itinerary <- { c.route : c \in Routes },
    route <- auto.cmd.route,
    reached <- auto.idx,
    driving <- auto.active,
    told <- sent

RouteFollowed == Followed!Spec

\* MissionStops: the motor runs a sequence of a mission only while its route is active: no
\* handler that overlaps the end of the route starts it again.  A route without
\* nodes cancels the mission and leaves the motor to its last sequence.
MissionStops == motor.active /\ motor.id = MissionId /\ auto.cmd.route # <<>> => auto.active

\* Reacquires: a vehicle on a route that leaves the regions it knows gets into one again,
\* or is done: requests and answers may be lost, but it keeps asking.
Lost == auto.active /\ auto.cmd.tuning /\ \A r \in Region : Outside(pos, r)

Reacquires == Lost ~> ~ Lost

\* NodeStatistics: the statistics of a node begin where those of the node before it end,
\* as messages/autonomous_msgs.h says they are of a single node.
NodeStatistics ==
    \A i \in 1..(Len(auto.stats) - 1) : auto.stats[i + 1].initial = auto.stats[i].final

\* SpeedOfARegion: while a route is active, a sequence of the mission drives at the speed
\* that its command asks for in some region the peer has sent, or in none: the regions
\* are "stable", services/environment_service.h says.
SpeedOfARegion ==
    auto.active /\ motor.active /\ motor.id = MissionId =>
        \E r \in Environments \cup {NoRegion} : motor.rpm = Speed(auto.cmd, r)
=============================================================================
