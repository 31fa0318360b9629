--------------------------- MODULE MissionProofs ---------------------------
(***************************************************************************)
(* Proofs about Mission and its history, for every set of routes, regions  *)
(* and commands of the peer, and every bound.                              *)
(***************************************************************************)
EXTENDS MissionHistory, SequenceTheorems, TLAPS

\* A thread that is inside AutonomousService, under its lock.
Inside(t) == job[t].at \in {"check", "ask", "reach", "power"}

\* One thread at a time, and past the first check the route is active.
Turns ==
    /\ \A t, u \in Thread : Inside(t) /\ Inside(u) => t = u
    /\ \A t \in Thread : job[t].at \in {"ask", "reach"} => auto.active

MotorType == [active : BOOLEAN, id : Nat, rpm : Int, left : Nat]

AutoOK ==
    /\ auto \in AutoState
    /\ auto.idx <= Len(auto.cmd.route) /\ (auto.active => auto.idx < Len(auto.cmd.route))
    /\ auto.env <= Len(cache)
    /\ Len(auto.stats) <= MaxStats /\ Len(auto.used) <= MaxEnvs

JobOK == job \in [Thread -> [at : Place, x : Int, target : Int]]

CacheOK ==
    /\ cache \in Seq(Environments)
    /\ update \in Seq([at : 1..Len(cache), with : Environments]) /\ Len(update) <= 1

RestOK ==
    /\ since \in 0..(Throttle + 1)
    /\ pos \in Int /\ tick \in [id : Nat, rpm : Int]
    /\ request \in Seq(Int) /\ Len(request) <= 1
    /\ sent \in Nat /\ issued \in 0..MaxIssued

LEMMA TypeParts == TypeOK <=> AutoOK /\ JobOK /\ CacheOK /\ RestOK /\ motor \in MotorType
  BY DEF TypeOK, AutoOK, JobOK, CacheOK, RestOK, MotorType

-----------------------------------------------------------------------------
(* What the operators return.                                              *)

LEMMA RouteTypes ==
  ASSUME NEW c \in Routes \cup {NoRoute}
  PROVE  c \in AutoDriveCommandPayload /\ c.route \in Seq(ManeuverNode) /\ Len(c.route) <= MaxStats
<1>1. CASE c \in Routes
  BY <1>1, MissionAssumption DEF MissionAssumption, AutoDriveCommandPayload
<1>2. CASE c = NoRoute
  <2>1. <<>> \in Seq(ManeuverNode) /\ Len(<<>>) = 0
    OBVIOUS
  <2> QED BY <1>2, <2>1, MissionAssumption DEF MissionAssumption, AutoDriveCommandPayload, NoRoute, Mode
<1> QED BY <1>1, <1>2

LEMMA EnvironmentTypes ==
  ASSUME CacheOK, NEW i \in 1..Len(cache)
  PROVE  cache[i] \in EnvironmentPayload
BY MissionAssumption DEF CacheOK, MissionAssumption

LEMMA UpdateType ==
  ASSUME CacheOK, update # <<>>
  PROVE  update[1].at \in 1..Len(cache) /\ update[1].with \in Environments
<1> DEFINE U == [at : 1..Len(cache), with : Environments]
<1>1. update \in Seq(U)
  BY DEF CacheOK
<1> HIDE DEF U
<1>2. Len(update) \in Nat \ {0}
  BY <1>1, EmptySeq
<1>3. update[1] \in U
  BY <1>1, <1>2, ElementOfSeq
<1> QED BY <1>3 DEF U

LEMMA RegionTypes ==
  ASSUME CacheOK, AutoOK, NEW r \in Region
  PROVE  r \in EnvironmentPayload
<1>1. CASE auto.env = 0
  <2>1. r = NoRegion
    BY <1>1 DEF Region
  <2> QED BY <2>1, MissionAssumption DEF NoRegion, EnvironmentPayload, MissionAssumption
<1>2. CASE auto.env # 0
  <2>1. auto.env \in 1..Len(cache)
    BY <1>2 DEF AutoOK, AutoState, CacheOK
  <2>2. cache[auto.env] \in EnvironmentPayload
    BY <2>1, EnvironmentTypes
  <2>3. CASE update # <<>> /\ update[1].at = auto.env
    <3>1. update[1].with \in Environments
      BY <2>3, UpdateType
    <3>2. update[1].with \in EnvironmentPayload
      BY <3>1, MissionAssumption DEF MissionAssumption
    <3> DEFINE old == cache[auto.env]
               new == update[1].with
    <3>3. r \in [region_id : {old.region_id}, lo : {old.lo, new.lo}, hi : {old.hi, new.hi},
                 incline : {old.incline, new.incline}, max_speed : {old.max_speed, new.max_speed}]
      BY <1>2, <2>3 DEF Region, Seen
    <3>4. old \in EnvironmentPayload /\ new \in EnvironmentPayload
      BY <2>2, <3>2
    <3> HIDE DEF old, new
    <3> QED BY <3>3, <3>4 DEF EnvironmentPayload
  <2>4. CASE ~ (update # <<>> /\ update[1].at = auto.env)
    BY <1>2, <2>2, <2>4 DEF Region, Seen
  <2> QED BY <2>3, <2>4
<1> QED BY <1>1, <1>2

\* The speed for a command is a number in every region.
LEMMA SpeedType ==
  ASSUME NEW c \in AutoDriveCommandPayload, NEW r \in EnvironmentPayload
  PROVE  Speed(c, r) \in Int
<1>1. Percent(c) \in Nat
  BY DEF Percent, AutoDriveCommandPayload, Mode
<1>2. r.max_speed \in Nat
  BY DEF EnvironmentPayload
<1>3. r.max_speed * Percent(c) \in Int
  BY <1>1, <1>2
<1> QED BY <1>3 DEF Speed

LEMMA TakenType ==
  ASSUME motor \in MotorType, NEW s \in MotorSequence
  PROVE  Taken(s) \in MotorType
BY DEF Taken, MotorType, MotorSequence

LEMMA CurrentNodeType ==
  ASSUME motor \in MotorType, NEW c \in Routes \cup {NoRoute}, NEW r \in EnvironmentPayload,
         NEW i \in Nat, i < Len(c.route)
  PROVE  CurrentNode(c, i, r) \in MotorType /\ CurrentNode(c, i, r).id = MissionId
<1>1. c \in AutoDriveCommandPayload /\ c.route[i + 1] \in ManeuverNode
  BY RouteTypes
<1>2. Speed(c, r) \in Int
  BY <1>1, SpeedType
<1>3. [id |-> MissionId, rpm |-> Speed(c, r), dur |-> c.route[i + 1].timeout] \in MotorSequence
  BY <1>1, <1>2, MissionAssumption DEF MotorSequence, ManeuverNode, MissionAssumption
<1> QED BY <1>3, TakenType DEF CurrentNode, Taken

\* The updates of AutonomousService's state keep its type.
LEMMA RegionKept ==
  ASSUME auto \in AutoState, NEW env \in Nat, NEW used \in Seq(Nat)
  PROVE  [auto EXCEPT !.env = env, !.used = used] \in AutoState
<1> DEFINE R == Routes \cup {NoRoute}
           S == Seq([initial : Energy, final : Energy, moved : Nat])
           N == Seq(Nat)
           B == BOOLEAN
           A == [cmd : R, idx : Nat, active : B, env : Nat, stats : S, used : N, energy : Energy,
                 start_energy : Energy, start_pos : Int, last_pos : Int]
<1>1. auto \in A /\ used \in N
  BY DEF AutoState
<1>2. AutoState = A
  BY DEF AutoState
<1> HIDE DEF R, S, N, B
<1>3. [auto EXCEPT !.env = env, !.used = used] \in A
  BY <1>1
<1> QED BY <1>2, <1>3

LEMMA NodeKept ==
  ASSUME auto \in AutoState, NEW stats \in Seq([initial : Energy, final : Energy, moved : Nat]),
         NEW idx \in Nat, NEW active \in BOOLEAN, NEW last \in Int
  PROVE  /\ [auto EXCEPT !.stats = stats, !.idx = idx, !.last_pos = last] \in AutoState
         /\ [auto EXCEPT !.stats = stats, !.idx = idx, !.active = active, !.last_pos = last] \in AutoState
<1> DEFINE R == Routes \cup {NoRoute}
           S == Seq([initial : Energy, final : Energy, moved : Nat])
           N == Seq(Nat)
           B == BOOLEAN
           A == [cmd : R, idx : Nat, active : B, env : Nat, stats : S, used : N, energy : Energy,
                 start_energy : Energy, start_pos : Int, last_pos : Int]
<1>1. auto \in A /\ stats \in S /\ active \in B
  BY DEF AutoState
<1>2. AutoState = A
  BY DEF AutoState
<1> HIDE DEF R, S, N, B
<1>3. [auto EXCEPT !.stats = stats, !.idx = idx, !.last_pos = last] \in A
  BY <1>1
<1>4. [auto EXCEPT !.stats = stats, !.idx = idx, !.active = active, !.last_pos = last] \in A
  BY <1>1
<1> QED BY <1>2, <1>3, <1>4

LEMMA TrackedType ==
  ASSUME NEW u \in Seq(Nat), Len(u) <= MaxEnvs, NEW id \in Nat
  PROVE  Tracked(u, id) \in Seq(Nat) /\ Len(Tracked(u, id)) <= MaxEnvs
BY MissionAssumption DEF Tracked, MissionAssumption

LEMMA RecordedType ==
  ASSUME AutoOK, NEW x \in Int
  PROVE  /\ Recorded(x) \in Seq([initial : Energy, final : Energy, moved : Nat])
         /\ Len(Recorded(x)) <= MaxStats
<1> DEFINE slot == [initial |-> auto.start_energy, final |-> auto.energy,
                    moved |-> Abs(x - auto.start_pos)]
           Slot == [initial : Energy, final : Energy, moved : Nat]
<1>1. Abs(x - auto.start_pos) \in Nat
  BY DEF AutoOK, AutoState, Abs
<1>2. slot \in Slot
  BY <1>1 DEF AutoOK, AutoState
<1>3. /\ auto.stats \in Seq(Slot) /\ Len(auto.stats) <= MaxStats
      /\ Recorded(x) = IF Len(auto.stats) < MaxStats THEN Append(auto.stats, slot) ELSE auto.stats
  BY DEF AutoOK, AutoState, Recorded
<1> HIDE DEF slot, Slot
<1>4. Recorded(x) \in Seq(Slot) /\ Len(Recorded(x)) <= MaxStats
  BY <1>2, <1>3, MissionAssumption DEF MissionAssumption
<1> QED BY <1>4 DEF Slot

LEMMA ChargedType ==
  ASSUME AutoOK
  PROVE  /\ Charged \in AutoState /\ Charged.energy \in Energy
         /\ Charged = [auto EXCEPT !.energy = Charged.energy]
<1> DEFINE e == Least(auto.energy + 1, MaxEnergy)
<1>1. e \in Energy
  BY MissionAssumption DEF AutoOK, AutoState, Energy, Least, MissionAssumption
<1>2. Charged = [auto EXCEPT !.energy = e]
  BY DEF Charged
<1> HIDE DEF e
<1> QED BY <1>1, <1>2 DEF AutoOK, AutoState

-----------------------------------------------------------------------------
(* Type correctness.                                                       *)

Typed == AutoOK /\ JobOK /\ CacheOK /\ RestOK /\ motor \in MotorType

LEMMA InitTyped == Init => Typed /\ Turns
<1> SUFFICES ASSUME Init PROVE Typed /\ Turns
  OBVIOUS
<1>1. NoRoute \in Routes \cup {NoRoute} /\ Len(NoRoute.route) = 0
  BY DEF NoRoute
<1>2. AutoOK
  BY <1>1, MissionAssumption DEF Init, AutoOK, AutoState, Energy, MissionAssumption
<1>3. JobOK
  BY DEF Init, JobOK, Place
<1>4. CacheOK /\ motor \in MotorType
  BY DEF Init, CacheOK, MotorType
<1>5. RestOK
  BY MissionAssumption DEF Init, RestOK, MissionAssumption
<1>6. Turns
  BY DEF Init, Turns, Inside
<1> QED BY <1>2, <1>3, <1>4, <1>5, <1>6 DEF Typed

\* A thread that goes on by itself leaves the turns intact.
LEMMA TurnsKept ==
  ASSUME Turns, NEW t \in Thread,
         \A u \in Thread \ {t} : job'[u].at = job[u].at,
         job'[t].at \in {"check", "ask", "reach", "power"} => Inside(t) \/ AutoFree,
         job'[t].at \in {"ask", "reach"} => auto'.active,
         auto'.active = auto.active \/ Inside(t)
  PROVE  Turns'
BY DEF Turns, Inside, AutoFree

LEMMA LeaveKeeps ==
  ASSUME JobOK, NEW t \in Thread, NEW p \in Place, Leave(t, p)
  PROVE  JobOK' /\ job'[t].at = p /\ \A u \in Thread \ {t} : job'[u].at = job[u].at
BY DEF JobOK, Leave

LEMMA TellKeeps ==
  ASSUME JobOK, NEW t \in Thread, NEW x \in Int, Tell(t, x)
  PROVE  JobOK' /\ job'[t].at = "check" /\ \A u \in Thread \ {t} : job'[u].at = job[u].at
BY DEF JobOK, Tell, Place

LEMMA StayKeeps ==
  ASSUME JobOK, NEW t \in Thread, NEW p \in Place, Stay(t, p)
  PROVE  JobOK' /\ job'[t].at = p /\ \A u \in Thread \ {t} : job'[u].at = job[u].at
BY DEF JobOK, Stay

LEMMA AfterPlace == ASSUME NEW t \in Thread PROVE After(t) \in {"power", "idle"}
  BY DEF After

LEMMA SampleTyped == Typed /\ Turns /\ Sample => Typed' /\ Turns'
<1> SUFFICES ASSUME Typed, Turns, Sample PROVE Typed' /\ Turns'
  OBVIOUS
<1>1. JobOK' /\ job'["clock"].at = "tick" /\ job'["rx"].at = job["rx"].at
  BY LeaveKeeps DEF Sample, Typed, Thread, Place
<1>2. Turns'
  BY <1>1, TurnsKept DEF Sample, Thread
<1>3. AutoOK' /\ CacheOK' /\ motor' \in MotorType
  BY DEF Sample, Typed, AutoOK, CacheOK, MotorType
<1>4. since' \in 0..(Throttle + 1)
  BY MissionAssumption DEF Sample, Typed, RestOK, Least, MissionAssumption
<1>5. tick' \in [id : Nat, rpm : Int]
  BY DEF Sample, Typed, MotorType
<1>6. RestOK'
  BY <1>4, <1>5 DEF Sample, Typed, RestOK
<1> QED BY <1>1, <1>2, <1>3, <1>6 DEF Typed

LEMMA AutoTickTyped == Typed /\ Turns /\ AutoTick => Typed' /\ Turns'
<1> SUFFICES ASSUME Typed, Turns, AutoTick PROVE Typed' /\ Turns'
  OBVIOUS
<1>1. JobOK' /\ job'["clock"].at \in {"check", "move"} /\ job'["rx"].at = job["rx"].at
  <2>1. CASE auto.active
    BY <2>1, TellKeeps DEF AutoTick, Typed, RestOK, Thread
  <2>2. CASE ~ auto.active
    BY <2>2, LeaveKeeps DEF AutoTick, Typed, Thread, Place
  <2> QED BY <2>1, <2>2
<1>2. Turns'
  BY <1>1, TurnsKept DEF AutoTick, Thread
<1>3. AutoOK' /\ CacheOK' /\ RestOK' /\ motor' \in MotorType
  BY DEF AutoTick, Typed, AutoOK, CacheOK, RestOK, MotorType
<1> QED BY <1>1, <1>2, <1>3 DEF Typed

LEMMA MoveTyped == Typed /\ Turns /\ Move => Typed' /\ Turns'
<1> SUFFICES ASSUME Typed, Turns, Move PROVE Typed' /\ Turns'
  OBVIOUS
<1>1. JobOK' /\ job'["clock"].at = "idle" /\ job'["rx"].at = job["rx"].at
  BY LeaveKeeps DEF Move, Typed, Thread, Place
<1>2. Turns'
  BY <1>1, TurnsKept DEF Move, Thread
<1>3. motor' \in MotorType
  <2>1. CASE motor' = motor
    BY <2>1 DEF Typed, MotorType
  <2>2. CASE motor.left > 1 /\ motor' = [motor EXCEPT !.left = motor.left - 1]
    <3>1. motor.left - 1 \in Nat
      BY <2>2 DEF Typed, MotorType
    <3> QED BY <2>2, <3>1 DEF Typed, MotorType
  <2>3. CASE motor' = [motor EXCEPT !.active = FALSE, !.rpm = 0]
    <3>1. motor' = [active |-> FALSE, id |-> motor.id, rpm |-> 0, left |-> motor.left]
      BY <2>3 DEF Typed, MotorType
    <3>2. motor.id \in Nat /\ motor.left \in Nat
      BY DEF Typed, MotorType
    <3>3. [active |-> FALSE, id |-> motor.id, rpm |-> 0, left |-> motor.left] \in MotorType
      BY <3>2 DEF MotorType
    <3> QED BY <3>1, <3>3
  <2> QED BY <2>1, <2>2, <2>3 DEF Move
<1>4. AutoOK' /\ CacheOK'
  BY DEF Move, Typed, AutoOK, CacheOK
<1>5. RestOK'
  BY DEF Move, Typed, RestOK
<1> QED BY <1>1, <1>2, <1>3, <1>4, <1>5 DEF Typed

LEMMA TellPositionTyped == Typed /\ Turns /\ TellPosition => Typed' /\ Turns'
<1> SUFFICES ASSUME Typed, Turns, TellPosition PROVE Typed' /\ Turns'
  OBVIOUS
<1>1. JobOK' /\ job'["rx"].at = "check" /\ job'["clock"].at = job["clock"].at
  <2>1. job["rx"].x \in Int
    BY DEF Typed, JobOK, Thread
  <2> QED BY <2>1, TellKeeps DEF TellPosition, Typed, Thread
<1>2. Turns'
  BY <1>1, TurnsKept DEF TellPosition, Thread
<1>3. AutoOK' /\ CacheOK' /\ RestOK' /\ motor' \in MotorType
  BY DEF TellPosition, Typed, AutoOK, CacheOK, RestOK, MotorType
<1> QED BY <1>1, <1>2, <1>3 DEF Typed

LEMMA NotDrivingTyped == ASSUME NEW t \in Thread, Typed, Turns, NotDriving(t) PROVE Typed' /\ Turns'
<1>1. After(t) \in Place /\ job[t].x \in Int
  BY AfterPlace DEF Place, Typed, JobOK
<1>2. JobOK' /\ job'[t].at = After(t) /\ \A u \in Thread \ {t} : job'[u].at = job[u].at
  BY <1>1, LeaveKeeps DEF NotDriving, Typed
<1>3. auto' = [auto EXCEPT !.last_pos = job[t].x]
  BY DEF NotDriving
<1>4. AutoOK' /\ auto'.active = auto.active
  BY <1>1, <1>3 DEF NotDriving, Typed, AutoOK, AutoState
<1>5. Turns'
  BY <1>2, <1>4, AfterPlace, TurnsKept DEF NotDriving, Inside, At
<1>6. CacheOK' /\ RestOK' /\ motor' \in MotorType
  BY DEF NotDriving, Typed, CacheOK, RestOK, MotorType
<1> QED BY <1>2, <1>4, <1>5, <1>6 DEF Typed

LEMMA CheckRegionTyped ==
  ASSUME NEW t \in Thread, Typed, Turns, CheckRegion(t) PROVE Typed' /\ Turns'
<1>1. auto.cmd.route[auto.idx + 1].x \in Int
  <2>1. auto.cmd \in Routes \cup {NoRoute} /\ auto.idx \in Nat /\ auto.idx < Len(auto.cmd.route)
    BY DEF CheckRegion, Typed, AutoOK, AutoState
  <2>2. auto.cmd.route \in Seq(ManeuverNode)
    BY <2>1, RouteTypes
  <2>3. auto.cmd.route[auto.idx + 1] \in ManeuverNode
    BY <2>1, <2>2
  <2> QED BY <2>3 DEF ManeuverNode
<1>2. PICK p \in {"ask", "reach"} :
         job' = [job EXCEPT ![t].at = p, ![t].target = auto.cmd.route[auto.idx + 1].x]
  BY DEF CheckRegion
<1>3. JobOK' /\ job'[t].at \in {"ask", "reach"} /\ \A u \in Thread \ {t} : job'[u].at = job[u].at
  BY <1>1, <1>2 DEF Typed, JobOK, Place
<1>4. Turns'
  BY <1>3, TurnsKept DEF CheckRegion, Inside, At
<1>5. AutoOK' /\ CacheOK' /\ RestOK' /\ motor' \in MotorType
  BY DEF CheckRegion, Typed, AutoOK, CacheOK, RestOK, MotorType
<1> QED BY <1>3, <1>4, <1>5 DEF Typed

LEMMA HitTyped == ASSUME NEW t \in Thread, Typed, Turns, Hit(t) PROVE Typed' /\ Turns'
<1>1. JobOK' /\ job'[t].at = "reach" /\ \A u \in Thread \ {t} : job'[u].at = job[u].at
  BY StayKeeps DEF Hit, Typed, Place
<1>2. PICK i \in First(Covering(job[t].x)) :
         /\ auto' = [auto EXCEPT !.env = i, !.used = Tracked(@, cache[i].region_id)]
         /\ motor' = IF auto.active THEN CurrentNode(auto.cmd, auto.idx, cache[i]) ELSE motor
  BY DEF Hit
<1>3. i \in 1..Len(cache) /\ cache[i] \in EnvironmentPayload
  <2>1. i \in DOMAIN cache
    BY <1>2 DEF First, Covering
  <2>2. i \in 1..Len(cache)
    BY <2>1 DEF Typed, CacheOK
  <2> QED BY <2>2, EnvironmentTypes DEF Typed
<1>4. Tracked(auto.used, cache[i].region_id) \in Seq(Nat)
      /\ Len(Tracked(auto.used, cache[i].region_id)) <= MaxEnvs
  BY <1>3, TrackedType DEF Typed, AutoOK, AutoState, EnvironmentPayload
<1>5. AutoOK' /\ auto'.active = auto.active
  <2> DEFINE u == Tracked(auto.used, cache[i].region_id)
  <2>1. auto' = [auto EXCEPT !.env = i, !.used = u]
    BY <1>2
  <2>2. u \in Seq(Nat) /\ Len(u) <= MaxEnvs
    BY <1>4
  <2> HIDE DEF u
  <2>3. auto' \in AutoState
    <3>1. auto \in AutoState /\ i \in Nat
      BY <1>3 DEF Typed, AutoOK, CacheOK
    <3> QED BY <2>1, <2>2, <3>1, RegionKept
  <2>4. /\ auto'.cmd = auto.cmd /\ auto'.idx = auto.idx /\ auto'.active = auto.active
        /\ auto'.env = i /\ auto'.stats = auto.stats /\ auto'.used = u
    BY <2>1 DEF Typed, AutoOK, AutoState
  <2>5. cache' = cache /\ i <= Len(cache)
    BY <1>3 DEF Hit
  <2> QED BY <2>2, <2>3, <2>4, <2>5 DEF Typed, AutoOK
<1>6. motor' \in MotorType
  <2>1. CASE auto.active
    <3>1. /\ auto.cmd \in Routes \cup {NoRoute}
          /\ auto.idx \in Nat /\ auto.idx < Len(auto.cmd.route)
      BY <2>1 DEF Typed, AutoOK, AutoState
    <3> QED BY <1>2, <1>3, <2>1, <3>1, CurrentNodeType DEF Typed
  <2>2. CASE ~ auto.active
    BY <1>2, <2>2 DEF Typed
  <2> QED BY <2>1, <2>2
<1>7. Turns'
  BY <1>1, <1>5, TurnsKept DEF Hit, Inside, At, Turns
<1>8. CacheOK' /\ RestOK'
  BY DEF Hit, Typed, CacheOK, RestOK
<1> QED BY <1>1, <1>5, <1>6, <1>7, <1>8 DEF Typed

LEMMA MissTyped == ASSUME NEW t \in Thread, Typed, Turns, Miss(t) PROVE Typed' /\ Turns'
<1>1. JobOK' /\ job'[t].at = "reach" /\ \A u \in Thread \ {t} : job'[u].at = job[u].at
  BY StayKeeps DEF Miss, Typed, Place
<1>2. Turns'
  BY <1>1, TurnsKept DEF Miss, Inside, At, Turns
<1>3. AutoOK' /\ CacheOK' /\ motor' \in MotorType
  BY DEF Miss, Typed, AutoOK, CacheOK, MotorType
<1>4. RestOK'
  <2>1. CASE request' = <<job[t].x>> /\ since' = 0
    <3>1. job[t].x \in Int
      BY DEF Typed, JobOK
    <3> QED BY <2>1, <3>1, MissionAssumption DEF Miss, Typed, RestOK, MissionAssumption
  <2>2. CASE UNCHANGED <<request, since>>
    BY <2>2 DEF Miss, Typed, RestOK
  <2> QED BY <2>1, <2>2 DEF Miss
<1> QED BY <1>1, <1>2, <1>3, <1>4 DEF Typed

LEMMA UnderwayTyped == ASSUME NEW t \in Thread, Typed, Turns, Underway(t) PROVE Typed' /\ Turns'
<1>1. After(t) \in Place /\ job[t].x \in Int
  BY AfterPlace DEF Place, Typed, JobOK
<1>2. JobOK' /\ job'[t].at = After(t) /\ \A u \in Thread \ {t} : job'[u].at = job[u].at
  BY <1>1, LeaveKeeps DEF Underway, Typed
<1>3. auto' = [auto EXCEPT !.last_pos = job[t].x]
  BY DEF Underway
<1>4. AutoOK' /\ auto'.active = auto.active
  BY <1>1, <1>3 DEF Underway, Typed, AutoOK, AutoState
<1>5. Turns'
  BY <1>2, <1>4, AfterPlace, TurnsKept DEF Underway, Inside, At
<1>6. CacheOK' /\ RestOK' /\ motor' \in MotorType
  BY DEF Underway, Typed, CacheOK, RestOK, MotorType
<1> QED BY <1>2, <1>4, <1>5, <1>6 DEF Typed

\* A node is reached only on an active route.
LEMMA OnRoute ==
  ASSUME NEW t \in Thread, Typed, Turns, At(t, "reach")
  PROVE  /\ auto.active /\ auto.idx \in Nat /\ auto.idx < Len(auto.cmd.route)
         /\ auto.cmd \in Routes \cup {NoRoute} /\ Len(auto.cmd.route) \in Nat
         /\ job[t].x \in Int /\ Inside(t)
<1>1. auto.active
  BY DEF Turns, At
<1>2. auto.idx \in Nat /\ auto.idx < Len(auto.cmd.route) /\ auto.cmd \in Routes \cup {NoRoute}
  BY <1>1 DEF Typed, AutoOK, AutoState
<1>3. auto.cmd.route \in Seq(ManeuverNode)
  BY <1>2, RouteTypes
<1> QED BY <1>1, <1>2, <1>3 DEF Typed, JobOK, At, Inside

LEMMA ReachNodeTyped == ASSUME NEW t \in Thread, Typed, Turns, ReachNode(t) PROVE Typed' /\ Turns'
<1>1. /\ auto.active /\ auto.idx \in Nat /\ auto.cmd \in Routes \cup {NoRoute}
      /\ Len(auto.cmd.route) \in Nat /\ job[t].x \in Int /\ Inside(t)
  BY OnRoute DEF ReachNode
<1>2. auto.idx + 1 < Len(auto.cmd.route)
  BY DEF ReachNode, More
<1>3. JobOK' /\ job'[t].at = After(t) /\ \A u \in Thread \ {t} : job'[u].at = job[u].at
  BY AfterPlace, LeaveKeeps DEF ReachNode, Typed, Place
<1>4. auto' = [auto EXCEPT !.stats = Recorded(job[t].x), !.idx = auto.idx + 1, !.last_pos = job[t].x]
  BY DEF ReachNode
<1>5. AutoOK' /\ auto'.active = auto.active
  <2> DEFINE s == Recorded(job[t].x)
  <2>1. s \in Seq([initial : Energy, final : Energy, moved : Nat]) /\ Len(s) <= MaxStats
    BY <1>1, RecordedType DEF Typed
  <2> HIDE DEF s
  <2>2. auto' \in AutoState
    <3>1. auto \in AutoState /\ auto.idx + 1 \in Nat
      BY <1>1 DEF Typed, AutoOK
    <3>2. auto' = [auto EXCEPT !.stats = s, !.idx = auto.idx + 1, !.last_pos = job[t].x]
      BY <1>4 DEF s
    <3>3. job[t].x \in Int /\ TRUE \in BOOLEAN
      BY <1>1
    <3> QED BY <2>1, <3>1, <3>2, <3>3, NodeKept
  <2>3. /\ auto'.cmd = auto.cmd /\ auto'.idx = auto.idx + 1
        /\ auto'.active = auto.active
        /\ auto'.env = auto.env /\ auto'.stats = s /\ auto'.used = auto.used
    BY <1>4 DEF s, Typed, AutoOK, AutoState
  <2>4. cache' = cache
    BY DEF ReachNode
  <2> QED BY <1>1, <1>2, <2>1, <2>2, <2>3, <2>4 DEF Typed, AutoOK
<1>6. motor' \in MotorType
  <2>1. PICK r \in Region : motor' = CurrentNode(auto.cmd, auto.idx + 1, r)
    BY DEF ReachNode
  <2>2. r \in EnvironmentPayload
    BY RegionTypes DEF Typed
  <2> QED BY <1>1, <1>2, <2>1, <2>2, CurrentNodeType DEF Typed
<1>7. Turns'
  BY <1>1, <1>3, <1>5, AfterPlace, TurnsKept
<1>8. CacheOK' /\ RestOK'
  BY DEF ReachNode, Typed, CacheOK, RestOK
<1> QED BY <1>3, <1>5, <1>6, <1>7, <1>8 DEF Typed

LEMMA ReachLastTyped == ASSUME NEW t \in Thread, Typed, Turns, ReachLast(t) PROVE Typed' /\ Turns'
<1>1. /\ auto.idx \in Nat /\ auto.idx < Len(auto.cmd.route)
      /\ Len(auto.cmd.route) \in Nat /\ job[t].x \in Int /\ Inside(t)
  BY OnRoute DEF ReachLast
<1>2. JobOK' /\ job'[t].at = After(t) /\ \A u \in Thread \ {t} : job'[u].at = job[u].at
  BY AfterPlace, LeaveKeeps DEF ReachLast, Typed, Place
<1>3. auto' = [auto EXCEPT !.stats = Recorded(job[t].x), !.idx = auto.idx + 1, !.active = FALSE,
                           !.last_pos = job[t].x]
  BY DEF ReachLast
<1>4. AutoOK'
  <2> DEFINE s == Recorded(job[t].x)
  <2>1. s \in Seq([initial : Energy, final : Energy, moved : Nat]) /\ Len(s) <= MaxStats
    BY <1>1, RecordedType DEF Typed
  <2> HIDE DEF s
  <2>2. auto' \in AutoState
    <3>1. auto \in AutoState /\ auto.idx + 1 \in Nat /\ FALSE \in BOOLEAN
      BY <1>1 DEF Typed, AutoOK
    <3>2. auto' = [auto EXCEPT !.stats = s, !.idx = auto.idx + 1, !.active = FALSE,
                               !.last_pos = job[t].x]
      BY <1>3 DEF s
    <3>3. job[t].x \in Int
      BY <1>1
    <3> QED BY <2>1, <3>1, <3>2, <3>3, NodeKept
  <2>3. /\ auto'.cmd = auto.cmd /\ auto'.idx = auto.idx + 1
        /\ auto'.active = FALSE
        /\ auto'.env = auto.env /\ auto'.stats = s /\ auto'.used = auto.used
    BY <1>3 DEF s, Typed, AutoOK, AutoState
  <2>4. cache' = cache
    BY DEF ReachLast
  <2> QED BY <1>1, <2>1, <2>2, <2>3, <2>4 DEF Typed, AutoOK
<1>5. motor' \in MotorType
  BY TakenType DEF ReachLast, StopSequence, MotorSequence, Typed
<1>6. Turns'
  BY <1>1, <1>2, AfterPlace, TurnsKept
<1>7. CacheOK' /\ RestOK'
  BY DEF ReachLast, Typed, CacheOK, RestOK
<1> QED BY <1>2, <1>4, <1>5, <1>6, <1>7 DEF Typed

LEMMA AskPowerTyped == Typed /\ Turns /\ AskPower => Typed' /\ Turns'
<1> SUFFICES ASSUME Typed, Turns, AskPower PROVE Typed' /\ Turns'
  OBVIOUS
<1>1. JobOK' /\ job'["clock"].at = "move" /\ \A u \in Thread \ {"clock"} : job'[u].at = job[u].at
  BY LeaveKeeps DEF AskPower, Typed, Thread, Place
<1>2. AutoOK' /\ auto'.active = auto.active
  BY ChargedType DEF AskPower, Typed, AutoOK, AutoState
<1>3. Turns'
  BY <1>1, <1>2, TurnsKept DEF Thread
<1>4. CacheOK' /\ RestOK' /\ motor' \in MotorType
  BY DEF AskPower, Typed, CacheOK, RestOK, MotorType
<1> QED BY <1>1, <1>2, <1>3, <1>4 DEF Typed

LEMMA RxDriveTyped == ASSUME NEW c \in Routes, Typed, Turns, RxDrive(c) PROVE Typed' /\ Turns'
<1>1. /\ c \in AutoDriveCommandPayload /\ c.route \in Seq(ManeuverNode) /\ Len(c.route) \in Nat
      /\ (c.route # <<>> => 0 < Len(c.route))
  <2>1. c \in AutoDriveCommandPayload /\ c.route \in Seq(ManeuverNode)
    BY RouteTypes
  <2> QED BY <2>1, EmptySeq
<1>2. auto'.cmd = c /\ auto'.idx = 0 /\ auto'.active = (c.route # <<>>) /\ auto'.env = 0
      /\ auto'.stats = <<>> /\ auto'.used = <<>>
  BY DEF RxDrive
<1>3. auto' \in AutoState
  <2>1. auto.last_pos \in Int /\ 0 \in Energy /\ c \in Routes \cup {NoRoute}
    BY MissionAssumption DEF Typed, AutoOK, AutoState, Energy, MissionAssumption
  <2>2. (c.route # <<>>) \in BOOLEAN
    OBVIOUS
  <2> DEFINE a == (c.route # <<>>)
  <2>3. auto' = [cmd |-> c, idx |-> 0, active |-> a, env |-> 0, stats |-> <<>>, used |-> <<>>,
                 energy |-> 0, start_energy |-> 0, start_pos |-> auto.last_pos,
                 last_pos |-> auto.last_pos]
    BY DEF RxDrive
  <2>4. a \in BOOLEAN
    BY <2>2
  <2> HIDE DEF a
  <2>5. [cmd |-> c, idx |-> 0, active |-> a, env |-> 0, stats |-> <<>>, used |-> <<>>,
         energy |-> 0, start_energy |-> 0, start_pos |-> auto.last_pos,
         last_pos |-> auto.last_pos] \in AutoState
    BY <2>1, <2>4 DEF AutoState
  <2> QED BY <2>3, <2>5
<1>4. AutoOK'
  <2>1. Len(auto'.stats) = 0 /\ Len(auto'.used) = 0
    BY <1>2
  <2>2. auto'.env <= Len(cache')
    BY <1>2 DEF RxDrive, Typed, CacheOK
  <2>3. 0 <= MaxStats /\ 0 <= MaxEnvs
    BY MissionAssumption DEF MissionAssumption
  <2>4. auto'.active => 0 < Len(c.route)
    BY <1>1, <1>2
  <2>5. auto'.cmd.route = c.route /\ auto'.idx = 0
    BY <1>2
  <2> QED BY <1>1, <1>3, <2>1, <2>2, <2>3, <2>4, <2>5 DEF AutoOK
<1>5. motor' \in MotorType
  <2>1. CASE c.route # <<>>
    <3>1. NoRegion \in EnvironmentPayload
      BY MissionAssumption DEF NoRegion, EnvironmentPayload, MissionAssumption
    <3> QED BY <1>1, <2>1, <3>1, CurrentNodeType DEF RxDrive, Typed
  <2>2. CASE c.route = <<>>
    BY <2>2 DEF RxDrive, Typed
  <2> QED BY <2>1, <2>2
<1>6. Turns'
  BY DEF RxDrive, AutoFree, Turns, Inside, Thread
<1>7. JobOK' /\ CacheOK'
  BY DEF RxDrive, Typed, JobOK, CacheOK
<1>8. RestOK'
  BY MissionAssumption DEF RxDrive, Receive, Typed, RestOK, MissionAssumption
<1> QED BY <1>4, <1>5, <1>6, <1>7, <1>8 DEF Typed

LEMMA RxMotorTyped == ASSUME NEW s \in Drives, Typed, Turns, RxMotor(s) PROVE Typed' /\ Turns'
<1>1. motor' \in MotorType
  BY MissionAssumption, TakenType DEF RxMotor, Typed, MissionAssumption
<1>2. AutoOK' /\ JobOK' /\ CacheOK'
  BY DEF RxMotor, Typed, AutoOK, JobOK, CacheOK
<1>3. RestOK'
  BY MissionAssumption DEF RxMotor, Receive, Typed, RestOK, MissionAssumption
<1>4. Turns'
  BY DEF RxMotor, Turns, Inside
<1> QED BY <1>1, <1>2, <1>3, <1>4 DEF Typed

LEMMA RxPositionTyped == Typed /\ Turns /\ RxPosition => Typed' /\ Turns'
<1> SUFFICES ASSUME Typed, Turns, RxPosition PROVE Typed' /\ Turns'
  OBVIOUS
<1>1. JobOK' /\ job'["rx"].at = "position" /\ job'["clock"].at = job["clock"].at
  BY DEF RxPosition, Typed, JobOK, RestOK, Place, Thread
<1>2. Turns'
  BY <1>1, TurnsKept DEF RxPosition, Thread
<1>3. AutoOK' /\ CacheOK' /\ motor' \in MotorType
  BY DEF RxPosition, Typed, AutoOK, CacheOK
<1>4. RestOK'
  BY MissionAssumption DEF RxPosition, Receive, Typed, RestOK, MissionAssumption
<1> QED BY <1>1, <1>2, <1>3, <1>4 DEF Typed

LEMMA RxPowerTyped == Typed /\ Turns /\ RxPower => Typed' /\ Turns'
<1> SUFFICES ASSUME Typed, Turns, RxPower PROVE Typed' /\ Turns'
  OBVIOUS
<1>1. AutoOK' /\ auto'.active = auto.active
  BY ChargedType DEF RxPower, Typed, AutoOK, AutoState
<1>2. Turns'
  BY <1>1 DEF RxPower, Turns, Inside
<1>3. JobOK' /\ CacheOK' /\ motor' \in MotorType
  BY DEF RxPower, Typed, JobOK, CacheOK
<1>4. RestOK'
  BY MissionAssumption DEF RxPower, Receive, Typed, RestOK, MissionAssumption
<1> QED BY <1>1, <1>2, <1>3, <1>4 DEF Typed

LEMMA StoredTyped ==
  ASSUME NEW e \in Environments, Typed, Turns, Stored(e)
  PROVE  AutoOK' /\ JobOK' /\ CacheOK' /\ motor' \in MotorType /\ Turns'
<1>1. JobOK' /\ job'["rx"].at \in {"write", "idle"} /\ job'["clock"].at = job["clock"].at
  <2>1. CASE Known(e) # {}
    BY <2>1, LeaveKeeps DEF Stored, Typed, Thread, Place
  <2>2. CASE Known(e) = {}
    BY <2>2 DEF Stored, Typed, JobOK, At
  <2> QED BY <2>1, <2>2
<1>2. Turns'
  BY <1>1, TurnsKept DEF Stored, Thread
<1>3. CASE Known(e) # {}
  <2>1. PICK i \in First(Known(e)) : update' = <<[at |-> i, with |-> e]>> /\ cache' = cache
    BY <1>3 DEF Stored, Cache
  <2>2. i \in 1..Len(cache)
    <3>1. i \in DOMAIN cache
      BY <2>1 DEF First, Known
    <3> QED BY <3>1 DEF Typed, CacheOK
  <2> DEFINE U == [at : 1..Len(cache), with : Environments]
             u == [at |-> i, with |-> e]
  <2>3. u \in U
    BY <2>2
  <2>4. update' = <<u>>
    BY <2>1
  <2> HIDE DEF U, u
  <2>5. update' \in Seq(U) /\ Len(update') <= 1
    BY <2>3, <2>4
  <2>6. CacheOK'
    BY <2>1, <2>5 DEF U, Typed, CacheOK
  <2> QED BY <1>1, <1>2, <2>1, <2>6 DEF Stored, Typed, AutoOK
<1>4. CASE Known(e) = {}
  <2>1. cache' = Append(cache, e) /\ update' = <<>> /\ update = <<>>
    BY <1>4 DEF Stored, Cache, EnvFree
  <2>2. cache' \in Seq(Environments) /\ Len(cache') = Len(cache) + 1 /\ Len(cache) \in Nat
    BY <2>1 DEF Typed, CacheOK
  <2>3. CacheOK'
    BY <2>1, <2>2, EmptySeq DEF CacheOK
  <2>4. AutoOK'
    BY <2>2 DEF Stored, Typed, AutoOK, AutoState
  <2> QED BY <1>1, <1>2, <2>3, <2>4 DEF Stored, Typed
<1> QED BY <1>3, <1>4

LEMMA RxEnvironmentTyped ==
  ASSUME NEW e \in Environments, Typed, Turns, RxEnvironment(e) PROVE Typed' /\ Turns'
<1>1. Stored(e)
  BY DEF RxEnvironment
<1>2. RestOK'
  BY <1>1, MissionAssumption DEF RxEnvironment, Receive, Stored, Typed, RestOK, MissionAssumption
<1> QED BY <1>1, <1>2, StoredTyped DEF Typed

LEMMA AnswerTyped ==
  ASSUME NEW e \in Environments, Typed, Turns, Answer(e) PROVE Typed' /\ Turns'
<1>1. Stored(e)
  BY DEF Answer
<1>2. RestOK'
  BY <1>1 DEF Answer, Stored, Typed, RestOK
<1> QED BY <1>1, <1>2, StoredTyped DEF Typed

LEMMA LoseTyped == Typed /\ Turns /\ Lose => Typed' /\ Turns'
BY DEF Lose, Typed, AutoOK, JobOK, CacheOK, RestOK, Turns, Inside

\* The receiver writes to the cache only what update says.
Writing == job["rx"].at = "write" => update # <<>>

LEMMA WrittenTyped == Typed /\ Turns /\ Writing /\ Written => Typed' /\ Turns'
<1> SUFFICES ASSUME Typed, Turns, Writing, Written PROVE Typed' /\ Turns'
  OBVIOUS
<1>1. JobOK' /\ job'["rx"].at = "idle" /\ job'["clock"].at = job["clock"].at
  BY LeaveKeeps DEF Written, Typed, Thread, Place
<1>2. Turns'
  BY <1>1, TurnsKept DEF Written, Thread
<1>3. update[1].at \in 1..Len(cache) /\ update[1].with \in Environments
  BY UpdateType DEF Writing, Written, At, Typed
<1>4. cache' \in Seq(Environments) /\ Len(cache') = Len(cache)
  BY <1>3 DEF Written, Typed, CacheOK
<1>5. CacheOK'
  BY <1>4, EmptySeq DEF Written, CacheOK
<1>6. AutoOK' /\ RestOK' /\ motor' \in MotorType
  BY <1>4 DEF Written, Typed, AutoOK, RestOK
<1> QED BY <1>1, <1>2, <1>5, <1>6 DEF Typed

LEMMA DeliverWriting ==
  ASSUME NEW t \in Thread, Typed, Writing, Deliver(t)
  PROVE  Writing'
<1>1. update' = update
  BY DEF Deliver, NotDriving, CheckRegion, Hit, Miss, Underway, ReachNode, ReachLast
<1>2. job'[t].at # "write" /\ \A u \in Thread \ {t} : job'[u].at = job[u].at
  <2>1. CASE NotDriving(t) \/ Underway(t) \/ ReachNode(t) \/ ReachLast(t)
    <3>1. Leave(t, After(t)) /\ After(t) \in Place
      BY <2>1, AfterPlace DEF NotDriving, Underway, ReachNode, ReachLast, Place
    <3> QED BY <3>1, AfterPlace, LeaveKeeps DEF Typed
  <2>2. CASE CheckRegion(t)
    <3>1. PICK p \in {"ask", "reach"} :
             job' = [job EXCEPT ![t].at = p, ![t].target = auto.cmd.route[auto.idx + 1].x]
      BY <2>2 DEF CheckRegion
    <3> QED BY <3>1 DEF Typed, JobOK
  <2>3. CASE Hit(t) \/ Miss(t)
    BY <2>3, StayKeeps DEF Hit, Miss, Place, Typed
  <2> QED BY <2>1, <2>2, <2>3 DEF Deliver
<1> QED BY <1>1, <1>2 DEF Writing, Thread

LEMMA StoredWriting ==
  ASSUME NEW e \in Environments, Typed, Stored(e)
  PROVE  Writing'
<1>1. CASE Known(e) # {}
  <2>1. PICK i \in First(Known(e)) : update' = <<[at |-> i, with |-> e]>>
    BY <1>1 DEF Stored, Cache
  <2> QED BY <2>1 DEF Writing
<1>2. CASE Known(e) = {}
  BY <1>2 DEF Stored, Writing, At
<1> QED BY <1>1, <1>2

LEMMA ClockWriting ==
  ASSUME Typed, Writing, Sample \/ AutoTick \/ AskPower \/ Move
  PROVE  Writing'
<1>1. update' = update /\ job'["rx"] = job["rx"]
  <2>1. CASE Sample
    BY <2>1 DEF Sample, Leave, Typed, JobOK, Thread
  <2>2. CASE AutoTick
    BY <2>2 DEF AutoTick, Leave, Tell, Typed, JobOK, Thread
  <2>3. CASE AskPower
    BY <2>3 DEF AskPower, Leave, Typed, JobOK, Thread
  <2>4. CASE Move
    BY <2>4 DEF Move, Leave, Typed, JobOK, Thread
  <2> QED BY <2>1, <2>2, <2>3, <2>4
<1> QED BY <1>1 DEF Writing

LEMMA RxWriting ==
  ASSUME Typed, Writing, TellPosition \/ RxPosition \/ Written
  PROVE  Writing'
<1>1. job'["rx"].at # "write"
  BY DEF TellPosition, RxPosition, Written, Leave, Tell, Typed, JobOK, Thread
<1> QED BY <1>1 DEF Writing

-----------------------------------------------------------------------------
(* The inductive invariant, and what follows from it.                      *)

IInv == Typed /\ Turns /\ Writing

LEMMA InitIInv == Init => IInv
<1> SUFFICES ASSUME Init PROVE IInv
  OBVIOUS
<1>1. job["rx"].at = "idle"
  BY DEF Init, Thread
<1> QED BY <1>1, InitTyped DEF IInv, Writing

LEMMA NextIInv == IInv /\ [Next]_vars => IInv'
<1> SUFFICES ASSUME IInv, [Next]_vars PROVE IInv'
  OBVIOUS
<1>0. Typed /\ Turns /\ Writing
  BY DEF IInv
<1>1. CASE Sample \/ AutoTick \/ AskPower \/ Move
  BY <1>0, <1>1, ClockWriting, SampleTyped, AutoTickTyped, AskPowerTyped, MoveTyped DEF IInv
<1>2. ASSUME NEW t \in Thread, Deliver(t) PROVE IInv'
  <2>1. Typed' /\ Turns'
    BY <1>0, <1>2, NotDrivingTyped, CheckRegionTyped, HitTyped, MissTyped, UnderwayTyped,
       ReachNodeTyped, ReachLastTyped DEF Deliver
  <2> QED BY <1>0, <1>2, <2>1, DeliverWriting DEF IInv
<1>3. CASE TellPosition \/ RxPosition \/ Written
  BY <1>0, <1>3, RxWriting, TellPositionTyped, RxPositionTyped, WrittenTyped DEF IInv
<1>4. ASSUME NEW c \in Routes, RxDrive(c) PROVE IInv'
  BY <1>0, <1>4, RxDriveTyped DEF IInv, Writing, RxDrive
<1>5. ASSUME NEW s \in Drives, RxMotor(s) PROVE IInv'
  BY <1>0, <1>5, RxMotorTyped DEF IInv, Writing, RxMotor
<1>6. ASSUME NEW e \in Environments, RxEnvironment(e) \/ Answer(e) PROVE IInv'
  BY <1>0, <1>6, RxEnvironmentTyped, AnswerTyped, StoredWriting DEF IInv, RxEnvironment, Answer
<1>7. CASE RxPower \/ Lose
  BY <1>0, <1>7, RxPowerTyped, LoseTyped DEF IInv, Writing, RxPower, Lose
<1>8. CASE UNCHANGED vars
  BY <1>0, <1>8 DEF IInv, Typed, AutoOK, JobOK, CacheOK, RestOK, Turns, Inside, Writing, vars
<1> QED BY <1>1, <1>2, <1>3, <1>4, <1>5, <1>6, <1>7, <1>8
       DEF Next, ClockStep, RxStep, PeerStep, Answers, Thread

LEMMA Inductive == Spec => []IInv
<1> QED BY InitIInv, NextIInv, PTL DEF Spec

\* TypesHold: the state of both services is well typed, the node driven to is always on
\* the route, and the telemetry fits its slots, whatever the peer sends.
THEOREM TypesHold == Spec => []TypeOK
<1>1. IInv => TypeOK
  BY TypeParts DEF IInv, Typed
<1> QED BY <1>1, Inductive, PTL

-----------------------------------------------------------------------------
(* The routes.                                                             *)

\* A step that reaches no node and takes no route changes nothing of the route.
Kept == UNCHANGED <<auto.cmd, auto.idx, auto.active, sent>>

LEMMA OthersKeep ==
  ASSUME IInv,
         \/ Sample \/ AutoTick \/ Move \/ TellPosition \/ AskPower \/ RxPosition \/ RxPower
         \/ Lose \/ Written
         \/ \E t \in Thread : NotDriving(t) \/ CheckRegion(t) \/ Hit(t) \/ Miss(t) \/ Underway(t)
         \/ \E s \in Drives : RxMotor(s)
         \/ \E e \in Environments : Stored(e) /\ UNCHANGED auto /\ UNCHANGED sent
  PROVE  Kept
<1>1. auto \in AutoState
  BY DEF IInv, Typed, AutoOK
<1>2. CASE UNCHANGED <<auto, sent>>
  BY <1>2 DEF Kept
<1>3. CASE AskPower \/ RxPower
  BY <1>1, <1>3 DEF AskPower, RxPower, Charged, AutoState, Kept
<1>4. ASSUME NEW t \in Thread, NotDriving(t) \/ Underway(t) PROVE Kept
  BY <1>1, <1>4 DEF NotDriving, Underway, AutoState, Kept
<1>5. ASSUME NEW t \in Thread, Hit(t) PROVE Kept
  <2>1. PICK i \in First(Covering(job[t].x)) :
           auto' = [auto EXCEPT !.env = i, !.used = Tracked(auto.used, cache[i].region_id)]
    BY <1>5 DEF Hit
  <2> QED BY <1>1, <1>5, <2>1 DEF Hit, AutoState, Kept
<1> QED BY <1>2, <1>3, <1>4, <1>5
       DEF Sample, AutoTick, Move, TellPosition, RxPosition, Lose, Written, CheckRegion, Miss, RxMotor

\* MissionFollowsRoute: AutonomousService implements Route, for every peer: nodes are
\* reached one at a time, and a route is reported complete once (RouteFollowed).
THEOREM MissionFollowsRoute == Spec => RouteFollowed
<1>1. Init => Followed!Init
  BY DEF Init, Followed!Init, NoRoute
<1>2. IInv /\ [Next]_vars => [Followed!Next]_Followed!vars
  <2> SUFFICES ASSUME IInv, [Next]_vars PROVE [Followed!Next]_Followed!vars
    OBVIOUS
  <2>1. ASSUME Kept PROVE UNCHANGED Followed!vars
    BY <2>1 DEF Kept, Followed!vars
  <2>2. ASSUME NEW c \in Routes, RxDrive(c) PROVE Followed!Next
    <3>1. Followed!Accept(c.route)
      BY <2>2 DEF RxDrive, Followed!Accept
    <3> QED BY <3>1 DEF Followed!Next
  <2>3. ASSUME NEW t \in Thread, ReachNode(t) \/ ReachLast(t) PROVE Followed!Next
    <3>1. /\ auto.active /\ auto.idx \in Nat /\ auto.idx < Len(auto.cmd.route)
          /\ Len(auto.cmd.route) \in Nat /\ auto \in AutoState
      BY <2>3, OnRoute DEF IInv, Typed, AutoOK, ReachNode, ReachLast
    <3>2. CASE ReachNode(t)
      <4>1. /\ auto'.cmd = auto.cmd /\ auto'.idx = auto.idx + 1 /\ auto'.active = auto.active
            /\ sent' = sent
        BY <3>1, <3>2 DEF ReachNode, AutoState
      <4>2. auto.idx + 1 < Len(auto.cmd.route)
        BY <3>2 DEF ReachNode, More
      <4>3. Followed!Reach
        BY <3>1, <4>1, <4>2 DEF Followed!Reach
      <4> QED BY <4>3 DEF Followed!Next
    <3>3. CASE ReachLast(t)
      <4>1. /\ auto'.cmd = auto.cmd /\ auto'.idx = auto.idx + 1 /\ auto'.active = FALSE
            /\ sent' = sent + 1
        BY <3>1, <3>3 DEF ReachLast, AutoState
      <4>2. ~ (auto.idx + 1 < Len(auto.cmd.route))
        BY <3>3 DEF ReachLast, More
      <4>3. auto'.active = (auto'.idx < Len(auto.cmd.route))
        <5>1. (auto'.idx < Len(auto.cmd.route)) = FALSE
          BY <4>1, <4>2
        <5>2. auto'.active = FALSE
          BY <4>1
        <5> QED BY <5>1, <5>2, Zenon
      <4>4. sent' = IF auto'.active THEN sent ELSE sent + 1
        BY <4>1
      <4>5. /\ auto.active /\ auto'.idx = auto.idx + 1 /\ UNCHANGED auto.cmd.route
            /\ auto'.active = (auto'.idx < Len(auto.cmd.route))
            /\ sent' = IF auto'.active THEN sent ELSE sent + 1
        BY <3>1, <4>1, <4>3, <4>4
      <4>6. Followed!Reach
        BY <4>5, Zenon DEF Followed!Reach
      <4> QED BY <4>6 DEF Followed!Next
    <3> QED BY <2>3, <3>2, <3>3
  <2>4. CASE UNCHANGED vars
    BY <2>4 DEF vars, Followed!vars
  <2> QED BY <2>1, <2>2, <2>3, <2>4, OthersKeep
         DEF Next, ClockStep, RxStep, PeerStep, Answers, Deliver, RxEnvironment, Answer, Stored, Thread
<1> QED BY <1>1, <1>2, Inductive, PTL DEF Spec, RouteFollowed, Followed!Spec

\* MissionEnds: if the peer's own sequences do not use the id of missions, the motor runs no
\* mission sequence once the route is over (MissionStops).
THEOREM MissionEnds ==
  ASSUME \A s \in Drives : s.id # MissionId
  PROVE  Spec => []MissionStops
<1>1. Init => MissionStops
  BY DEF Init, MissionStops
<1>2. IInv /\ MissionStops /\ [Next]_vars => MissionStops'
  <2> SUFFICES ASSUME IInv, MissionStops, [Next]_vars PROVE MissionStops'
    OBVIOUS
  <2>0. auto \in AutoState /\ motor \in MotorType
    BY DEF IInv, Typed, AutoOK
  <2>1. ASSUME Kept, motor' = motor PROVE MissionStops'
    BY <2>1 DEF Kept, MissionStops
  <2>2. ASSUME NEW c \in Routes, RxDrive(c) PROVE MissionStops'
    BY <2>2 DEF RxDrive, MissionStops
  <2>3. ASSUME NEW t \in Thread, ReachNode(t) PROVE MissionStops'
    <3>1. auto.active
      BY <2>3, OnRoute DEF IInv, ReachNode
    <3>2. auto'.active = auto.active
      BY <2>0, <2>3 DEF ReachNode, AutoState
    <3> QED BY <3>1, <3>2 DEF MissionStops
  <2>4. ASSUME NEW t \in Thread, ReachLast(t) PROVE MissionStops'
    <3>1. motor'.active = (0 > 0)
      BY <2>4, Zenon DEF ReachLast, StopSequence, Taken
    <3>2. ~ (0 > 0)
      OBVIOUS
    <3>3. ~ motor'.active
      BY <3>1, <3>2, Zenon
    <3> QED BY <3>3 DEF MissionStops
  <2>5. ASSUME NEW t \in Thread, Hit(t) PROVE MissionStops'
    <3>1. Kept
      BY <2>5, OthersKeep
    <3>2. auto.active \/ motor' = motor
      BY <2>5 DEF Hit
    <3> QED BY <3>1, <3>2 DEF Kept, MissionStops
  <2>6. ASSUME NEW s \in Drives, RxMotor(s) PROVE MissionStops'
    BY <2>6 DEF RxMotor, Taken, MissionStops
  <2>7. CASE Move
    <3>1. Kept
      BY <2>7, OthersKeep
    <3>2. motor'.active => motor.active
      BY <2>0, <2>7 DEF Move, MotorType
    <3>3. motor'.id = motor.id
      BY <2>0, <2>7 DEF Move, MotorType
    <3> QED BY <3>1, <3>2, <3>3 DEF Kept, MissionStops
  <2>8. CASE UNCHANGED vars
    BY <2>8 DEF vars, MissionStops
  <2> QED BY <2>1, <2>2, <2>3, <2>4, <2>5, <2>6, <2>7, <2>8, OthersKeep
         DEF Next, ClockStep, RxStep, PeerStep, Answers, Deliver, RxEnvironment, Answer, Stored, Thread,
             Sample, AutoTick, TellPosition, AskPower, RxPosition, RxPower, Lose, Written,
             NotDriving, CheckRegion, Miss, Underway
<1> QED BY <1>1, <1>2, Inductive, PTL DEF Spec
-----------------------------------------------------------------------------
(* Where the vehicle has been: what AutonomousService knows of positions   *)
(* lies between the least and the greatest since the route was accepted.   *)

OnSpan(x) == span.lo <= x /\ x <= span.hi

SpanOK == span \in [lo : Int, hi : Int] /\ OnSpan(pos)

\* A thread that carries a position to AutonomousService.
HasPosition(t) == job[t].at \in {"check", "ask", "reach"} \/ (t = "rx" /\ job[t].at = "position")

Told == \A t \in Thread : HasPosition(t) => OnSpan(job[t].x)

\* The node a thread compares its position with is the one the route has come to.
Aimed ==
    \A t \in Thread : job[t].at \in {"ask", "reach"} => job[t].target = auto.cmd.route[auto.idx + 1].x

LastOnSpan == fresh => OnSpan(auto.last_pos)

HInv == IInv /\ SpanOK /\ Told /\ Aimed /\ LastOnSpan

LEMMA HistoryStep == HNext => Next
<1> SUFFICES ASSUME HNext PROVE Next
  OBVIOUS
<1>1. CASE HMove \/ \E c \in Routes : HDrive(c)
  BY <1>1 DEF HMove, HDrive, Next, ClockStep, PeerStep
<1>2. CASE HOther
  BY <1>2 DEF HOther, Next, ClockStep, RxStep, PeerStep, Answers, Thread
<1> QED BY <1>1, <1>2 DEF HNext

\* One thread goes on, and the route stays as it is or is its own to change.
LEMMA OneGoesOn ==
  ASSUME HInv, NEW t \in Thread, UNCHANGED span,
         \A u \in Thread \ {t} : job'[u] = job[u],
         HasPosition(t)' => OnSpan(job'[t].x),
         job'[t].at \in {"ask", "reach"} => job'[t].target = auto'.cmd.route[auto'.idx + 1].x,
         Inside(t) \/ (auto'.cmd = auto.cmd /\ auto'.idx = auto.idx)
  PROVE  Told' /\ Aimed'
<1>1. \A x : OnSpan(x)' <=> OnSpan(x)
  BY DEF OnSpan
<1>2. Told'
  BY <1>1 DEF HInv, Told, HasPosition, OnSpan
<1>3. \A u \in Thread \ {t} : Inside(t) => job[u].at \notin {"ask", "reach"}
  BY DEF HInv, IInv, Turns, Inside
<1>4. Aimed'
  BY <1>3 DEF HInv, Aimed
<1> QED BY <1>2, <1>4

LEMMA JobAfterLeave ==
  ASSUME JobOK, NEW t \in Thread, NEW p, Leave(t, p)
  PROVE  job'[t].at = p /\ \A u \in Thread \ {t} : job'[u] = job[u]
BY DEF JobOK, Leave

\* A thread that leaves AutonomousService, or does something else, carries no position.
LEMMA LeavesQuietly ==
  ASSUME HInv, NEW t \in Thread, NEW p \in {"idle", "tick", "move", "power", "write"},
         Leave(t, p), UNCHANGED span,
         Inside(t) \/ (auto'.cmd = auto.cmd /\ auto'.idx = auto.idx)
  PROVE  Told' /\ Aimed'
<1>1. job'[t].at = p /\ \A u \in Thread \ {t} : job'[u] = job[u]
  BY JobAfterLeave DEF HInv, IInv, Typed
<1>2. ~ HasPosition(t)' /\ job'[t].at \notin {"ask", "reach"}
  BY <1>1 DEF HasPosition
<1> QED BY <1>1, <1>2, OneGoesOn

LEMMA TellsOnSpan ==
  ASSUME HInv, NEW t \in Thread, NEW x \in Int, OnSpan(x), Tell(t, x), UNCHANGED <<span, auto>>
  PROVE  Told' /\ Aimed'
<1>1. job'[t].at = "check" /\ job'[t].x = x /\ \A u \in Thread \ {t} : job'[u] = job[u]
  BY DEF Tell, HInv, IInv, Typed, JobOK
<1>2. OnSpan(job'[t].x)
  BY <1>1
<1> QED BY <1>1, <1>2, OneGoesOn DEF HasPosition

LEMMA StaysOnSpan ==
  ASSUME HInv, NEW t \in Thread, At(t, "ask"), Stay(t, "reach"), UNCHANGED span,
         auto'.cmd = auto.cmd, auto'.idx = auto.idx
  PROVE  Told' /\ Aimed'
<1>1. /\ job'[t].at = "reach" /\ job'[t].x = job[t].x /\ job'[t].target = job[t].target
      /\ \A u \in Thread \ {t} : job'[u] = job[u]
  BY DEF Stay, HInv, IInv, Typed, JobOK
<1>2. OnSpan(job[t].x) /\ job[t].target = auto.cmd.route[auto.idx + 1].x
  BY DEF HInv, Told, Aimed, HasPosition, At
<1>3. OnSpan(job'[t].x)
  BY <1>1, <1>2
<1> QED BY <1>1, <1>2, <1>3, OneGoesOn

\* The position a thread delivers is one of the route.
LEMMA DeliversOnSpan ==
  ASSUME HInv, NEW t \in Thread, At(t, "check") \/ At(t, "ask") \/ At(t, "reach")
  PROVE  OnSpan(job[t].x) /\ Inside(t)
BY DEF HInv, Told, HasPosition, At, Inside

LEMMA DeliverKeepsTold ==
  ASSUME HInv, NEW t \in Thread, Deliver(t), UNCHANGED history
  PROVE  Told' /\ Aimed' /\ LastOnSpan'
<1>0. /\ auto \in AutoState /\ JobOK /\ UNCHANGED span /\ fresh' = fresh
      /\ \A x : OnSpan(x)' <=> OnSpan(x)
  BY DEF HInv, IInv, Typed, AutoOK, history, OnSpan
<1>1. CASE NotDriving(t) \/ Underway(t)
  <2>1. auto' = [auto EXCEPT !.last_pos = job[t].x] /\ Leave(t, After(t)) /\ OnSpan(job[t].x) /\ Inside(t)
    BY <1>1, DeliversOnSpan DEF NotDriving, Underway
  <2>2. OnSpan(auto'.last_pos)
    BY <1>0, <2>1 DEF AutoState
  <2> QED BY <1>0, <2>1, <2>2, LeavesQuietly, AfterPlace DEF LastOnSpan, OnSpan
<1>2. CASE ReachNode(t) \/ ReachLast(t)
  <2>1. auto'.last_pos = job[t].x
    <3>1. CASE ReachNode(t)
      BY <1>0, <3>1 DEF ReachNode, AutoState
    <3>2. CASE ReachLast(t)
      BY <1>0, <3>2 DEF ReachLast, AutoState
    <3> QED BY <1>2, <3>1, <3>2
  <2>2. Leave(t, After(t)) /\ OnSpan(job[t].x) /\ Inside(t)
    BY <1>2, DeliversOnSpan DEF ReachNode, ReachLast
  <2> QED BY <1>0, <2>1, <2>2, LeavesQuietly, AfterPlace DEF LastOnSpan, OnSpan
<1>3. CASE Hit(t)
  <2>1. PICK i \in First(Covering(job[t].x)) :
           auto' = [auto EXCEPT !.env = i, !.used = Tracked(auto.used, cache[i].region_id)]
    BY <1>3 DEF Hit
  <2>2. auto'.cmd = auto.cmd /\ auto'.idx = auto.idx /\ auto'.last_pos = auto.last_pos
    BY <1>0, <2>1 DEF AutoState
  <2> QED BY <1>0, <1>3, <2>2, StaysOnSpan DEF Hit, LastOnSpan, HInv, OnSpan
<1>4. CASE Miss(t)
  BY <1>0, <1>4, StaysOnSpan DEF Miss, LastOnSpan, HInv, OnSpan
<1>5. CASE CheckRegion(t)
  <2>1. /\ job'[t].at \in {"ask", "reach"} /\ job'[t].x = job[t].x
        /\ job'[t].target = auto.cmd.route[auto.idx + 1].x
        /\ \A u \in Thread \ {t} : job'[u] = job[u]
        /\ UNCHANGED auto
    BY <1>0, <1>5 DEF CheckRegion, JobOK
  <2>2. OnSpan(job'[t].x)
    BY <1>5, <2>1, DeliversOnSpan DEF CheckRegion
  <2> QED BY <1>0, <2>1, <2>2, OneGoesOn DEF LastOnSpan, HInv, OnSpan
<1> QED BY <1>1, <1>2, <1>3, <1>4, <1>5 DEF Deliver

LEMMA OtherKeepsTold ==
  ASSUME HInv, HOther
  PROVE  SpanOK' /\ Told' /\ Aimed' /\ LastOnSpan'
<1>0. /\ auto \in AutoState /\ JobOK /\ UNCHANGED <<span, fresh>>
      /\ pos \in Int /\ OnSpan(pos)
      /\ "clock" \in Thread /\ "rx" \in Thread
  BY DEF HOther, history, HInv, IInv, Typed, AutoOK, RestOK, SpanOK, Thread
<1>1. SpanOK'
  <2>1. UNCHANGED pos
    BY DEF HOther, Sample, AutoTick, AskPower, TellPosition, Written, Lose, RxPosition, RxPower, Deliver,
           NotDriving, CheckRegion, Hit, Miss, Underway, ReachNode, ReachLast, RxMotor, RxEnvironment,
           Answer, Stored
  <2> QED BY <1>0, <2>1 DEF HInv, SpanOK, OnSpan
<1> SUFFICES Told' /\ Aimed' /\ LastOnSpan'
  BY <1>1
<1>2. ASSUME NEW t \in Thread, Deliver(t) PROVE Told' /\ Aimed' /\ LastOnSpan'
  BY <1>2, DeliverKeepsTold DEF HOther
<1>3. ASSUME auto'.last_pos = auto.last_pos PROVE LastOnSpan'
  BY <1>0, <1>3 DEF LastOnSpan, HInv, OnSpan
<1>4. ASSUME UNCHANGED job, auto'.cmd = auto.cmd, auto'.idx = auto.idx PROVE Told' /\ Aimed'
  BY <1>0, <1>4 DEF Told, Aimed, HInv, HasPosition, OnSpan
<1>5. Charged.cmd = auto.cmd /\ Charged.idx = auto.idx /\ Charged.last_pos = auto.last_pos
  BY <1>0 DEF Charged, AutoState
<1>6. CASE Sample
  BY <1>0, <1>3, <1>6, LeavesQuietly DEF Sample
<1>7. CASE AutoTick
  BY <1>0, <1>3, <1>7, LeavesQuietly, TellsOnSpan DEF AutoTick
<1>8. CASE AskPower
  BY <1>0, <1>3, <1>5, <1>8, LeavesQuietly DEF AskPower
<1>9. CASE TellPosition
  <2>1. OnSpan(job["rx"].x) /\ job["rx"].x \in Int
    BY <1>0, <1>9 DEF TellPosition, HInv, Told, HasPosition, At, JobOK
  <2> QED BY <1>0, <1>3, <1>9, <2>1, TellsOnSpan DEF TellPosition
<1>10. CASE Written
  BY <1>0, <1>3, <1>10, LeavesQuietly DEF Written
<1>11. CASE Lose \/ (\E s \in Drives : RxMotor(s))
  BY <1>3, <1>4, <1>11 DEF Lose, RxMotor
<1>12. CASE RxPower
  BY <1>3, <1>4, <1>5, <1>12 DEF RxPower
<1>13. CASE RxPosition
  <2>1. /\ job'["rx"].at = "position" /\ job'["rx"].x = pos
        /\ \A u \in Thread \ {"rx"} : job'[u] = job[u]
        /\ UNCHANGED auto
    BY <1>0, <1>13 DEF RxPosition, JobOK
  <2> QED BY <1>0, <1>3, <2>1, OneGoesOn
<1>14. ASSUME NEW e \in Environments, Stored(e) PROVE Told' /\ Aimed' /\ LastOnSpan'
  BY <1>0, <1>3, <1>4, <1>14, LeavesQuietly DEF Stored
<1> QED BY <1>2, <1>6, <1>7, <1>8, <1>9, <1>10, <1>11, <1>12, <1>13, <1>14
       DEF HOther, RxEnvironment, Answer

\* The vehicle moves: the span takes in the new position, and loses none.
LEMMA MoveKeepsTold ==
  ASSUME HInv, HMove
  PROVE  SpanOK' /\ Told' /\ Aimed' /\ LastOnSpan'
<1>0. /\ JobOK /\ span \in [lo : Int, hi : Int] /\ pos \in Int /\ tick.rpm \in Int
      /\ UNCHANGED <<auto, fresh>> /\ "clock" \in Thread
      /\ pos' = pos + tick.rpm /\ Leave("clock", "idle")
  BY DEF HInv, IInv, Typed, RestOK, SpanOK, HMove, Move, Thread
<1>1. span' = [lo |-> Least(span.lo, pos'), hi |-> -Least(-span.hi, -pos')]
  BY DEF HMove
<1>2. /\ span' \in [lo : Int, hi : Int]
      /\ span'.lo <= span.lo /\ span.hi <= span'.hi /\ span'.lo <= pos' /\ pos' <= span'.hi
  BY <1>0, <1>1 DEF Least
<1>3. ASSUME NEW x \in Int, OnSpan(x) PROVE span'.lo <= x /\ x <= span'.hi
  BY <1>0, <1>2, <1>3 DEF OnSpan
<1>4. SpanOK'
  BY <1>2 DEF SpanOK, OnSpan
<1>5. job'["clock"].at = "idle" /\ \A u \in Thread \ {"clock"} : job'[u] = job[u]
  BY <1>0, JobAfterLeave
<1>6. \A t \in Thread : HasPosition(t)' => HasPosition(t) /\ job'[t] = job[t] /\ job[t].x \in Int
  BY <1>0, <1>5 DEF HasPosition, JobOK
<1>7. Told'
  BY <1>3, <1>6 DEF HInv, Told, OnSpan
<1>8. Aimed'
  BY <1>0, <1>5 DEF HInv, Aimed
<1>9. auto.last_pos \in Int
  BY DEF HInv, IInv, Typed, AutoOK, AutoState
<1>10. LastOnSpan'
  BY <1>0, <1>3, <1>9 DEF HInv, LastOnSpan, OnSpan
<1> QED BY <1>4, <1>7, <1>8, <1>10

\* A route is accepted when no thread is inside AutonomousService, nor carries a position.
LEMMA DriveKeepsTold ==
  ASSUME HInv, NEW c \in Routes, HDrive(c)
  PROVE  SpanOK' /\ Told' /\ Aimed' /\ LastOnSpan'
<1>0. /\ pos \in Int /\ UNCHANGED <<job, pos>> /\ span' = [lo |-> pos, hi |-> pos]
      /\ (fresh' => auto.last_pos = pos) /\ auto'.last_pos = auto.last_pos
      /\ AutoFree /\ job["rx"].at = "idle"
  BY DEF HInv, IInv, Typed, RestOK, HDrive, RxDrive, Receive, At
<1>1. SpanOK'
  BY <1>0 DEF SpanOK, OnSpan
<1>2. LastOnSpan'
  <2>1. fresh' => auto'.last_pos = pos
    BY <1>0
  <2>2. span'.lo = pos /\ span'.hi = pos /\ pos <= pos
    BY <1>0
  <2> QED BY <2>1, <2>2 DEF LastOnSpan, OnSpan
<1>3. Told' /\ Aimed'
  BY <1>0 DEF Told, Aimed, HasPosition, AutoFree
<1> QED BY <1>1, <1>2, <1>3

LEMMA HistoryInit == HInit => HInv
<1> SUFFICES ASSUME HInit PROVE HInv
  OBVIOUS
<1>1. IInv
  BY InitIInv DEF HInit
<1>2. /\ span = [lo |-> 0, hi |-> 0] /\ pos = 0 /\ auto.last_pos = 0
      /\ \A t \in Thread : job[t].at = "idle"
  BY DEF HInit, Init
<1> QED BY <1>1, <1>2 DEF HInv, SpanOK, Told, Aimed, LastOnSpan, OnSpan, HasPosition

LEMMA HistoryInductive == HInv /\ [HNext]_hvars => HInv'
<1> SUFFICES ASSUME HInv, [HNext]_hvars PROVE HInv'
  OBVIOUS
<1>1. IInv'
  BY HistoryStep, NextIInv DEF HInv, hvars
<1>2. SpanOK' /\ Told' /\ Aimed' /\ LastOnSpan'
  <2>1. CASE UNCHANGED hvars
    BY <2>1 DEF hvars, vars, history, HInv, SpanOK, Told, Aimed, LastOnSpan, OnSpan, HasPosition
  <2> QED BY <2>1, OtherKeepsTold, MoveKeepsTold, DriveKeepsTold DEF HNext
<1> QED BY <1>1, <1>2 DEF HInv

\* Close to a node, or at its other side, from where the vehicle has been.
LEMMA PastIsOnTheWay ==
  ASSUME NEW a \in Int, NEW x \in Int, NEW lo \in Int, NEW hi \in Int, NEW n \in Int,
         lo <= a, a <= hi, lo <= x, x <= hi,
         Abs(n - x) < Near \/ (n - a) * (n - x) <= 0
  PROVE  lo - Near < n /\ n < hi + Near
<1>1. Near \in Nat \ {0}
  BY MissionAssumption DEF MissionAssumption
<1>2. CASE Abs(n - x) < Near
  BY <1>1, <1>2 DEF Abs
<1>3. CASE (n - a) * (n - x) <= 0
  <2>1. ~ (n > a /\ n > x)
    <3>1. ASSUME n > a, n > x PROVE (n - a) * (n - x) > 0
      BY <3>1
    <3> QED BY <1>3, <3>1
  <2>2. ~ (n < a /\ n < x)
    <3>1. ASSUME n < a, n < x PROVE (n - a) * (n - x) > 0
      BY <3>1
    <3> QED BY <1>3, <3>1
  <2> QED BY <1>1, <2>1, <2>2
<1> QED BY <1>2, <1>3

\* NodesAreReached: a node counts as reached only if the vehicle has been there, or went
\* past it, since the route was accepted, if AutonomousService knew the position then
\* (ReachedOnTheWay): the positions of the two threads may come out of order, but each was
\* taken since.
THEOREM NodesAreReached == HSpec => ReachedOnTheWay
<1>1. ASSUME HInv, HNext, NodeReached, fresh PROVE OnTheWay
  <2>0. auto \in AutoState /\ auto.idx \in Nat
    BY <1>1 DEF HInv, IInv, Typed, AutoOK, AutoState
  <2>1. PICK t \in Thread : ReachNode(t) \/ ReachLast(t)
    <3>1. CASE \E c \in Routes : HDrive(c)
      <4>1. auto'.idx = 0
        BY <3>1 DEF HDrive, RxDrive
      <4> QED BY <1>1, <2>0, <4>1 DEF NodeReached
    <3>2. ASSUME ~ \E t \in Thread : ReachNode(t) \/ ReachLast(t), HMove \/ HOther PROVE FALSE
      <4>1. Kept
        BY <1>1, <3>2, OthersKeep DEF HInv, HMove, HOther, Deliver, RxEnvironment, Answer, Stored
      <4> QED BY <1>1, <2>0, <4>1 DEF Kept, NodeReached
    <3> QED BY <1>1, <3>1, <3>2 DEF HNext
  <2>2. At(t, "reach") /\ Reached(job[t].target, job[t].x)
    BY <2>1 DEF ReachNode, ReachLast
  <2> DEFINE n == auto.cmd.route[auto.idx + 1].x
  <2>3. job[t].target = n /\ OnSpan(job[t].x) /\ OnSpan(auto.last_pos)
    BY <1>1, <2>2, DeliversOnSpan DEF HInv, Aimed, LastOnSpan, At
  <2>4. /\ job[t].x \in Int /\ job[t].target \in Int /\ auto.last_pos \in Int
        /\ span.lo \in Int /\ span.hi \in Int
    BY <1>1, <2>0 DEF HInv, IInv, Typed, JobOK, SpanOK, AutoState
  <2>5. span.lo - Near < job[t].target /\ job[t].target < span.hi + Near
    BY <2>2, <2>3, <2>4, PastIsOnTheWay DEF Reached, OnSpan
  <2> QED BY <2>3, <2>5 DEF OnTheWay
<1>2. HInv /\ [HNext]_hvars => [NodeReached /\ fresh => OnTheWay]_hvars
  BY <1>1
<1> QED BY <1>2, HistoryInit, HistoryInductive, PTL DEF HSpec, ReachedOnTheWay
=============================================================================
