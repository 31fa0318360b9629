---------------------------- MODULE TimingProofs ----------------------------
(***************************************************************************)
(* How long a step drives the vehicle, for any commands, durations and     *)
(* period: the ticks are counted from what the motor has still to count.   *)
(***************************************************************************)
EXTENDS VehicleTiming, VehicleProofs

\* The motor runs a sequence that no tick sampled before it can be taken for.
Fresh == motor.active /\ ~ reused

\* What the clock can sample: its copy is of another sequence as long as it is stale,
\* unless it is the clock itself that reports.
StateOld == Fresh /\ ~ Cached /\ report.owner # "clock" => state.cmd_id # motor.cmd.cmd_id

\* A tick under the id of the sequence carries the speed of the present step.
TickFits ==
    Fresh /\ tick.left # <<>> /\ tick.cmd_id = motor.cmd.cmd_id => tick.rpm = StatusOf(motor).rpm

\* The tick in flight is one of the sequence that Kinematics has taken and the motor has not.
Ahead == tick.cmd_id = motor.cmd.cmd_id /\ tick.left # <<>> /\ "Kinematics" \notin Range(tick.left)

Duration == motor.cmd.steps[motor.idx + 1].dur

\* What has been driven and what remains make up the duration of the step.
Counting ==
    /\ driven \in Nat
    /\ Fresh => driven + Periods(motor.remaining) = Periods(Duration) + (IF Ahead THEN 1 ELSE 0)

\* No service has to take the tick in flight twice.
LeftOnce == \A i, j \in 1..Len(tick.left) : tick.left[i] = tick.left[j] => i = j

TInv == TypeOK /\ Reporting /\ LastTaken /\ LeftOnce /\ StateOld /\ TickFits /\ Counting

-----------------------------------------------------------------------------
\* Dividing up a duration: a whole period less is one period less.
LEMMA OnePeriod ==
  ASSUME NEW n \in Nat, n <= kTickUs
  PROVE  Periods(n) = 1
<1> DEFINE T == kTickUs
<1>1. T \in Nat \ {0}
  BY VehicleAssumption DEF VehicleAssumption
<1> HIDE DEF T
<1>2. ASSUME n # 0 PROVE (n + T - 1) \div T = 1
  <2>1. n <= T
    BY DEF T
  <2>2. n + T - 1 = T * 1 + (n - 1) /\ n - 1 \in 0..(T - 1)
    BY <1>1, <1>2, <2>1
  <2> QED BY <1>1, <1>2, <2>1, <2>2
<1> QED BY <1>2 DEF Periods, T

LEMMA PeriodLess ==
  ASSUME NEW n \in Nat, kTickUs < n
  PROVE  Periods(n - kTickUs) + 1 = Periods(n)
<1> DEFINE T == kTickUs
           m == n - T
           q == (m + T - 1) \div T
           r == (m + T - 1) % T
<1>1. T \in Nat \ {0} /\ m \in Nat \ {0} /\ n = m + T
  BY VehicleAssumption DEF VehicleAssumption
<1> HIDE DEF T, m
<1>2. q \in Nat /\ r \in 0..(T - 1) /\ m + T - 1 = T * q + r
  BY <1>1
<1> HIDE DEF q, r
<1>3. n + T - 1 = T * (q + 1) + r
  BY <1>1, <1>2
<1>4. (n + T - 1) \div T = q + 1
  BY <1>1, <1>2, <1>3
<1>5. Periods(m) = q /\ Periods(n) = q + 1
  BY <1>1, <1>4 DEF Periods, T, q
<1> QED BY <1>2, <1>5 DEF m, T

LEMMA PeriodsType ==
  ASSUME NEW n \in Nat
  PROVE  Periods(n) \in Int
<1>1. kTickUs \in Nat \ {0}
  BY VehicleAssumption DEF VehicleAssumption
<1> QED BY <1>1 DEF Periods
LEMMA DurationType ==
  ASSUME TypeOK, motor.active
  PROVE  Duration \in Nat /\ motor.remaining \in Nat
<1>1. MotorOK(motor)
  BY DEF TypeOK
<1>2. motor.idx + 1 \in 1..kMaxSubCmds
  BY <1>1, VehicleAssumption DEF MotorOK, VehicleAssumption, MotorSequencePayload
<1>3. motor.cmd.steps[motor.idx + 1] \in MotorSubCmd
  BY <1>1, <1>2 DEF MotorOK, MotorSequencePayload
<1> QED BY <1>1, <1>3 DEF Duration, MotorSubCmd, MotorOK

-----------------------------------------------------------------------------
\* The steps are those of Vehicle.
LEMMA TimedStep == TNext => Next
<1> SUFFICES ASSUME TNext PROVE Next
  OBVIOUS
<1>1. CASE TOther
  BY <1>1 DEF TOther, Next, ClockStep, MotorTick
<1>2. CASE TAdvance \/ TKinematicsTick \/ \E t \in Thread : TAccept(t)
  BY <1>2 DEF TAdvance, TKinematicsTick, TAccept, Next, ClockStep, MotorTick, Thread
<1> QED BY <1>1, <1>2 DEF TNext

\* The last one left in a tick is the motor.
LEMMA MotorLeft ==
  ASSUME TypeOK, LastTaken, tick.left # <<>>
  PROVE  "Motor" \in Range(tick.left)
<1> DEFINE s == tick.left
           S == {"Autonomous", "Power", "Kinematics", "Motor"}
<1>1. s \in Seq(S) /\ s # <<>>
  BY DEF TypeOK
<1> HIDE DEF S
<1>2. Len(s) \in 1..Len(s) /\ DOMAIN s = 1..Len(s)
  BY <1>1
<1>3. s[Len(s)] = "Motor"
  BY <1>2 DEF LastTaken
<1> QED BY <1>2, <1>3 DEF Range

\* What another than the motor leaves behind, the motor has still to take.
LEMMA LeftBehind ==
  ASSUME TypeOK, LastTaken, NEW x, Takes(x), x # "Motor"
  PROVE  tick'.left # <<>>
<1>1. "Motor" \in Range(tick.left)
  BY MotorLeft, TakesKeeps
<1>2. "Motor" \in Range(tick'.left)
  BY <1>1, TakenOnly
<1> QED BY <1>2 DEF Range

\* Whoever takes the tick is out of it.
LEMMA TakenOut ==
  ASSUME TypeOK, LeftOnce, NEW x, Takes(x)
  PROVE  /\ x \in Range(tick.left) /\ x \notin Range(tick'.left)
         /\ \A y : y # x => (y \in Range(tick'.left) <=> y \in Range(tick.left))
<1> DEFINE s == tick.left
           S == {"Autonomous", "Power", "Kinematics", "Motor"}
<1>1. s \in Seq(S) /\ s # <<>> /\ s[1] = x /\ tick'.left = Tail(s)
  BY DEF Takes, TypeOK
<1> HIDE DEF S
<1>2. /\ 1 \in DOMAIN s /\ DOMAIN s = 1..Len(s)
      /\ \A i \in DOMAIN Tail(s) : Tail(s)[i] = s[i + 1] /\ i + 1 \in DOMAIN s /\ i + 1 # 1
      /\ \A i \in DOMAIN s : i = 1 \/ (i - 1 \in DOMAIN Tail(s) /\ Tail(s)[i - 1] = s[i])
  BY <1>1
<1>3. x \in Range(s)
  BY <1>1, <1>2 DEF Range
<1>4. \A i \in DOMAIN Tail(s) : Tail(s)[i] # x
  BY <1>1, <1>2 DEF LeftOnce
<1>5. x \notin Range(Tail(s))
  BY <1>4 DEF Range
<1>6. \A y \in Range(Tail(s)) : y \in Range(s)
  BY <1>2 DEF Range
<1>7. \A y \in Range(s) : y # x => y \in Range(Tail(s))
  <2> SUFFICES ASSUME NEW y \in Range(s), y # x PROVE y \in Range(Tail(s))
    OBVIOUS
  <2>1. PICK i \in DOMAIN s : s[i] = y
    BY DEF Range
  <2>2. i - 1 \in DOMAIN Tail(s) /\ Tail(s)[i - 1] = y
    BY <1>1, <1>2, <2>1
  <2> QED BY <2>2 DEF Range
<1> QED BY <1>1, <1>3, <1>5, <1>6, <1>7

\* Which steps touch the tick, the motor and the history.
LEMMA TickSteps ==
  ASSUME [Next]_vars
  PROVE  Sample \/ (\E x : Takes(x)) \/ UNCHANGED tick
BY DEF Next, ClockStep, MotorTick, ReportStep, PeerStep, vars, Receive, ReceiveAuto, AutoCommand,
       MotorSequence, MotorReturn, AutoTick, PowerTick, KinematicsTick, MotorIgnores,
       MotorCounts, MotorAdvances, StateHears, PowerHears, KinematicsHears

LEMMA LeftOnceKept ==
  ASSUME TickedOnce, TypeOK, LeftOnce, [Next]_vars
  PROVE  LeftOnce'
<1>1. CASE Sample
  BY <1>1 DEF Sample, LeftOnce, TickedOnce
<1>2. CASE \E x : Takes(x)
  <2>1. /\ tick.left \in Seq({"Autonomous", "Power", "Kinematics", "Motor"})
        /\ tick.left # <<>>
        /\ tick'.left = Tail(tick.left)
    BY <1>2 DEF Takes, TypeOK
  <2>2. \A i \in 1..Len(tick'.left) :
           i \in Nat /\ tick'.left[i] = tick.left[i + 1] /\ i + 1 \in 1..Len(tick.left)
    BY <2>1
  <2> QED BY <2>2 DEF LeftOnce
<1>3. CASE UNCHANGED tick
  BY <1>3 DEF LeftOnce
<1> QED BY <1>1, <1>2, <1>3, TickSteps

-----------------------------------------------------------------------------
\* The sequence that is accepted: its id is neither that of the motor before nor, as long
\* as the motor has that to take, that of the tick in flight.
LEMMA Accepted ==
  ASSUME TInv, NEW t \in Thread, TAccept(t)
  PROVE  /\ Unlocked /\ Cached /\ report'.owner = t
         /\ UNCHANGED <<state, tick>> /\ driven' = 0
         /\ motor'.idx = 0
         /\ motor'.active => motor'.remaining = Duration'
         /\ ~ reused' => motor'.cmd.cmd_id # motor.cmd.cmd_id
         /\ ~ reused' => tick.cmd_id # motor'.cmd.cmd_id \/ tick.left = <<>>
<1> DEFINE d == Head(pending[t])
           c == Normalised(d)
<1> USE DEF TInv
<1>1. MotorSequence(t) /\ driven' = 0
  BY DEF TAccept
<1>2. motor' = [active |-> c.num_steps > 0 /\ c.steps[1].dur > 0, cmd |-> c, idx |-> 0,
                remaining |-> IF c.num_steps > 0 /\ c.steps[1].dur > 0
                              THEN c.steps[1].dur ELSE motor.remaining]
  BY <1>1 DEF MotorSequence
<1>3. c.cmd_id = d.cmd_id
  BY DEF Normalised
<1>4. reused' = (d.cmd_id = motor.cmd.cmd_id \/ InFlight(d))
  BY DEF TAccept
<1> HIDE DEF c, d
<1>5. /\ motor'.cmd = c /\ motor'.idx = 0
      /\ motor'.active => motor'.remaining = c.steps[1].dur
  BY <1>2
<1>6. Unlocked /\ UNCHANGED <<state, tick>> /\ report'.owner = t
  BY <1>1 DEF MotorSequence, Publish
<1>7. Cached
  BY <1>6 DEF Reporting, Range
<1>8. motor'.active => motor'.remaining = Duration'
  BY <1>5 DEF Duration
<1>9. ~ reused' => tick.cmd_id # c.cmd_id \/ tick.left = <<>>
  BY <1>3, <1>4, MotorLeft DEF InFlight
<1> QED BY <1>1, <1>3, <1>4, <1>5, <1>6, <1>7, <1>8, <1>9

\* The end of a step, by the last to take the tick.
LEMMA Advanced ==
  ASSUME TInv, TAdvance
  PROVE  /\ motor.active /\ Ahead /\ motor.remaining <= kTickUs
         /\ tick'.left = <<>> /\ report'.owner = "clock" /\ driven' = 0
         /\ motor'.active => motor'.remaining = Duration'
<1> USE DEF TInv
<1>1. MotorAdvances /\ driven' = 0
  BY DEF TAdvance
<1>2. motor.active /\ tick.cmd_id = motor.cmd.cmd_id /\ kTickUs >= motor.remaining /\ Takes("Motor")
  BY <1>1 DEF MotorAdvances, Applies
<1>3. tick'.left = <<>> /\ "Kinematics" \notin Range(tick.left) /\ tick.left # <<>>
  BY <1>2, MotorEmpties, TakesKeeps
<1>4. report'.owner = "clock"
  BY <1>1 DEF MotorAdvances, Publish
<1>5. motor'.active => motor'.remaining = Duration'
  <2> DEFINE next == motor.idx + 1
             more == next < motor.cmd.num_steps
  <2>1. motor' = [motor EXCEPT !.idx = next, !.active = more,
                    !.remaining = IF more THEN motor.cmd.steps[next + 1].dur ELSE @]
    BY <1>1 DEF MotorAdvances
  <2> HIDE DEF next, more
  <2>2. /\ motor'.idx = next /\ motor'.cmd = motor.cmd /\ motor'.active = more
        /\ more => motor'.remaining = motor.cmd.steps[next + 1].dur
    BY <2>1 DEF TypeOK, MotorOK
  <2> QED BY <2>2 DEF Duration
<1>6. motor.remaining \in Nat /\ kTickUs \in Nat
  BY VehicleAssumption DEF VehicleAssumption, TypeOK, MotorOK
<1> QED BY <1>1, <1>2, <1>3, <1>4, <1>5, <1>6 DEF Ahead

\* A tick of the sequence that leaves the step some time.
LEMMA Counted ==
  ASSUME TInv, MotorCounts
  PROVE  /\ motor.active /\ Ahead /\ tick'.left = <<>> /\ kTickUs < motor.remaining
         /\ motor'.remaining = motor.remaining - kTickUs
         /\ motor'.cmd = motor.cmd /\ motor'.active = motor.active /\ motor'.idx = motor.idx
         /\ StatusOf(motor') = StatusOf(motor)
<1> USE DEF TInv
<1>1. motor.active /\ tick.cmd_id = motor.cmd.cmd_id /\ kTickUs < motor.remaining /\ Takes("Motor")
  BY DEF MotorCounts, Applies
<1>2. tick'.left = <<>> /\ "Kinematics" \notin Range(tick.left) /\ tick.left # <<>>
  BY <1>1, MotorEmpties, TakesKeeps
<1>3. motor' = [motor EXCEPT !.remaining = motor.remaining - kTickUs]
  BY DEF MotorCounts
<1>4. /\ motor'.cmd = motor.cmd /\ motor'.active = motor.active /\ motor'.idx = motor.idx
      /\ motor'.remaining = motor.remaining - kTickUs
  BY <1>3 DEF TypeOK, MotorOK
<1> QED BY <1>1, <1>2, <1>4, StatusKept DEF Ahead
\* The other steps of the vehicle, by what they leave alone.
LEMMA Quiet ==
  ASSUME TInv, (TOther /\ ~ MotorCounts) \/ UNCHANGED tvars
  PROVE  UNCHANGED <<motor, driven, since, reused>>
BY DEF TOther, Sample, AutoTick, PowerTick, MotorIgnores, ReportStep, StateHears, PowerHears,
       KinematicsHears, MotorReturn, PeerStep, Receive, ReceiveAuto, AutoCommand, tvars, vars, timing

\* Whoever reports, StateService has the motor's state once it has heard it.
LEMMA HeardIsCached ==
  ASSUME TInv, StateHears
  PROVE  Cached'
<1> USE DEF TInv
<1>1. report.status = StatusOf(motor) /\ UNCHANGED motor
  BY HearsKeeps DEF StateHears
<1>2. StatusOf(motor) \in MotorStatusPayload /\ StatusOf(motor).active = motor.active
  BY StatusType DEF TypeOK, StatusOf
<1> QED BY <1>1, <1>2 DEF StateHears, Cached, MotorStatusPayload

LEMMA StateOldKept ==
  ASSUME TInv, [TNext]_tvars
  PROVE  StateOld'
<1>1. ASSUME NEW t \in Thread, TAccept(t) PROVE StateOld'
  <2>1. /\ Cached /\ report'.owner = t /\ UNCHANGED state
        /\ ~ reused' => motor'.cmd.cmd_id # motor.cmd.cmd_id
    BY <1>1, Accepted
  <2>2. state.cmd_id = motor.cmd.cmd_id
    BY <2>1 DEF Cached, StatusOf
  <2> QED BY <2>1, <2>2 DEF StateOld, Fresh
<1>2. CASE TAdvance
  BY <1>2, Advanced DEF StateOld
<1>3. CASE TKinematicsTick
  BY <1>3 DEF TKinematicsTick, KinematicsTick, TInv, StateOld, Fresh, Cached
<1>4. CASE TOther /\ MotorCounts
  <2>1. /\ motor'.active = motor.active /\ motor'.cmd = motor.cmd /\ StatusOf(motor') = StatusOf(motor)
        /\ UNCHANGED <<state, report, reused>>
    BY <1>4, Counted DEF TOther, MotorCounts, timing
  <2> QED BY <2>1 DEF TInv, StateOld, Fresh, Cached
<1>5. CASE (TOther /\ ~ MotorCounts) \/ UNCHANGED tvars
  <2>1. UNCHANGED <<motor, reused>>
    BY <1>5, Quiet
  <2>2. CASE StateHears
    BY <2>2, HeardIsCached DEF StateOld
  <2>3. CASE MotorReturn
    <3>1. UNCHANGED state /\ report.left = <<>> /\ report.owner # None
      BY <2>3 DEF MotorReturn
    <3>2. Cached
      BY <3>1 DEF TInv, Reporting, Range
    <3> QED BY <2>1, <3>1, <3>2 DEF StateOld, Fresh, Cached
  <2>4. CASE ~ StateHears /\ ~ MotorReturn
    <3>1. UNCHANGED state /\ report'.owner = report.owner
      BY <1>5, <2>4 DEF TOther, Sample, AutoTick, PowerTick, MotorIgnores, ReportStep, PowerHears,
             KinematicsHears, PeerStep, Receive, ReceiveAuto, AutoCommand, tvars, vars, Hears, TInv, TypeOK
    <3> QED BY <2>1, <3>1 DEF TInv, StateOld, Fresh, Cached
  <2> QED BY <2>2, <2>3, <2>4
<1> QED BY <1>1, <1>2, <1>3, <1>4, <1>5 DEF TNext, TOther

\* Of a tick that somebody takes, and that others have still to take, the rest stays.
LEMMA TickFitsKept ==
  ASSUME TInv, [TNext]_tvars
  PROVE  TickFits'
<1>1. ASSUME NEW t \in Thread, TAccept(t) PROVE TickFits'
  BY <1>1, Accepted DEF TickFits, Fresh
<1>2. CASE TAdvance
  BY <1>2, Advanced DEF TickFits
<1>3. ASSUME NEW x, Takes(x), UNCHANGED <<motor, reused>> PROVE TickFits'
  BY <1>3, TakesKeeps DEF TickFits, Fresh, TInv
<1>4. CASE TKinematicsTick
  BY <1>3, <1>4 DEF TKinematicsTick, KinematicsTick
<1>5. CASE TOther /\ MotorCounts
  BY <1>5, Counted DEF TickFits
<1>6. CASE (TOther /\ ~ MotorCounts) \/ UNCHANGED tvars
  <2>1. UNCHANGED <<motor, reused>>
    BY <1>6, Quiet
  <2>2. CASE Sample
    <3>1. /\ report.owner # "clock"
          /\ tick'.cmd_id = state.cmd_id
          /\ tick'.rpm = IF state.st = "Executing" THEN state.rpm ELSE 0
      BY <2>2 DEF Sample, Free
    <3>2. Fresh /\ state.cmd_id = motor.cmd.cmd_id => Cached
      BY <3>1 DEF TInv, StateOld
    <3>3. Fresh /\ Cached => state.st = "Executing" /\ state.rpm = StatusOf(motor).rpm
      BY DEF Cached, Fresh
    <3> QED BY <2>1, <3>1, <3>2, <3>3 DEF TickFits, Fresh
  <2>3. CASE \E x : Takes(x)
    BY <1>3, <2>1, <2>3
  <2>4. CASE UNCHANGED tick
    BY <2>1, <2>4 DEF TickFits, Fresh, TInv
  <2>5. [Next]_vars
    BY <1>6, TimedStep DEF TNext, tvars
  <2> QED BY <2>2, <2>3, <2>4, <2>5, TickSteps
<1> QED BY <1>1, <1>2, <1>4, <1>5, <1>6 DEF TNext, TOther

LEMMA CountingKept ==
  ASSUME MotorTicksLast, TInv, [TNext]_tvars
  PROVE  Counting'
<1> USE DEF TInv
<1>1. ASSUME NEW t \in Thread, TAccept(t) PROVE Counting'
  <2>1. /\ driven' = 0 /\ UNCHANGED tick
        /\ motor'.active => motor'.remaining = Duration'
        /\ ~ reused' => tick.cmd_id # motor'.cmd.cmd_id \/ tick.left = <<>>
    BY <1>1, Accepted
  <2>2. ~ reused' => ~ Ahead'
    BY <2>1 DEF Ahead
  <2>3. TypeOK'
    BY <1>1, StepTypes DEF TAccept, Next, ClockStep, Thread
  <2>4. motor'.active => Periods(motor'.remaining) \in Int
    BY <2>3, PeriodsType DEF TypeOK, MotorOK
  <2> QED BY <2>1, <2>2, <2>4 DEF Counting, Fresh
<1>2. CASE TAdvance
  <2>1. driven' = 0 /\ tick'.left = <<>> /\ (motor'.active => motor'.remaining = Duration')
    BY <1>2, Advanced
  <2>2. ~ Ahead'
    BY <2>1 DEF Ahead
  <2>3. TypeOK'
    BY <1>2, StepTypes DEF TAdvance, Next, ClockStep, MotorTick
  <2>4. motor'.active => Periods(motor'.remaining) \in Int
    BY <2>3, PeriodsType DEF TypeOK, MotorOK
  <2> QED BY <2>1, <2>2, <2>4 DEF Counting, Fresh
<1>3. CASE TKinematicsTick
  <2>1. /\ Takes("Kinematics") /\ UNCHANGED <<motor, reused>>
        /\ driven' = IF Drives THEN driven + 1 ELSE driven
    BY <1>3 DEF TKinematicsTick, KinematicsTick
  <2>2. /\ tick'.cmd_id = tick.cmd_id /\ tick.left # <<>> /\ tick'.left # <<>>
        /\ "Kinematics" \in Range(tick.left) /\ "Kinematics" \notin Range(tick'.left)
    BY <2>1, TakesKeeps, LeftBehind, TakenOut
  <2>3. driven' \in Nat
    BY <2>1 DEF Counting
  <2>4. ASSUME Fresh PROVE driven' + Periods(motor.remaining) = Periods(Duration) + (IF Ahead' THEN 1 ELSE 0)
    <3>1. driven + Periods(motor.remaining) = Periods(Duration) /\ driven \in Nat
      <4>1. ~ Ahead
        BY <2>2 DEF Ahead
      <4>2. Periods(Duration) \in Int
        BY <2>4, DurationType, PeriodsType DEF Fresh
      <4> QED BY <2>4, <4>1, <4>2 DEF Counting
    <3>2. Periods(Duration) \in Int /\ Periods(motor.remaining) \in Int
      BY <2>4, DurationType, PeriodsType DEF Fresh
    <3>3. CASE tick.cmd_id = motor.cmd.cmd_id
      <4>1. Drives
        BY <2>2, <2>4, <3>3 DEF Drives, Applies, TickFits, Fresh
      <4>2. Ahead'
        BY <2>1, <2>2, <3>3 DEF Ahead
      <4> HIDE DEF TInv
      <4> QED BY <2>1, <3>1, <3>2, <4>1, <4>2
    <3>4. CASE tick.cmd_id # motor.cmd.cmd_id
      <4>1. ~ Drives /\ ~ Ahead'
        BY <2>1, <2>2, <3>4 DEF Drives, Applies, Ahead
      <4> HIDE DEF TInv
      <4> QED BY <2>1, <3>1, <3>2, <4>1
    <3> QED BY <3>3, <3>4
  <2> QED BY <2>1, <2>3, <2>4 DEF Counting, Fresh, Duration
<1>4. CASE TOther /\ MotorCounts
  <2>1. /\ Ahead /\ ~ Ahead' /\ kTickUs < motor.remaining /\ motor.active
        /\ motor'.remaining = motor.remaining - kTickUs
        /\ Duration' = Duration /\ Fresh' = Fresh /\ UNCHANGED driven
    BY <1>4, Counted DEF TOther, timing, Ahead, Duration, Fresh
  <2>2. Periods(motor.remaining - kTickUs) + 1 = Periods(motor.remaining)
    BY <2>1, PeriodLess, DurationType
  <2>3. /\ Periods(Duration) \in Int /\ Periods(motor.remaining) \in Int
        /\ Periods(motor.remaining - kTickUs) \in Int
    <3>1. motor.remaining - kTickUs \in Nat
      BY <2>1, DurationType, VehicleAssumption DEF VehicleAssumption
    <3> QED BY <2>1, <3>1, DurationType, PeriodsType
  <2>4. driven \in Nat /\ (Fresh => driven + Periods(motor.remaining) = Periods(Duration) + 1)
    BY <2>1 DEF Counting
  <2>5. driven \in Nat /\ (Fresh => driven + Periods(motor.remaining - kTickUs) = Periods(Duration))
    BY ONLY <2>2, <2>3, <2>4
  <2> QED BY <2>1, <2>3, <2>5 DEF Counting
<1>5. CASE (TOther /\ ~ MotorCounts) \/ UNCHANGED tvars
  <2>1. UNCHANGED <<motor, driven, reused>>
    BY <1>5, Quiet
  <2>2. Fresh => (Ahead' <=> Ahead)
    <3>1. CASE Sample
      BY <2>1, <3>1 DEF Sample, Ahead, MotorTicksLast
    <3>2. CASE AutoTick \/ PowerTick
      <4>1. PICK x \in {"Autonomous", "Power"} : Takes(x)
        BY <3>2 DEF AutoTick, PowerTick
      <4>2. /\ tick'.cmd_id = tick.cmd_id /\ tick.left # <<>> /\ tick'.left # <<>>
            /\ "Kinematics" \in Range(tick'.left) <=> "Kinematics" \in Range(tick.left)
        BY <4>1, TakesKeeps, LeftBehind, TakenOut
      <4> QED BY <2>1, <4>2 DEF Ahead
    <3>3. CASE MotorIgnores
      <4>1. tick'.cmd_id = tick.cmd_id
        BY <3>3, TakesKeeps DEF MotorIgnores
      <4>2. Fresh => tick.cmd_id # motor.cmd.cmd_id
        BY <3>3 DEF MotorIgnores, Applies, Fresh
      <4> QED BY <2>1, <4>1, <4>2 DEF Ahead
    <3>4. CASE ~ (Sample \/ AutoTick \/ PowerTick \/ MotorIgnores)
      <4>1. UNCHANGED tick
        BY <1>5, <3>4 DEF TOther, ReportStep, StateHears, PowerHears, KinematicsHears, MotorReturn,
               PeerStep, Receive, ReceiveAuto, AutoCommand, tvars, vars
      <4> QED BY <2>1, <4>1 DEF Ahead
    <3> QED BY <3>1, <3>2, <3>3, <3>4
  <2> QED BY <2>1, <2>2 DEF Counting, Fresh, Duration
<1> QED BY <1>1, <1>2, <1>3, <1>4, <1>5 DEF TNext, TOther

LEMMA TimedInit == TInit => TInv
<1> SUFFICES ASSUME TInit PROVE TInv
  OBVIOUS
<1>1. TypeOK /\ Reporting
  BY InitTypes, InitReports DEF TInit
<1>2. tick.left = <<>> /\ ~ motor.active /\ driven = 0
  BY DEF TInit, Init
<1> QED BY <1>1, <1>2 DEF TInv, LastTaken, LeftOnce, StateOld, TickFits, Counting, Fresh

LEMMA TimedInductive ==
  ASSUME MotorTicksLast, TickedOnce, TInv, [TNext]_tvars
  PROVE  TInv'
<1>1. [Next]_vars
  BY TimedStep DEF tvars
<1>2. TypeOK' /\ Reporting'
  BY <1>1, StepTypes, StepReports DEF TInv
<1>3. LastTaken' /\ LeftOnce'
  BY <1>1, LastTakenKept, LeftOnceKept DEF TInv, MotorTicksLast
<1> QED BY <1>2, <1>3, StateOldKept, TickFitsKept, CountingKept DEF TInv

\* StepsInTime: if the motor is the last to take a tick and each service takes it once, a
\* step that runs to its end moves the vehicle for its duration in whole periods of the clock,
\* however the commands, the reports and the ticks interleave.
THEOREM StepsInTime ==
  ASSUME MotorTicksLast, TickedOnce
  PROVE  TSpec => StepsLastTheirTime
<1>1. ASSUME TInv, TNext, StepEnds, ~ reused PROVE InTime
  <2>1. motor.idx \in Nat
    BY <1>1 DEF TInv, TypeOK, MotorOK
  <2>2. TAdvance
    <3>1. \A t \in Thread : ~ TAccept(t)
      BY <1>1, <2>1, Accepted DEF StepEnds
    <3>2. motor'.idx = motor.idx \/ TAdvance
      <4>1. CASE TOther
        BY <1>1, <4>1, Quiet, Counted
      <4>2. CASE TKinematicsTick
        BY <4>2 DEF TKinematicsTick, KinematicsTick
      <4> QED BY <1>1, <3>1, <4>1, <4>2 DEF TNext
    <3> QED BY <1>1, <2>1, <3>2 DEF StepEnds
  <2>3. Ahead /\ motor.remaining <= kTickUs /\ motor.active
    BY <1>1, <2>2, Advanced
  <2>4. Duration \in Nat /\ motor.remaining \in Nat
    BY <1>1, <2>3, DurationType DEF TInv
  <2>5. Periods(motor.remaining) = 1 /\ Periods(Duration) \in Int
    BY <2>3, <2>4, OnePeriod, PeriodsType
  <2>6. driven \in Nat /\ driven + 1 = Periods(Duration) + 1
    BY <1>1, <2>3, <2>5 DEF TInv, Counting, Fresh
  <2>7. driven = Periods(Duration)
    BY ONLY <2>5, <2>6
  <2> QED BY <2>7 DEF InTime, Duration
<1>2. TInv /\ [TNext]_tvars => [StepEnds /\ ~ reused => InTime]_tvars
  BY <1>1
<1>3. TInv /\ [TNext]_tvars => TInv'
  BY TimedInductive
<1> QED BY <1>2, <1>3, TimedInit, PTL DEF TSpec, StepsLastTheirTime
=============================================================================
