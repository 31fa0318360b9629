--------------------------- MODULE VehicleProofs ---------------------------
(***************************************************************************)
(* Proofs about Vehicle, for every set of commands, every number of slots, *)
(* every period and clamp, and every order of dispatch.                    *)
(***************************************************************************)
EXTENDS Vehicle, SequenceTheorems, TLAPS

-----------------------------------------------------------------------------
(* What the operators return.                                              *)

LEMMA ClampType == ASSUME NEW r \in Int PROVE Clamp(r) \in Int
  BY VehicleAssumption DEF Clamp, VehicleAssumption

\* The copy the motor keeps has only slots that exist.
LEMMA NormalisedType ==
  ASSUME NEW c \in Command
  PROVE  /\ Normalised(c) \in MotorSequencePayload
         /\ Normalised(c).cmd_id \in Ids
         /\ Normalised(c).num_steps <= kMaxSubCmds
<1> DEFINE n == Least(c.num_steps, kMaxSubCmds)
           slot(i) == [rpm |-> IF i <= n THEN Clamp(c.steps[i].rpm) ELSE c.steps[i].rpm,
                       dur |-> c.steps[i].dur]
<1>1. c \in MotorSequencePayload /\ kMaxSubCmds \in Nat
  BY VehicleAssumption DEF VehicleAssumption
<1>2. c.cmd_id \in Ids
  BY DEF Ids
<1>3. n \in Nat /\ n <= kMaxSubCmds
  BY <1>1 DEF Least, MotorSequencePayload
<1>4. \A i \in 1..kMaxSubCmds : slot(i) \in MotorSubCmd
  <2> TAKE i \in 1..kMaxSubCmds
  <2>1. c.steps[i] \in MotorSubCmd
    BY <1>1 DEF MotorSequencePayload
  <2>2. c.steps[i].rpm \in Int /\ c.steps[i].dur \in Nat
    BY <2>1 DEF MotorSubCmd
  <2>3. Clamp(c.steps[i].rpm) \in Int
    BY <2>2, ClampType
  <2> QED BY <2>2, <2>3 DEF MotorSubCmd
<1>5. Normalised(c) = [cmd_id |-> c.cmd_id, num_steps |-> n,
                       steps |-> [i \in 1..kMaxSubCmds |-> slot(i)]]
  BY DEF Normalised
<1>6. c.cmd_id \in Nat
  BY <1>1 DEF MotorSequencePayload
<1> HIDE DEF n, slot
<1> QED BY <1>2, <1>3, <1>4, <1>5, <1>6 DEF MotorSequencePayload

\* The steps keep their durations.
LEMMA NormalisedStarts ==
  ASSUME NEW c \in Command
  PROVE  Normalised(c).steps[1].dur = c.steps[1].dur /\ c.steps[1].dur \in Nat
<1>1. c \in MotorSequencePayload /\ 1 \in 1..kMaxSubCmds
  BY VehicleAssumption DEF VehicleAssumption
<1>2. c.steps[1] \in MotorSubCmd
  BY <1>1 DEF MotorSequencePayload
<1> QED BY <1>1, <1>2 DEF Normalised, MotorSubCmd

LEMMA StatusType ==
  ASSUME NEW m, MotorOK(m)
  PROVE  StatusOf(m) \in MotorStatusPayload
<1>1. CASE m.active
  <2>1. m.idx + 1 \in 1..kMaxSubCmds
    BY <1>1, VehicleAssumption DEF MotorOK, VehicleAssumption, MotorSequencePayload
  <2>2. m.cmd.steps[m.idx + 1] \in MotorSubCmd
    BY <2>1 DEF MotorOK, MotorSequencePayload
  <2> QED BY <1>1, <2>2 DEF StatusOf, MotorStatusPayload, MotorSubCmd, MotorOK
<1>2. CASE ~ m.active
  BY <1>2 DEF StatusOf, MotorStatusPayload, MotorOK
<1> QED BY <1>1, <1>2

-----------------------------------------------------------------------------
(* Type correctness.                                                       *)

LEMMA InitTypes == Init => TypeOK
<1> SUFFICES ASSUME Init PROVE TypeOK
  OBVIOUS
<1>1. NoCommand \in MotorSequencePayload /\ NoCommand.cmd_id = 0 /\ NoCommand.num_steps = 0
  BY DEF NoCommand, NoStep, MotorSequencePayload, MotorSubCmd
<1>2. MotorOK(motor)
  BY <1>1, VehicleAssumption DEF Init, MotorOK, Ids, VehicleAssumption
<1>3. Idle = [owner |-> None, left |-> <<>>,
              status |-> [cmd_id |-> 0, rpm |-> 0, active |-> FALSE]]
  BY <1>1 DEF Idle, StatusOf
<1>4. Idle \in [owner : Thread \cup {None}, status : MotorStatusPayload,
                left : Seq({"State", "Power", "Kinematics"})]
  BY <1>3 DEF MotorStatusPayload, Ids
<1>5. /\ kin \in [cmd_id : Ids, elapsed : 0..(Wrap - 1), pos : Int, speed : Int]
      /\ issued \in 0..MaxAccepts
  BY VehicleAssumption DEF Init, Ids, VehicleAssumption
<1>6. /\ state \in [st : {"Ready", "Executing"}, cmd_id : Ids, rpm : Int, active : BOOLEAN]
      /\ power \in [cmd_id : Ids, load : Nat]
  BY DEF Init, Ids
<1>7. tick \in [cmd_id : Ids, rpm : Int,
                left : Seq({"Autonomous", "Power", "Kinematics", "Motor"})]
  BY DEF Init, Ids
<1>8. /\ pending \in [Thread -> {<<>>} \cup { <<c>> : c \in Command }]
      /\ mission \in Thread \cup {None}
  BY DEF Init
<1>9. report \in [owner : Thread \cup {None}, status : MotorStatusPayload,
                  left : Seq({"State", "Power", "Kinematics"})]
  BY <1>4 DEF Init
<1> QED BY <1>2, <1>5, <1>6, <1>7, <1>8, <1>9 DEF TypeOK

\* The commands that are issued and the status that is published are well-formed.
LEMMA IssueTypes ==
  ASSUME TypeOK, NEW t \in Thread, NEW c \in Command, Issue(t, c)
  PROVE  /\ pending' \in [Thread -> {<<>>} \cup { <<d>> : d \in Command }]
         /\ issued' \in 0..MaxAccepts
BY VehicleAssumption DEF TypeOK, Issue, VehicleAssumption

LEMMA PublishTypes ==
  ASSUME MotorOK(motor'), NEW t \in Thread, Publish(t)
  PROVE  report' \in [owner : Thread \cup {None}, status : MotorStatusPayload,
                      left : Seq({"State", "Power", "Kinematics"})]
<1>1. StatusOf(motor') \in MotorStatusPayload
  BY StatusType
<1> QED BY <1>1, VehicleAssumption DEF Publish, VehicleAssumption

\* What a motor keeps when it takes up a command, or moves on.
LEMMA AcceptTypes ==
  ASSUME TypeOK, NEW t \in Thread, MotorSequence(t)
  PROVE  MotorOK(motor')
<1> DEFINE d == Head(pending[t])
           c == Normalised(d)
<1>1. d \in Command
  BY DEF TypeOK, MotorSequence
<1>2. c \in MotorSequencePayload /\ c.cmd_id \in Ids /\ c.num_steps <= kMaxSubCmds
  BY <1>1, NormalisedType
<1>3. c.steps[1].dur \in Nat /\ c.num_steps \in Nat
  BY <1>1, <1>2, NormalisedStarts DEF MotorSequencePayload
<1>4. motor.remaining \in Nat
  BY DEF TypeOK, MotorOK
<1>5. motor' = [active |-> c.num_steps > 0 /\ c.steps[1].dur > 0, cmd |-> c, idx |-> 0,
                remaining |-> IF c.num_steps > 0 /\ c.steps[1].dur > 0
                              THEN c.steps[1].dur ELSE motor.remaining]
  BY DEF MotorSequence
<1> HIDE DEF c
<1> QED BY <1>2, <1>3, <1>4, <1>5 DEF MotorOK

LEMMA AdvanceTypes ==
  ASSUME TypeOK, MotorAdvances
  PROVE  MotorOK(motor')
<1> DEFINE next == motor.idx + 1
           more == next < motor.cmd.num_steps
<1>1. MotorOK(motor) /\ motor.active
  BY DEF TypeOK, MotorAdvances, Applies
<1>2. motor' = [motor EXCEPT !.idx = next, !.active = more,
                  !.remaining = IF more THEN motor.cmd.steps[next + 1].dur ELSE @]
  BY DEF MotorAdvances
<1>3. next \in Nat /\ more \in BOOLEAN
  BY <1>1 DEF MotorOK
<1>4. ASSUME more PROVE motor.cmd.steps[next + 1].dur \in Nat
  <2>1. next + 1 \in 1..kMaxSubCmds
    BY <1>1, <1>4, VehicleAssumption DEF MotorOK, MotorSequencePayload, VehicleAssumption
  <2> QED BY <1>1, <2>1 DEF MotorOK, MotorSequencePayload, MotorSubCmd
<1> QED BY <1>1, <1>2, <1>3, <1>4 DEF MotorOK

LEMMA TickTypes ==
  ASSUME TypeOK, NEW x, Takes(x)
  PROVE  /\ tick' \in [cmd_id : Ids, rpm : Int,
                      left : Seq({"Autonomous", "Power", "Kinematics", "Motor"})]
         /\ tick.cmd_id \in Ids /\ tick.rpm \in Int
<1> DEFINE S == {"Autonomous", "Power", "Kinematics", "Motor"}
<1>1. tick \in [cmd_id : Ids, rpm : Int, left : Seq(S)]
  BY DEF TypeOK
<1>2. tick.left \in Seq(S) /\ tick.left # <<>>
  BY <1>1 DEF Takes
<1> HIDE DEF S
<1>3. Tail(tick.left) \in Seq(S)
  BY <1>2
<1>4. tick' \in [cmd_id : Ids, rpm : Int, left : Seq(S)]
  BY <1>1, <1>3 DEF Takes
<1> QED BY <1>1, <1>4 DEF S

LEMMA HearTypes ==
  ASSUME TypeOK, NEW x, Hears(x)
  PROVE  /\ report' \in [owner : Thread \cup {None}, status : MotorStatusPayload,
                        left : Seq({"State", "Power", "Kinematics"})]
         /\ report.status \in MotorStatusPayload
<1> DEFINE S == {"State", "Power", "Kinematics"}
           O == Thread \cup {None}
<1>1. report \in [owner : O, status : MotorStatusPayload, left : Seq(S)]
  BY DEF TypeOK
<1>2. report.left \in Seq(S) /\ report.left # <<>>
  BY <1>1 DEF Hears
<1> HIDE DEF S, O
<1>3. Tail(report.left) \in Seq(S)
  BY <1>2
<1>4. report' \in [owner : O, status : MotorStatusPayload, left : Seq(S)]
  BY <1>1, <1>3 DEF Hears
<1> QED BY <1>1, <1>4 DEF S, O

LEMMA StepTypes == TypeOK /\ [Next]_vars => TypeOK'
<1> SUFFICES ASSUME TypeOK, [Next]_vars PROVE TypeOK'
  OBVIOUS
<1>1. ASSUME NEW c \in RxCommands, Receive(c) PROVE TypeOK'
  <2>1. Issue("rx", c) /\ c \in Command /\ "rx" \in Thread
    BY <1>1 DEF Receive, Command, Thread
  <2> QED BY <1>1, <2>1, IssueTypes DEF Receive, TypeOK
<1>2. ASSUME NEW c \in AutoCommands, ReceiveAuto(c) PROVE TypeOK'
  <2>1. Issue("rx", c) /\ c \in Command /\ "rx" \in Thread
    BY <1>2 DEF ReceiveAuto, Command, Thread
  <2> QED BY <1>2, <2>1, IssueTypes DEF ReceiveAuto, TypeOK
<1>3. ASSUME NEW t \in Thread, MotorSequence(t) PROVE TypeOK'
  <2>1. MotorOK(motor')
    BY <1>3, AcceptTypes
  <2>2. Publish(t)
    BY <1>3 DEF MotorSequence
  <2> QED BY <1>3, <2>1, <2>2, PublishTypes DEF MotorSequence, TypeOK
<1>4. CASE MotorReturn
  BY <1>4 DEF MotorReturn, TypeOK
<1>5. CASE Sample
  BY <1>5, VehicleAssumption DEF Sample, TypeOK, VehicleAssumption
<1>6. ASSUME NEW c \in AutoCommands, AutoCommand(c) PROVE TypeOK'
  <2>1. Issue("clock", c) /\ c \in Command /\ "clock" \in Thread
    BY <1>6 DEF AutoCommand, Command, Thread
  <2> QED BY <1>6, <2>1, IssueTypes DEF AutoCommand, TypeOK
<1>7. CASE AutoTick
  BY <1>7, TickTypes DEF AutoTick, TypeOK
<1>8. CASE PowerTick
  <2>1. Abs(tick.rpm) + 1 \in Nat
    BY <1>8, TickTypes DEF PowerTick, Abs
  <2> QED BY <1>8, <2>1, TickTypes DEF PowerTick, TypeOK
<1>9. CASE KinematicsTick
  <2>1. tick.cmd_id \in Ids /\ tick.rpm \in Int
    BY <1>9, TickTypes DEF KinematicsTick
  <2>2. kin.elapsed \in Nat /\ kin.pos \in Int /\ kTickUs \in Nat /\ Wrap \in Nat \ {0}
    BY VehicleAssumption DEF TypeOK, VehicleAssumption
  <2>3. (kin.elapsed + kTickUs) % Wrap \in 0..(Wrap - 1)
    BY <2>2
  <2>4. kin.pos + tick.rpm * kTickUs \in Int
    BY <2>1, <2>2
  <2> QED BY <1>9, <2>1, <2>3, <2>4, TickTypes DEF KinematicsTick, TypeOK
<1>10. CASE MotorIgnores
  BY <1>10, TickTypes DEF MotorIgnores, TypeOK
<1>11. CASE MotorCounts
  <2>1. MotorOK(motor')
    <3>1. MotorOK(motor) /\ motor' = [motor EXCEPT !.remaining = motor.remaining - kTickUs]
      BY <1>11 DEF MotorCounts, TypeOK
    <3>2. motor.remaining - kTickUs \in Nat
      BY <1>11, <3>1, VehicleAssumption DEF MotorCounts, MotorOK, VehicleAssumption
    <3> QED BY <3>1, <3>2 DEF MotorOK
  <2> QED BY <1>11, <2>1, TickTypes DEF MotorCounts, TypeOK
<1>12. CASE MotorAdvances
  <2>1. MotorOK(motor')
    BY <1>12, AdvanceTypes
  <2>2. Publish("clock") /\ "clock" \in Thread
    BY <1>12 DEF MotorAdvances, Thread
  <2> QED BY <1>12, <2>1, <2>2, PublishTypes, TickTypes DEF MotorAdvances, TypeOK
<1>13. CASE StateHears
  <2>1. state' \in [st : {"Ready", "Executing"}, cmd_id : Ids, rpm : Int, active : BOOLEAN]
    BY <1>13, HearTypes DEF StateHears, MotorStatusPayload
  <2> QED BY <1>13, <2>1, HearTypes DEF StateHears, TypeOK
<1>14. CASE PowerHears
  <2>1. power' \in [cmd_id : Ids, load : Nat]
    BY <1>14, HearTypes DEF PowerHears, MotorStatusPayload, TypeOK
  <2> QED BY <1>14, <2>1, HearTypes DEF PowerHears, TypeOK
<1>15. CASE KinematicsHears
  <2>1. kin' \in [cmd_id : Ids, elapsed : 0..(Wrap - 1), pos : Int, speed : Int]
    <3> DEFINE E == 0..(Wrap - 1)
    <3>1. report.status.cmd_id \in Ids
      BY <1>15, HearTypes DEF KinematicsHears, MotorStatusPayload
    <3>2. 0 \in E
      BY VehicleAssumption DEF VehicleAssumption
    <3>3. kin \in [cmd_id : Ids, elapsed : E, pos : Int, speed : Int]
      BY DEF TypeOK
    <3>4. \/ kin' = [kin EXCEPT !.cmd_id = report.status.cmd_id, !.elapsed = 0]
          \/ kin' = kin
          \/ kin' = [kin EXCEPT !.speed = 0]
      BY <1>15 DEF KinematicsHears
    <3> HIDE DEF E
    <3>5. kin' \in [cmd_id : Ids, elapsed : E, pos : Int, speed : Int]
      <4>1. CASE kin' = [kin EXCEPT !.cmd_id = report.status.cmd_id, !.elapsed = 0]
        BY <3>1, <3>2, <3>3, <4>1
      <4>2. CASE kin' = [kin EXCEPT !.speed = 0]
        BY <3>3, <4>2
      <4> QED BY <3>3, <3>4, <4>1, <4>2
    <3> QED BY <3>5 DEF E
  <2> QED BY <1>15, <2>1, HearTypes DEF KinematicsHears, TypeOK
<1>16. CASE UNCHANGED vars
  BY <1>16 DEF vars, TypeOK
<1> QED
  BY <1>1, <1>2, <1>3, <1>4, <1>5, <1>6, <1>7, <1>8, <1>9, <1>10, <1>11, <1>12,
     <1>13, <1>14, <1>15, <1>16
     DEF Next, ClockStep, MotorTick, ReportStep, PeerStep, Thread

\* TypesHold: every state is well-formed; in particular the motor never reads a slot
\* beyond those of its sequence, whatever num_steps a command carries.
THEOREM TypesHold == Spec => []TypeOK
  BY InitTypes, StepTypes, PTL DEF Spec

-----------------------------------------------------------------------------
(* The copy of StateService.  The clock may read it at any time, so the    *)
(* invariant says how far the report in flight has come: StateService has  *)
(* yet to hear it, or has the motor's state already; and nobody changes    *)
(* that state in between, because the reporting thread holds the lock.     *)

Cached ==
  /\ StatusOf(motor) = [cmd_id |-> state.cmd_id, rpm |-> state.rpm, active |-> state.active]
  /\ state.st = (IF motor.active THEN "Executing" ELSE "Ready")

Reporting ==
  /\ Unlocked => report.left = <<>>
  /\ ~ Unlocked => report.status = StatusOf(motor)
  /\ "State" \in Range(report.left) \/ Cached

\* One more subscriber has been called: the others still have to be.
LEMMA OthersRemain ==
  ASSUME NEW S, NEW s \in Seq(S), s # <<>>, NEW x \in Range(s), x # Head(s)
  PROVE  x \in Range(Tail(s))
<1>1. PICK i \in 1..Len(s) : x = s[i]
  BY DEF Range
<1>2. i # 1 /\ Len(s) \in Nat
  BY <1>1
<1>3. i - 1 \in 1..Len(Tail(s)) /\ Tail(s)[i - 1] = s[i]
  BY <1>1, <1>2
<1>4. DOMAIN Tail(s) = 1..Len(Tail(s))
  BY <1>2
<1> QED BY <1>1, <1>3, <1>4 DEF Range

LEMMA StatusKept ==
  ASSUME motor'.cmd = motor.cmd, motor'.active = motor.active, motor'.idx = motor.idx
  PROVE  StatusOf(motor') = StatusOf(motor)
BY DEF StatusOf

LEMMA PublishReports ==
  ASSUME NEW t \in Thread, Publish(t)
  PROVE  Reporting'
<1>1. t # None
  BY DEF Thread, None
<1>2. "State" \in Range(StatusOrder)
  BY VehicleAssumption DEF VehicleAssumption
<1> QED BY <1>1, <1>2 DEF Publish, Reporting, Unlocked

LEMMA InitReports == Init => Reporting
<1> SUFFICES ASSUME Init PROVE Reporting
  OBVIOUS
<1>1. StatusOf(motor) = [cmd_id |-> 0, rpm |-> 0, active |-> FALSE] /\ ~ motor.active
  BY DEF Init, StatusOf, NoCommand
<1> QED BY <1>1 DEF Init, Idle, Reporting, Cached, Unlocked

\* A step that leaves the motor, StateService and the report alone.
LEMMA ReportUntouched ==
  ASSUME Reporting, UNCHANGED <<motor, state, report>>
  PROVE  Reporting'
BY DEF Reporting, Cached, Unlocked

LEMMA StepReports == TypeOK /\ Reporting /\ [Next]_vars => Reporting'
<1> SUFFICES ASSUME TypeOK, Reporting, [Next]_vars PROVE Reporting'
  OBVIOUS
<1>1. ASSUME NEW c, Receive(c) \/ ReceiveAuto(c) \/ AutoCommand(c) PROVE Reporting'
  BY <1>1, ReportUntouched DEF Receive, ReceiveAuto, AutoCommand
<1>2. ASSUME NEW t \in Thread, MotorSequence(t) PROVE Reporting'
  BY <1>2, PublishReports DEF MotorSequence
<1>3. CASE MotorReturn
  <2>1. report' = [report EXCEPT !.owner = None] /\ report.left = <<>> /\ UNCHANGED <<motor, state>>
    BY <1>3 DEF MotorReturn
  <2>2. report'.left = <<>> /\ report'.owner = None
    BY <2>1 DEF TypeOK
  <2>3. "State" \notin Range(report.left)
    BY <2>1 DEF Range
  <2>4. Cached
    BY <2>3 DEF Reporting
  <2>5. Cached'
    BY <2>1, <2>4 DEF Cached
  <2> QED BY <2>2, <2>5 DEF Reporting, Unlocked
<1>4. CASE Sample \/ AutoTick \/ PowerTick \/ KinematicsTick \/ MotorIgnores
  BY <1>4, ReportUntouched DEF Sample, AutoTick, PowerTick, KinematicsTick, MotorIgnores
<1>5. CASE MotorCounts
  <2>1. motor' = [motor EXCEPT !.remaining = motor.remaining - kTickUs] /\ UNCHANGED <<state, report>>
    BY <1>5 DEF MotorCounts
  <2>2. /\ motor'.cmd = motor.cmd /\ motor'.active = motor.active /\ motor'.idx = motor.idx
        /\ StatusOf(motor') = StatusOf(motor)
    BY <2>1, StatusKept DEF TypeOK, MotorOK
  <2> QED BY <2>1, <2>2 DEF Reporting, Cached, Unlocked
<1>6. CASE MotorAdvances
  BY <1>6, PublishReports DEF MotorAdvances, Thread
<1>7. CASE ReportStep /\ ~ MotorReturn
  <2>1. UNCHANGED motor
    BY <1>7 DEF ReportStep, StateHears, PowerHears, KinematicsHears
  <2>2. PICK x : Hears(x) /\ (x = "State" <=> StateHears) /\ (x # "State" => UNCHANGED state)
    BY <1>7 DEF ReportStep, StateHears, PowerHears, KinematicsHears, Hears
  <2>3. /\ report.left \in Seq({"State", "Power", "Kinematics"}) /\ report.left # <<>>
        /\ Head(report.left) = x
        /\ report'.left = Tail(report.left) /\ report'.owner = report.owner
        /\ report'.status = report.status
    BY <2>2 DEF Hears, TypeOK
  <2>4. ~ Unlocked /\ report.status = StatusOf(motor)
    BY <2>3 DEF Reporting
  <2>5. CASE x = "State"
    <3>1. StateHears
      BY <2>2, <2>5
    <3>2. StatusOf(motor) \in MotorStatusPayload /\ StatusOf(motor).active = motor.active
      BY StatusType DEF TypeOK, StatusOf
    <3>3. Cached'
      BY <2>1, <2>4, <3>1, <3>2 DEF StateHears, Cached, MotorStatusPayload
    <3> QED BY <2>1, <2>3, <2>4, <3>3 DEF Reporting, Unlocked
  <2>6. CASE x # "State"
    <3>1. "State" \in Range(report.left) => "State" \in Range(report'.left)
      BY <2>3, <2>6, OthersRemain
    <3>2. Cached => Cached'
      BY <2>1, <2>2, <2>6 DEF Cached
    <3> QED BY <2>1, <2>3, <2>4, <3>1, <3>2 DEF Reporting, Unlocked
  <2> QED BY <2>5, <2>6
<1>8. CASE UNCHANGED vars
  BY <1>8, ReportUntouched DEF vars
<1> QED
  BY <1>1, <1>2, <1>3, <1>4, <1>5, <1>6, <1>7, <1>8
     DEF Next, ClockStep, MotorTick, ReportStep, PeerStep, Thread

LEMMA ReportingCaches == Reporting => StatusCached
  BY DEF Reporting, StatusCached, Cached, Range

\* ClockSeesTheMotor: whenever no report is being delivered, the state the clock samples
\* is the motor's own, for any commands from any number of missions and peers.
THEOREM ClockSeesTheMotor == Spec => []StatusCached
  BY TypesHold, InitReports, StepReports, ReportingCaches, PTL DEF Spec

-----------------------------------------------------------------------------
(* The end of a sequence.  Three facts carry FinishedIsReported: the motor *)
(* is the last to take a tick, so the tick that ends a sequence is used up *)
(* when it does; Kinematics, which took that tick before, is under its id; *)
(* and a tick sampled later is sampled from a cache that says Ready.       *)

\* The tick in flight has still to reach Kinematics, or Kinematics has its id or that of
\* a sequence accepted since.
Followed ==
  \/ tick.left = <<>>
  \/ "Kinematics" \in Range(tick.left)
  \/ ~ motor.active
  \/ "Kinematics" \in Range(report.left)
  \/ kin.cmd_id \in {motor.cmd.cmd_id, tick.cmd_id}

\* The motor takes a tick last.
LastTaken == \A i \in 1..Len(tick.left) : tick.left[i] = "Motor" <=> i = Len(tick.left)

\* After the end, nothing that is still in flight can undo the report.
Settled ==
  Finished =>
    /\ report.owner # "rx"
    /\ tick.left # <<>> => Unlocked /\ tick.rpm = 0 /\ tick.cmd_id = motor.cmd.cmd_id
    /\ kin.cmd_id = motor.cmd.cmd_id
    /\ "Kinematics" \in Range(report.left) \/ kin.speed = 0
    /\ \/ "Power" \in Range(report.left)
       \/ power.load <= 1 /\ power.cmd_id = motor.cmd.cmd_id

FInv == TypeOK /\ Reporting /\ LastTaken /\ Followed /\ Settled

LEMMA LastTakenKept ==
  ASSUME MotorIsLast, TypeOK, LastTaken, [Next]_vars
  PROVE  LastTaken'
<1>1. CASE Sample
  BY <1>1 DEF Sample, LastTaken, MotorIsLast
<1>2. CASE \E x : Takes(x)
  <2>1. /\ tick.left \in Seq({"Autonomous", "Power", "Kinematics", "Motor"})
        /\ tick.left # <<>>
        /\ tick'.left = Tail(tick.left)
    BY <1>2 DEF Takes, TypeOK
  <2>2. Len(tick'.left) = Len(tick.left) - 1 /\ Len(tick.left) \in Nat
    BY <2>1
  <2>3. \A i \in 1..Len(tick'.left) : tick'.left[i] = tick.left[i + 1] /\ i + 1 \in 1..Len(tick.left)
    BY <2>1, <2>2
  <2> QED BY <2>2, <2>3 DEF LastTaken
<1>3. CASE UNCHANGED tick
  BY <1>3 DEF LastTaken
<1>4. \/ Sample \/ (\E x : Takes(x)) \/ UNCHANGED tick
  BY DEF Next, ClockStep, MotorTick, ReportStep, PeerStep, vars, Receive, ReceiveAuto, AutoCommand,
         MotorSequence, MotorReturn, AutoTick, PowerTick, KinematicsTick, MotorIgnores,
         MotorCounts, MotorAdvances, StateHears, PowerHears, KinematicsHears
<1> QED BY <1>1, <1>2, <1>3, <1>4

\* Who takes the tick next is the only one left out of it.
LEMMA TakenOnly ==
  ASSUME TypeOK, NEW x, Takes(x), NEW y \in Range(tick.left), y # x
  PROVE  y \in Range(tick'.left)
<1>1. /\ tick.left \in Seq({"Autonomous", "Power", "Kinematics", "Motor"})
      /\ tick.left # <<>> /\ Head(tick.left) = x
      /\ tick'.left = Tail(tick.left)
  BY DEF Takes, TypeOK
<1> QED BY <1>1, OthersRemain

LEMMA HeardOnly ==
  ASSUME TypeOK, NEW x, Hears(x), NEW y \in Range(report.left), y # x
  PROVE  y \in Range(report'.left)
<1>1. /\ report.left \in Seq({"State", "Power", "Kinematics"})
      /\ report.left # <<>> /\ Head(report.left) = x
      /\ report'.left = Tail(report.left)
  BY DEF Hears, TypeOK
<1> QED BY <1>1, OthersRemain

LEMMA TakesKeeps ==
  ASSUME TypeOK, NEW x, Takes(x)
  PROVE  /\ tick'.cmd_id = tick.cmd_id /\ tick'.rpm = tick.rpm
         /\ tick.left # <<>> /\ report.owner # "clock"
BY DEF TypeOK, Takes, Free

LEMMA HearsKeeps ==
  ASSUME TypeOK, Reporting, NEW x, Hears(x)
  PROVE  /\ report'.owner = report.owner /\ ~ Unlocked
         /\ report.status = StatusOf(motor)
         /\ report.status.active = motor.active
         /\ report.status.cmd_id = motor.cmd.cmd_id
<1>1. report'.owner = report.owner /\ report.left # <<>>
  BY DEF TypeOK, Hears
<1>2. ~ Unlocked /\ report.status = StatusOf(motor)
  BY <1>1 DEF Reporting
<1> QED BY <1>1, <1>2 DEF StatusOf

\* The motor takes a tick when no one else has still to take it.
LEMMA MotorEmpties ==
  ASSUME TypeOK, LastTaken, Takes("Motor")
  PROVE  tick'.left = <<>> /\ "Kinematics" \notin Range(tick.left)
<1> DEFINE S == {"Autonomous", "Power", "Kinematics", "Motor"}
<1>1. /\ tick.left \in Seq(S) /\ tick.left # <<>> /\ tick.left[1] = "Motor"
      /\ tick'.left = Tail(tick.left)
  BY DEF Takes, TypeOK
<1> HIDE DEF S
<1>2. 1 \in 1..Len(tick.left) /\ DOMAIN tick.left = 1..Len(tick.left)
  BY <1>1
<1>3. Len(tick.left) = 1
  BY <1>1, <1>2 DEF LastTaken
<1>4. Tail(tick.left) = <<>>
  <2>1. Tail(tick.left) \in Seq(S) /\ Len(Tail(tick.left)) = 0
    BY <1>1, <1>3
  <2> QED BY <2>1, EmptySeq
<1>5. \A i \in DOMAIN tick.left : tick.left[i] = "Motor"
  BY <1>1, <1>2, <1>3
<1> QED BY <1>1, <1>4, <1>5 DEF Range

LEMMA FollowedKept ==
  ASSUME MotorTicksLast, FInv, [Next]_vars
  PROVE  Followed'
<1> USE DEF FInv
<1>1. ASSUME NEW t \in Thread, MotorSequence(t) PROVE Followed'
  BY <1>1 DEF MotorSequence, Publish, Followed, MotorTicksLast
<1>2. CASE Sample
  BY <1>2 DEF Sample, Followed, MotorTicksLast
<1>3. CASE AutoTick \/ PowerTick \/ MotorIgnores \/ MotorCounts
  <2>1. PICK x : Takes(x) /\ x # "Kinematics"
    BY <1>3 DEF AutoTick, PowerTick, MotorIgnores, MotorCounts
  <2>2. tick'.cmd_id = tick.cmd_id /\ tick.left # <<>>
    BY <2>1, TakesKeeps
  <2>3. "Kinematics" \in Range(tick.left) => "Kinematics" \in Range(tick'.left)
    BY <2>1, TakenOnly
  <2>4. motor'.active = motor.active /\ motor'.cmd = motor.cmd /\ UNCHANGED <<kin, report>>
    BY <1>3 DEF AutoTick, PowerTick, MotorIgnores, MotorCounts, TypeOK, MotorOK
  <2> QED BY <2>2, <2>3, <2>4 DEF Followed
<1>4. CASE KinematicsTick
  <2>1. kin'.cmd_id = tick.cmd_id
    BY <1>4 DEF KinematicsTick
  <2>2. tick'.cmd_id = tick.cmd_id
    BY <1>4, TakesKeeps DEF KinematicsTick
  <2> QED BY <2>1, <2>2 DEF Followed
<1>5. CASE MotorAdvances
  BY <1>5, MotorEmpties DEF MotorAdvances, Followed
<1>6. CASE StateHears \/ PowerHears
  <2>1. PICK x : Hears(x) /\ x # "Kinematics"
    BY <1>6 DEF StateHears, PowerHears
  <2>2. "Kinematics" \in Range(report.left) => "Kinematics" \in Range(report'.left)
    BY <2>1, HeardOnly
  <2>3. UNCHANGED <<motor, kin, tick>>
    BY <1>6 DEF StateHears, PowerHears
  <2> QED BY <2>2, <2>3 DEF Followed
<1>7. CASE KinematicsHears
  <2>1. report.status.active = motor.active /\ report.status.cmd_id = motor.cmd.cmd_id
    BY <1>7, HearsKeeps DEF KinematicsHears
  <2>2. UNCHANGED motor
    BY <1>7 DEF KinematicsHears
  <2>3. CASE motor.active
    <3>1. kin'.cmd_id = motor.cmd.cmd_id
      BY <1>7, <2>1, <2>3 DEF KinematicsHears, TypeOK
    <3> QED BY <2>2, <3>1 DEF Followed
  <2> QED BY <2>2, <2>3 DEF Followed
<1>8. CASE MotorReturn
  BY <1>8 DEF MotorReturn, Followed, TypeOK
<1>9. CASE UNCHANGED <<motor, kin, tick, report>>
  BY <1>9 DEF Followed
<1>10. CASE PeerStep \/ (\E c \in AutoCommands : AutoCommand(c)) \/ UNCHANGED vars
  BY <1>9, <1>10 DEF PeerStep, Receive, ReceiveAuto, AutoCommand, vars
<1> QED
  BY <1>1, <1>2, <1>3, <1>4, <1>5, <1>6, <1>7, <1>8, <1>10
     DEF Next, ClockStep, MotorTick, ReportStep, Thread

LEMMA SettledKept ==
  ASSUME MotorTicksLast, FInv, [Next]_vars
  PROVE  Settled'
<1> USE DEF FInv
<1>1. ASSUME NEW t \in Thread, MotorSequence(t) PROVE Settled'
  BY <1>1 DEF MotorSequence, Settled, Finished
<1>2. CASE Sample
  <2>1. SUFFICES ASSUME Finished PROVE Settled'
    BY <1>2 DEF Sample, Settled, Finished
  <2>2. report.owner = None
    BY <1>2, <2>1 DEF Sample, Free, Settled, TypeOK, Thread
  <2>3. report.left = <<>> /\ "State" \notin Range(report.left)
    BY <2>2 DEF Reporting, Unlocked, Range
  <2>4. state.st = "Ready" /\ state.cmd_id = motor.cmd.cmd_id
    BY <2>1, <2>3 DEF Reporting, Cached, Finished, StatusOf
  <2>5. tick'.rpm = 0 /\ tick'.cmd_id = motor.cmd.cmd_id
    BY <1>2, <2>4 DEF Sample
  <2> QED BY <1>2, <2>1, <2>2, <2>5 DEF Sample, Settled, Finished, Unlocked
<1>3. CASE AutoTick \/ MotorIgnores
  <2>1. tick'.cmd_id = tick.cmd_id /\ tick'.rpm = tick.rpm /\ tick.left # <<>>
    BY <1>3, TakesKeeps DEF AutoTick, MotorIgnores
  <2> QED BY <1>3, <2>1 DEF AutoTick, MotorIgnores, Settled, Finished, Unlocked
<1>4. CASE PowerTick
  <2>1. tick'.cmd_id = tick.cmd_id /\ tick'.rpm = tick.rpm /\ tick.left # <<>>
    BY <1>4, TakesKeeps DEF PowerTick
  <2>2. power'.cmd_id = tick.cmd_id /\ (tick.rpm = 0 => power'.load <= 1)
    BY <1>4 DEF PowerTick, Abs
  <2> QED BY <1>4, <2>1, <2>2 DEF PowerTick, Settled, Finished, Unlocked
<1>5. CASE KinematicsTick
  <2>1. tick'.cmd_id = tick.cmd_id /\ tick'.rpm = tick.rpm /\ tick.left # <<>>
    BY <1>5, TakesKeeps DEF KinematicsTick
  <2>2. kin'.cmd_id = tick.cmd_id /\ kin'.speed = tick.rpm
    BY <1>5 DEF KinematicsTick
  <2> QED BY <1>5, <2>1, <2>2 DEF KinematicsTick, Settled, Finished, Unlocked
<1>6. CASE MotorCounts
  BY <1>6 DEF MotorCounts, Applies, Settled, Finished, TypeOK, MotorOK
<1>7. CASE MotorAdvances
  <2>1. tick'.left = <<>> /\ "Kinematics" \notin Range(tick.left) /\ tick.left # <<>>
    BY <1>7, MotorEmpties, TakesKeeps DEF MotorAdvances
  <2>2. motor.active /\ tick.cmd_id = motor.cmd.cmd_id /\ Unlocked
    BY <1>7 DEF MotorAdvances, Applies
  <2>3. "Kinematics" \notin Range(report.left)
    BY <2>2 DEF Reporting, Range
  <2>4. kin.cmd_id = motor.cmd.cmd_id
    BY <2>1, <2>2, <2>3 DEF Followed
  <2>5. motor'.cmd = motor.cmd /\ UNCHANGED <<kin, power>>
    BY <1>7 DEF MotorAdvances, TypeOK, MotorOK
  <2>6. report'.owner = "clock" /\ report'.left = StatusOrder
    BY <1>7 DEF MotorAdvances, Publish
  <2>7. "Kinematics" \in Range(report'.left) /\ "Power" \in Range(report'.left)
    BY <2>6 DEF MotorTicksLast
  <2>8. kin'.cmd_id = motor'.cmd.cmd_id
    BY <2>4, <2>5
  <2> QED BY <2>1, <2>6, <2>7, <2>8 DEF Settled
<1>8. CASE MotorReturn
  <2>1. report'.owner = None /\ report'.left = report.left /\ UNCHANGED <<motor, kin, power, tick>>
    BY <1>8 DEF MotorReturn, TypeOK
  <2>2. None # "rx"
    BY DEF None
  <2> QED BY <2>1, <2>2 DEF Settled, Finished, Unlocked
<1>9. CASE StateHears
  <2>1. report'.owner = report.owner /\ ~ Unlocked /\ UNCHANGED <<motor, kin, power, tick>>
    BY <1>9, HearsKeeps DEF StateHears
  <2>2. \A y \in {"Kinematics", "Power"} :
           y \in Range(report.left) => y \in Range(report'.left)
    BY <1>9, HeardOnly DEF StateHears
  <2> QED BY <2>1, <2>2 DEF Settled, Finished, Unlocked
<1>10. CASE PowerHears
  <2>1. /\ report'.owner = report.owner /\ ~ Unlocked /\ UNCHANGED <<motor, kin, tick>>
        /\ report.status.active = motor.active /\ report.status.cmd_id = motor.cmd.cmd_id
    BY <1>10, HearsKeeps DEF PowerHears
  <2>2. "Kinematics" \in Range(report.left) => "Kinematics" \in Range(report'.left)
    BY <1>10, HeardOnly DEF PowerHears
  <2>3. power'.cmd_id = motor.cmd.cmd_id /\ (~ motor.active => power'.load <= 1)
    BY <1>10, <2>1 DEF PowerHears
  <2> QED BY <2>1, <2>2, <2>3 DEF Settled, Finished, Unlocked
<1>11. CASE KinematicsHears
  <2>1. /\ report'.owner = report.owner /\ ~ Unlocked /\ UNCHANGED <<motor, power, tick>>
        /\ report.status.active = motor.active
    BY <1>11, HearsKeeps DEF KinematicsHears
  <2>2. "Power" \in Range(report.left) => "Power" \in Range(report'.left)
    BY <1>11, HeardOnly DEF KinematicsHears
  <2>3. ~ motor.active => kin'.cmd_id = kin.cmd_id /\ kin'.speed = 0
    BY <1>11, <2>1 DEF KinematicsHears, TypeOK
  <2> QED BY <2>1, <2>2, <2>3 DEF Settled, Finished, Unlocked
<1>12. CASE PeerStep \/ (\E c \in AutoCommands : AutoCommand(c)) \/ UNCHANGED vars
  <2>1. UNCHANGED <<motor, kin, power, tick, report>>
    BY <1>12 DEF PeerStep, Receive, ReceiveAuto, AutoCommand, vars
  <2> QED BY <2>1 DEF Settled, Finished, Unlocked
<1> QED
  BY <1>1, <1>2, <1>3, <1>4, <1>5, <1>6, <1>7, <1>8, <1>9, <1>10, <1>11, <1>12
     DEF Next, ClockStep, MotorTick, ReportStep, Thread

LEMMA FInvReports == FInv => FinishedIsReported
<1> SUFFICES ASSUME FInv, Finished, Unlocked
             PROVE  /\ kin.speed = 0 /\ power.load <= 1
                    /\ kin.cmd_id = motor.cmd.cmd_id /\ power.cmd_id = motor.cmd.cmd_id
  BY DEF FinishedIsReported
<1>1. "Kinematics" \notin Range(report.left) /\ "Power" \notin Range(report.left)
  BY DEF FInv, Reporting, Range
<1> QED BY <1>1 DEF FInv, Settled

\* EndIsReported: if the motor is the last to take a tick, then a sequence that has run to
\* its end is shown as ended by Kinematics and Power from the moment the report is
\* delivered, and no tick sampled before the end undoes it.
THEOREM EndIsReported ==
  ASSUME MotorTicksLast
  PROVE  Spec => []FinishedIsReported
<1>1. Init => FInv
  <2> SUFFICES ASSUME Init PROVE LastTaken /\ Followed /\ Settled
    BY InitTypes, InitReports DEF FInv
  <2>1. tick.left = <<>> /\ motor.idx = 0
    BY DEF Init
  <2> QED BY <2>1 DEF LastTaken, Followed, Settled, Finished
<1>2. FInv /\ [Next]_vars => FInv'
  <2> SUFFICES ASSUME FInv, [Next]_vars PROVE FInv'
    OBVIOUS
  <2>1. TypeOK' /\ Reporting'
    BY StepTypes, StepReports DEF FInv
  <2>2. LastTaken'
    BY LastTakenKept DEF FInv, MotorTicksLast
  <2> QED BY <2>1, <2>2, FollowedKept, SettledKept DEF FInv
<1> QED BY <1>1, <1>2, FInvReports, PTL DEF Spec

-----------------------------------------------------------------------------
(* The motor implements Executor: taking up a command is Accept, the end   *)
(* of a step is Advance, everything else stutters.                         *)

LEMMA InitExecutes == Init => Promise!Init
  BY DEF Init, Promise!Init

LEMMA StepExecutes == TypeOK /\ [Next]_vars => [Promise!Next]_(Promise!vars)
<1> SUFFICES ASSUME TypeOK, [Next]_vars PROVE Promise!Next \/ UNCHANGED Promise!vars
  OBVIOUS
<1>1. ASSUME NEW t \in Thread, MotorSequence(t) PROVE Promise!Next
  <2> DEFINE d == Head(pending[t])
             c == Normalised(d)
  <2>1. d \in Command
    BY <1>1 DEF TypeOK, MotorSequence
  <2>2. c.num_steps \in Nat
    BY <2>1, NormalisedType DEF MotorSequencePayload
  <2>3. motor' = [active |-> c.num_steps > 0 /\ c.steps[1].dur > 0, cmd |-> c, idx |-> 0,
                  remaining |-> IF c.num_steps > 0 /\ c.steps[1].dur > 0
                                THEN c.steps[1].dur ELSE motor.remaining]
    BY <1>1 DEF MotorSequence
  <2> HIDE DEF c
  <2>4. motor'.cmd = c /\ motor'.idx = 0 /\ (motor'.active <=> c.num_steps > 0 /\ c.steps[1].dur > 0)
    BY <2>3
  <2>5. Promise!Accept(c)
    BY <2>4 DEF Promise!Accept, Promise!Starts
  <2> QED BY <2>1, <2>5 DEF Promise!Next, c
<1>2. CASE MotorAdvances
  <2> DEFINE next == motor.idx + 1
             more == next < motor.cmd.num_steps
  <2>1. motor.active /\ MotorOK(motor)
    BY <1>2 DEF MotorAdvances, Applies, TypeOK
  <2>2. motor'.cmd = motor.cmd /\ motor'.idx = next /\ motor'.active = more
    BY <1>2, <2>1 DEF MotorAdvances, MotorOK
  <2>3. motor.idx \in Nat /\ motor.cmd.num_steps \in Nat
    BY <2>1 DEF MotorOK, MotorSequencePayload
  <2>4. (IF motor.active THEN motor.idx + 1 ELSE 0) = next /\ next > 0
    BY <2>1, <2>3
  <2>5. (IF motor'.active THEN motor'.idx + 1 ELSE 0) = IF more THEN next + 1 ELSE 0
    BY <2>2
  <2> HIDE DEF next
  <2>6. Promise!Advance
    BY <2>2, <2>4, <2>5 DEF Promise!Advance
  <2> QED BY <2>6 DEF Promise!Next
<1>3. CASE MotorCounts
  <2>1. motor'.cmd = motor.cmd /\ motor'.idx = motor.idx /\ motor'.active = motor.active
    BY <1>3 DEF MotorCounts, TypeOK, MotorOK
  <2> QED BY <2>1 DEF Promise!vars
<1>4. CASE UNCHANGED motor
  BY <1>4 DEF Promise!vars
<1> QED
  BY <1>1, <1>2, <1>3, <1>4
     DEF Next, ClockStep, MotorTick, ReportStep, PeerStep, Thread, vars, Receive, ReceiveAuto,
         AutoCommand, MotorReturn, Sample, AutoTick, PowerTick, KinematicsTick, MotorIgnores,
         StateHears, PowerHears, KinematicsHears

\* MotorExecutes: the motor executes the steps of the last command one after the other and
\* skips none, however the threads interleave: the safety half of Executes.
THEOREM MotorExecutes == Spec => Promise!Init /\ [][Promise!Next]_(Promise!vars)
  BY InitExecutes, StepExecutes, TypesHold, PTL DEF Spec
=============================================================================
