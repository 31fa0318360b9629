------------------------------ MODULE Vehicle ------------------------------
(***************************************************************************)
(* Motor, State with its clock, Kinematics and Power on the two threads    *)
(* that drive them: the clock, which samples the state the motor last      *)
(* reported and publishes it as a PhysicsTick, and the receiver, which     *)
(* injects the MotorSequence commands of the peer.  AutonomousService      *)
(* issues commands of its own, from within the clock's tick or from within *)
(* a reply on the receiver's thread.                                       *)
(*                                                                         *)
(* A handler that publishes nothing under its lock is one action.  The     *)
(* motor publishes MotorStatus while it holds its lock: `report' is that   *)
(* publication in progress and its owner is the thread inside the lock.    *)
(* One tick is in flight at a time, with the services that have yet to     *)
(* take it.  The requests only copy state and are left out, as are the     *)
(* logs and ThermalService, which nothing here depends on.                 *)
(***************************************************************************)
EXTENDS Integers, Sequences, Functions

CONSTANTS
    RxCommands,    \* the sequences the peer sends
    AutoCommands,  \* the sequences AutonomousService publishes
    TickOrder,     \* the subscribers of PhysicsTick, in the order of dispatch
    StatusOrder,   \* the subscribers of MotorStatus
    kMaxSubCmds,   \* slots of a sequence (5)
    kTickUs,       \* the period of the clock (10 000)
    MaxRpm,        \* the clamp of the speed (6000)
    Wrap,          \* elapsed_us is unsigned: 2^32
    MaxAccepts     \* bound: how many commands are issued

MotorSubCmd == [rpm : Int, dur : Nat]

MotorSequencePayload ==
    [cmd_id : Nat, num_steps : Nat, steps : [1..kMaxSubCmds -> MotorSubCmd]]

Command == RxCommands \cup AutoCommands

ASSUME VehicleAssumption ==
    /\ kMaxSubCmds \in Nat \ {0} /\ kTickUs \in Nat \ {0} /\ MaxRpm \in Nat
    /\ Wrap \in Nat \ {0} /\ MaxAccepts \in Nat
    /\ Command \subseteq MotorSequencePayload
    /\ TickOrder \in Seq({"Autonomous", "Power", "Kinematics", "Motor"})
    /\ StatusOrder \in Seq({"State", "Power", "Kinematics"})
    /\ "State" \in Range(StatusOrder)

Thread == {"clock", "rx"}

VARIABLES
    motor,    \* MotorService: the sequence, the step and its remaining time
    state,    \* StateService: what the motor last reported
    kin,      \* KinematicsService
    power,    \* PowerService
    tick,     \* the PhysicsTick in flight, and who has yet to take it
    pending,  \* the MotorSequence each thread is delivering, not yet accepted: <<>> or <<c>>
    mission,  \* the thread in AutonomousService that publishes a MotorSequence, under its lock
    report,   \* the MotorStatus in flight under the lock of the motor
    issued    \* how many commands have been issued

vars == <<motor, state, kin, power, tick, pending, mission, report, issued>>

None == "none"

NoStep == [rpm |-> 0, dur |-> 0]

NoCommand == [cmd_id |-> 0, num_steps |-> 0, steps |-> [i \in 1..kMaxSubCmds |-> NoStep]]

Least(a, b) == IF a <= b THEN a ELSE b

Clamp(r) == IF r > MaxRpm THEN MaxRpm ELSE IF r < -MaxRpm THEN -MaxRpm ELSE r

Abs(r) == IF r < 0 THEN -r ELSE r

\* Mutant: num_steps is taken as the peer sent it.
Normalised_Unbounded(c) == [c EXCEPT !.steps = [i \in 1..kMaxSubCmds |->
    [rpm |-> Clamp(c.steps[i].rpm), dur |-> c.steps[i].dur]]]

\* The copy the motor keeps: at most kMaxSubCmds steps, their speeds clamped.
Normalised(c) ==
    LET n == Least(c.num_steps, kMaxSubCmds) IN
    [cmd_id |-> c.cmd_id, num_steps |-> n,
     steps |-> [i \in 1..kMaxSubCmds |->
                  [rpm |-> IF i <= n THEN Clamp(c.steps[i].rpm) ELSE c.steps[i].rpm,
                   dur |-> c.steps[i].dur]]]

\* The status the motor has last published, or is publishing.
StatusOf(m) ==
    [cmd_id |-> m.cmd.cmd_id,
     rpm |-> IF m.active THEN m.cmd.steps[m.idx + 1].rpm ELSE 0,
     active |-> m.active]

Idle == [owner |-> None, status |-> StatusOf([cmd |-> NoCommand, active |-> FALSE]), left |-> <<>>]

-----------------------------------------------------------------------------
Init ==
    /\ motor = [active |-> FALSE, cmd |-> NoCommand, idx |-> 0, remaining |-> 0]
    /\ state = [st |-> "Ready", cmd_id |-> 0, rpm |-> 0, active |-> FALSE]
    /\ kin = [cmd_id |-> 0, elapsed |-> 0, pos |-> 0, speed |-> 0]
    /\ power = [cmd_id |-> 0, load |-> 0]
    /\ tick = [cmd_id |-> 0, rpm |-> 0, left |-> <<>>]
    /\ pending = [t \in Thread |-> <<>>]
    /\ mission = None
    /\ report = Idle
    /\ issued = 0

\* The thread is inside no handler of the motor, nor waiting to enter one.
Free(t) == pending[t] = <<>> /\ report.owner # t

Unlocked == report.owner = None

Issue(t, c) ==
    /\ issued < MaxAccepts
    /\ issued' = issued + 1
    /\ pending' = [pending EXCEPT ![t] = <<c>>]

\* The lock holder t publishes the status of the motor's new state.
Publish(t) == report' = [owner |-> t, status |-> StatusOf(motor'), left |-> StatusOrder]

\* rx_loop injects a MotorSequence of the peer.
Receive(c) ==
    /\ Free("rx")
    /\ Issue("rx", c)
    /\ UNCHANGED <<motor, state, kin, power, tick, mission, report>>

\* rx_loop injects a mission, or a request whose reply makes AutonomousService
\* publish a sequence, under its lock.
ReceiveAuto(c) ==
    /\ Free("rx")
    /\ mission = None
    /\ Issue("rx", c)
    /\ mission' = "rx"
    /\ UNCHANGED <<motor, state, kin, power, tick, report>>

\* Mutant: a new command does not go back to its first step.
MotorSequence_KeepsIndex(t) ==
    /\ pending[t] # <<>>
    /\ Unlocked
    /\ LET c == Normalised(Head(pending[t]))
           start_immediately == c.num_steps > 0 /\ c.steps[1].dur > 0 IN
       motor' = [active |-> start_immediately, cmd |-> c, idx |-> motor.idx,
                 remaining |-> IF start_immediately THEN c.steps[1].dur ELSE motor.remaining]
    /\ Publish(t)
    /\ pending' = [pending EXCEPT ![t] = <<>>]
    /\ UNCHANGED <<state, kin, power, tick, mission, issued>>

\* MotorService::on_message(MotorSequencePayload), up to the calls of the subscribers.
MotorSequence(t) ==
    /\ pending[t] # <<>>
    /\ Unlocked
    /\ LET c == Normalised(Head(pending[t]))
           start_immediately == c.num_steps > 0 /\ c.steps[1].dur > 0 IN
       motor' = [active |-> start_immediately, cmd |-> c, idx |-> 0,
                 remaining |-> IF start_immediately THEN c.steps[1].dur ELSE motor.remaining]
    /\ Publish(t)
    /\ pending' = [pending EXCEPT ![t] = <<>>]
    /\ UNCHANGED <<state, kin, power, tick, mission, issued>>

\* Mutant: the lock is released before the subscribers have been called.
MotorReturn_Early ==
    /\ report.owner # None
    /\ report' = [report EXCEPT !.owner = None]
    /\ mission' = IF mission = report.owner THEN None ELSE mission
    /\ UNCHANGED <<motor, state, kin, power, tick, pending, issued>>

\* The motor's handler returns and releases the lock, and so does the handler of
\* AutonomousService it was called from.
MotorReturn ==
    /\ report.owner # None
    /\ report.left = <<>>
    /\ report' = [report EXCEPT !.owner = None]
    /\ mission' = IF mission = report.owner THEN None ELSE mission
    /\ UNCHANGED <<motor, state, kin, power, tick, pending, issued>>

-----------------------------------------------------------------------------
\* clock_loop: sample the cached state and publish the tick.
Sample ==
    /\ Free("clock")
    /\ tick.left = <<>>
    /\ tick' = [cmd_id |-> state.cmd_id,
                rpm |-> IF state.st = "Executing" THEN state.rpm ELSE 0,
                left |-> TickOrder]
    /\ UNCHANGED <<motor, state, kin, power, pending, mission, report, issued>>

\* The clock's dispatch calls the next subscriber of the tick.
Takes(s) ==
    /\ Free("clock")
    /\ tick.left # <<>>
    /\ Head(tick.left) = s
    /\ tick' = [tick EXCEPT !.left = Tail(@)]

\* AutonomousService::on_message(PhysicsTick): the replies to the requests it
\* publishes may make it command the motor, once or more than once, before the
\* tick goes on to the next subscriber.
AutoCommand(c) ==
    /\ Free("clock")
    /\ tick.left # <<>>
    /\ Head(tick.left) = "Autonomous"
    /\ mission = None
    /\ Issue("clock", c)
    /\ mission' = "clock"
    /\ UNCHANGED <<motor, state, kin, power, tick, report>>

AutoTick ==
    /\ Takes("Autonomous")
    /\ mission = None
    /\ UNCHANGED <<motor, state, kin, power, pending, mission, report, issued>>

PowerTick ==
    /\ Takes("Power")
    /\ power' = [cmd_id |-> tick.cmd_id, load |-> Abs(tick.rpm) + 1]
    /\ UNCHANGED <<motor, state, kin, pending, mission, report, issued>>

\* Mutant: a tick leaves the id alone.
KinematicsTick_KeepsId ==
    /\ Takes("Kinematics")
    /\ kin' = [kin EXCEPT !.elapsed = (@ + kTickUs) % Wrap,
                          !.pos = @ + tick.rpm * kTickUs, !.speed = tick.rpm]
    /\ UNCHANGED <<motor, state, power, pending, mission, report, issued>>

KinematicsTick ==
    /\ Takes("Kinematics")
    /\ kin' = [cmd_id |-> tick.cmd_id, elapsed |-> (kin.elapsed + kTickUs) % Wrap,
               pos |-> kin.pos + tick.rpm * kTickUs, speed |-> tick.rpm]
    /\ UNCHANGED <<motor, state, power, pending, mission, report, issued>>

\* Mutant: a tick sampled for another sequence counts as well.
Applies_AnyId == motor.active

Applies == motor.active /\ tick.cmd_id = motor.cmd.cmd_id

\* MotorService::on_message(PhysicsTick) of a tick of no running sequence.
MotorIgnores ==
    /\ Takes("Motor") /\ Unlocked
    /\ ~ Applies
    /\ UNCHANGED <<motor, state, kin, power, pending, mission, report, issued>>

\* ... that leaves the step some time,
MotorCounts ==
    /\ Takes("Motor") /\ Unlocked
    /\ Applies /\ kTickUs < motor.remaining
    /\ motor' = [motor EXCEPT !.remaining = @ - kTickUs]
    /\ UNCHANGED <<state, kin, power, pending, mission, report, issued>>

\* ... or that ends it: advance_step, up to the calls of the subscribers.
MotorAdvances ==
    /\ Takes("Motor") /\ Unlocked
    /\ Applies /\ kTickUs >= motor.remaining
    /\ LET next == motor.idx + 1
           more == next < motor.cmd.num_steps IN
       motor' = [motor EXCEPT !.idx = next, !.active = more,
                              !.remaining = IF more THEN motor.cmd.steps[next + 1].dur ELSE @]
    /\ Publish("clock")
    /\ UNCHANGED <<state, kin, power, pending, mission, issued>>

-----------------------------------------------------------------------------
\* The dispatch of MotorStatus calls the next subscriber.
Hears(s) ==
    /\ report.left # <<>>
    /\ Head(report.left) = s
    /\ report' = [report EXCEPT !.left = Tail(@)]

StateHears ==
    /\ Hears("State")
    /\ LET ms == report.status IN
       state' = [st |-> IF ms.active THEN "Executing" ELSE "Ready",
                 cmd_id |-> ms.cmd_id, rpm |-> ms.rpm, active |-> ms.active]
    /\ UNCHANGED <<motor, kin, power, tick, pending, mission, issued>>

PowerHears ==
    /\ Hears("Power")
    /\ power' = [cmd_id |-> report.status.cmd_id,
                 load |-> IF report.status.active THEN power.load ELSE 0]
    /\ UNCHANGED <<motor, state, kin, tick, pending, mission, issued>>

\* Mutant: a new sequence goes on with the time of the last one.
KinematicsHears_KeepsTime ==
    /\ Hears("Kinematics")
    /\ LET ms == report.status IN
       kin' = IF ms.active THEN [kin EXCEPT !.cmd_id = ms.cmd_id] ELSE [kin EXCEPT !.speed = 0]
    /\ UNCHANGED <<motor, state, power, tick, pending, mission, issued>>

\* Mutant: the end of a sequence leaves the speed to the next tick.
KinematicsHears_KeepsSpeed ==
    /\ Hears("Kinematics")
    /\ LET ms == report.status IN
       kin' = IF ms.active /\ ms.cmd_id # kin.cmd_id
              THEN [kin EXCEPT !.cmd_id = ms.cmd_id, !.elapsed = 0]
              ELSE kin
    /\ UNCHANGED <<motor, state, power, tick, pending, mission, issued>>

KinematicsHears ==
    /\ Hears("Kinematics")
    /\ LET ms == report.status IN
       kin' = IF ms.active
              THEN IF ms.cmd_id # kin.cmd_id
                   THEN [kin EXCEPT !.cmd_id = ms.cmd_id, !.elapsed = 0]
                   ELSE kin
              ELSE [kin EXCEPT !.speed = 0]
    /\ UNCHANGED <<motor, state, power, tick, pending, mission, issued>>

-----------------------------------------------------------------------------
MotorTick == MotorIgnores \/ MotorCounts \/ MotorAdvances

ReportStep == StateHears \/ PowerHears \/ KinematicsHears \/ MotorReturn

ClockStep ==
    \/ Sample \/ AutoTick \/ PowerTick \/ KinematicsTick \/ MotorTick
    \/ MotorSequence("clock") \/ \E c \in AutoCommands : AutoCommand(c)

PeerStep == (\E c \in RxCommands : Receive(c)) \/ (\E c \in AutoCommands : ReceiveAuto(c))

Next == ClockStep \/ MotorSequence("rx") \/ ReportStep \/ PeerStep

Spec == Init /\ [][Next]_vars

(***************************************************************************)
(* The clock never stops, a handler that is called runs to its end, and a  *)
(* command that has arrived is handed to the motor; nothing obliges the    *)
(* peer to send one.                                                       *)
(***************************************************************************)
Fairness == WF_vars(ClockStep) /\ WF_vars(ReportStep) /\ WF_vars(MotorSequence("rx"))

FairSpec == Spec /\ Fairness

-----------------------------------------------------------------------------
Ids == { c.cmd_id : c \in Command } \cup {0}

MotorStatusPayload == [cmd_id : Ids, rpm : Int, active : BOOLEAN]

\* A running motor stands on a slot of its sequence that exists.
MotorOK(m) ==
    /\ m \in [active : BOOLEAN, cmd : MotorSequencePayload, idx : Nat, remaining : Nat]
    /\ m.cmd.cmd_id \in Ids /\ m.cmd.num_steps <= kMaxSubCmds
    /\ m.active => m.idx < m.cmd.num_steps

\* TypeOK: the state of the services, of the tick and of the status in flight; the
\* motor never reads beyond the slots of its sequence, whatever the peer sent.
TypeOK ==
    /\ MotorOK(motor)
    /\ state \in [st : {"Ready", "Executing"}, cmd_id : Ids, rpm : Int, active : BOOLEAN]
    /\ kin \in [cmd_id : Ids, elapsed : 0..(Wrap - 1), pos : Int, speed : Int]
    /\ power \in [cmd_id : Ids, load : Nat]
    /\ tick \in [cmd_id : Ids, rpm : Int,
                 left : Seq({"Autonomous", "Power", "Kinematics", "Motor"})]
    /\ pending \in [Thread -> {<<>>} \cup { <<c>> : c \in Command }]
    /\ mission \in Thread \cup {None}
    /\ report \in [owner : Thread \cup {None}, status : MotorStatusPayload,
                   left : Seq({"State", "Power", "Kinematics"})]
    /\ issued \in 0..MaxAccepts

\* StatusCached: whenever the motor's lock is free, the clock samples what the motor
\* is doing: the copy StateService keeps of the last report is the motor's own
\* state.  MotorService publishes under its lock so that two reports, one from
\* the clock's thread and one from the receiver's, cannot reach it out of order.
StatusCached ==
    Unlocked =>
        /\ StatusOf(motor) = [cmd_id |-> state.cmd_id, rpm |-> state.rpm, active |-> state.active]
        /\ state.st = (IF motor.active THEN "Executing" ELSE "Ready")

\* The motor has carried the last sequence to its end: a stop leaves idx at 0.
Finished == ~ motor.active /\ motor.idx > 0

\* The motor is the last to take a tick.
MotorIsLast == \A i \in 1..Len(TickOrder) : TickOrder[i] = "Motor" <=> i = Len(TickOrder)

\* The order of dispatch that FinishedIsReported rests on: Kinematics and Power take
\* every tick and hear every report, and the motor is the last to take a tick.
MotorTicksLast ==
    {"Kinematics", "Power"} \subseteq Range(TickOrder) \cap Range(StatusOrder) /\ MotorIsLast

\* FinishedIsReported: once a sequence has run to its end and the report is
\* delivered, every service shows it, and keeps showing it through the ticks
\* that follow: standing still, drawing at most the idle current, under the id
\* of that sequence.  The ticks sampled before the end could undo it.
FinishedIsReported ==
    Finished /\ Unlocked =>
        /\ kin.speed = 0 /\ power.load <= 1
        /\ kin.cmd_id = motor.cmd.cmd_id /\ power.cmd_id = motor.cmd.cmd_id

\* ReadyIsStill: a client that has seen Ready finds the vehicle standing still.
ReadyIsStill == state.st = "Ready" => kin.speed = 0

\* Executes: the motor executes the steps of the last command in order, skipping
\* none, and a sequence that no other preempts comes to its end.  The safety half
\* is the motor's own; that the steps go on needs the whole loop: the report that
\* reaches StateService, the tick that carries its id, and the motor taking it.
Promise == INSTANCE Executor WITH
    Sequence <- { Normalised(c) : c \in Command },
    NoSequence <- NoCommand,
    cmd <- motor.cmd,
    step <- IF motor.active THEN motor.idx + 1 ELSE 0

Executes == Promise!Spec

\* EchoSettles: when the peer and the mission fall silent, Kinematics and Power end
\* up under the id of the last command for good, even if a tick sampled before that
\* command was accepted has overwritten it.
EchoSettles == <>[](kin.cmd_id = motor.cmd.cmd_id /\ power.cmd_id = motor.cmd.cmd_id)
=============================================================================
