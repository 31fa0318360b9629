----------------------------- MODULE MCVehicle -----------------------------
(***************************************************************************)
(* Vehicle with the order of dispatch of the application, two slots to a   *)
(* sequence, and commands that tell the cases apart: durations below, at   *)
(* and between multiples of the period, a step of no duration, more steps  *)
(* than slots, a speed beyond the clamp, a stop, and an empty sequence.    *)
(***************************************************************************)
EXTENDS Vehicle, SilTopology

Among(s, services) == SelectSeq(s, LAMBDA x : x \in services)

OrderOf(m) == [i \in DOMAIN SilSubscribers[m] |-> SilSubscribers[m][i][1]]

SilTickOrder == Among(OrderOf("PhysicsTick"), {"Autonomous", "Power", "Kinematics", "Motor"})

SilStatusOrder == OrderOf("MotorStatus")

Seq2(id, n, rpm1, dur1, rpm2, dur2) ==
    [cmd_id |-> id, num_steps |-> n,
     steps |-> <<[rpm |-> rpm1, dur |-> dur1], [rpm |-> rpm2, dur |-> dur2]>>]

\* cmd_id 999 of AutonomousService is 9 here; its stop has cmd_id 0.
Leg == Seq2(9, 1, 2, 4, 0, 0)
OtherLeg == Seq2(9, 1, 1, 4, 0, 0)
AutoStop == Seq2(0, 1, 0, 0, 0, 0)

Short == Seq2(1, 2, 1, 2, -7, 3)
Long == Seq2(2, 3, 3, 5, 1, 0)
Single == Seq2(3, 1, 2, 1, 0, 0)
Stop == Seq2(4, 1, 0, 0, 0, 0)
Empty == Seq2(5, 0, 2, 2, 2, 2)

PeerCommands == {Short, Long, Stop, Empty}
OneSequence == {Single}
MissionCommands == {Leg, OtherLeg, AutoStop}
=============================================================================
