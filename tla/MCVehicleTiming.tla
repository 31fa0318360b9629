-------------------------- MODULE MCVehicleTiming --------------------------
(***************************************************************************)
(* VehicleTiming with the constants of MCVehicle.                          *)
(***************************************************************************)
EXTENDS VehicleTiming, MCVehicle

\* What EndIsReported in VehicleProofs and StepsInTime in TimingProofs presuppose of the wiring.
ASSUME VehiclePremise == MotorTicksLast /\ TickedOnce
=============================================================================
