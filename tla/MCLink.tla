------------------------------- MODULE MCLink -------------------------------
EXTENDS Link, MCVehicle

Data == {[region |-> 1, temp |-> 10]}
SilDataOrder == OrderOf("EnvironmentData")
LinkTickOrder == Among(SilTickOrder, {"Kinematics", "Motor"})
LinkStatusOrder == Among(SilStatusOrder, {"State", "Kinematics"})

\* What the theorems of LinkProofs presuppose of the wiring and of the tests.
ASSUME LinkPremises == OwnIds /\ EnvironmentFirst /\ MotorIsLast
=============================================================================
