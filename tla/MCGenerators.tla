---------------------------- MODULE MCGenerators ----------------------------
(***************************************************************************)
(* The generators for the messages and the services of the program.        *)
(***************************************************************************)
EXTENDS Generators

\* What the theorems ask of the messages and of the services' declarations.
ASSUME GeneratorsPremises == WellNested /\ Formattable /\ SelfContained /\ DeclaredAsSent
=============================================================================
