----------------------------- MODULE MCDispatch -----------------------------
(***************************************************************************)
(* Dispatch with the wiring of the application.                            *)
(***************************************************************************)
EXTENDS SilDispatch

\* Every id the bus knows, those the bridge may not inject included.
AllIds == BusMessages
=============================================================================
