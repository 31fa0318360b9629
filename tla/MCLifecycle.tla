---------------------------- MODULE MCLifecycle ----------------------------
(***************************************************************************)
(* Two entries of the heartbeat, one of the clock and one of the receiver. *)
(***************************************************************************)
EXTENDS Lifecycle

\* The premise of CallsAreServed in LifecycleProofs, of this wiring.
ASSUME LifecyclePremise == CallsLaterServices

MCMaxLog == "heartbeat" :> 2 @@ "clock" :> 1 @@ "rx" :> 1
=============================================================================
