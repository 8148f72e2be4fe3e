---------------------------- MODULE MCAutoPromotion ----------------------------
(* A small instance of AutoPromotion. *)
EXTENDS AutoPromotion, TLC

\* The second release is discovered a second later than the first.
Discovered == 1 :> 1 @@ 2 :> 2

\* Both pass where the app is at first to be verified, and neither elsewhere.
MCPassing == {1, 2} \X {Idle.source}
=============================================================================
