-------------------------- MODULE MCLeaderElection --------------------------
(* Instances of LeaderElection for TLC.                                    *)
EXTENDS LeaderElection, TLC

CONSTANTS c1, c2

\* A client that was not updated yet and an up-to-date one.
MCVersionOf == (c1 :> 1) @@ (c2 :> 2)
=============================================================================
