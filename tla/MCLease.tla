------------------------------- MODULE MCLease -------------------------------
(* An instance of Lease for TLC: a scheduler and two standbys, one of them  *)
(* with its clock ahead.                                                    *)
EXTENDS Lease, TLC

MCAhead == "a" :> 0 @@ "b" :> 1 @@ "c" :> 0
=============================================================================
