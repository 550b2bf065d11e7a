--------------------------- MODULE MCRunLifecycle ---------------------------
(* Instances of RunLifecycle for TLC.                                      *)
EXTENDS RunLifecycle, TLC

\* A chain, defined second task first, whose last task cleans up after a failure
\* of the first two.
ChainDeps == 1 :> {2} @@ 2 :> {} @@ 3 :> {1, 2}
ChainRule == 1 :> "all_success" @@ 2 :> "all_success" @@ 3 :> "all_done"

\* Two tasks in a row.
PairDeps == 1 :> {} @@ 2 :> {1}
PairRule == 1 :> "all_success" @@ 2 :> "all_success"
=============================================================================
