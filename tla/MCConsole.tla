----------------------------- MODULE MCConsole -----------------------------
(***************************************************************************)
(* The console's screens for TLC: a run's interval has two requests in     *)
(* flight at most, so that its answers can come in the other order; the    *)
(* workers' has one, as what it draws does not tell the order.             *)
(***************************************************************************)
EXTENDS Console

MCAsks == [k \in Polled |-> IF k = "run" THEN 2 ELSE 1]
=============================================================================
