----------------------------- MODULE MCRunQueue -----------------------------
(* Instances of RunQueue for TLC: DAG "a" is scheduled, "b" is started by   *)
(* operators and events.                                                    *)
EXTENDS RunQueue, TLC

MCMaxActiveRuns == [d \in Dags |-> IF d = "a" THEN 2 ELSE 1]
MCPolicies == {"a" :> p @@ "b" :> "serial_wait" :
                 p \in {"parallel", "serial_priority", "serial_discard"}}
MCSubs == [e \in Events |-> Dags]
=============================================================================
