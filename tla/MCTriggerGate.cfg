SPECIFICATION GateSpec
CONSTANT Dep = {d1, d2, d3}
INVARIANTS EvalIsReadyBlocked
PROPERTIES GateStable
CHECK_DEADLOCK FALSE
