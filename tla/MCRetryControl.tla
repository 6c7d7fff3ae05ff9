--------------------------- MODULE MCRetryControl ---------------------------
(***************************************************************************)
(* RetryControl with an action of each risk, one retry of an L1 action but *)
(* none of an attempt, and one artifact that its evidence may have.        *)
(***************************************************************************)
EXTENDS RetryControl

CONSTANTS l1, l2, x

MCCall == [tool : {"apply", "command", "finalize"}, arg : {1}]
MCArtifact == {[id |-> 1, atom |-> x, quality |-> 1]}
=============================================================================
