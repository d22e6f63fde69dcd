-------------------------- MODULE MCPendingExecutor --------------------------
(* The executor of one anima with one or two tasks; alone, t1 reports to a   *)
(* requester; t2 waits for t1.                                               *)
EXTENDS PendingExecutor, TLC

CONSTANTS anima, t1, t2

MCAnimas == {anima}
MCOwner == [t \in Tasks |-> anima]
Input(deps, replyTo) == [deps |-> deps, batch |-> 0, parallel |-> FALSE, replyTo |-> replyTo]
Inputs == (t1 :> {Input(<<>>, t2 \notin Tasks)}) @@ (t2 :> {Input(<<t1>>, FALSE)})
MCPayloads == [t \in Tasks |-> Inputs[t]]
=============================================================================
