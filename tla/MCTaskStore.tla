----------------------------- MODULE MCTaskStore -----------------------------
(* Small instances of the task store.  The tasks are one batch, in which t2 *)
(* waits for t1 and t3 may run next to its siblings; without t2, t1 reports *)
(* to a requester.                                                          *)
EXTENDS TaskStore, TLC

CONSTANTS anima, t1, t2, t3

MCAnimas == {anima}
MCOwner == [t \in Tasks |-> anima]
Input(deps, batch, parallel, replyTo) ==
  [deps |-> deps, batch |-> batch, parallel |-> parallel, replyTo |-> replyTo]
BatchInputs == (t1 :> {Input(<<>>, 1, FALSE, t2 \notin Tasks)}) @@ (t2 :> {Input(<<t1>>, 1, TRUE, FALSE)})
               @@ (t3 :> {Input(<<>>, 1, TRUE, FALSE)})
MCPayloads == [t \in Tasks |-> BatchInputs[t]]
=============================================================================
