--------------------------- MODULE PendingExecutor ---------------------------
(***************************************************************************)
(* The task executor of one anima, core/supervisor/pending_executor.py,    *)
(* with the children it runs tasks in (task_runner_supervisor.py and       *)
(* task_runner.py), on top of the durable store of TaskStore.              *)
(*                                                                         *)
(* The anima's root process runs one event loop: between two awaits its    *)
(* code is not interleaved with other code of the root, but every other    *)
(* process may commit to the database in between.  A synchronous section   *)
(* that makes several database transactions is therefore several actions,  *)
(* and RootFree keeps the rest of the root out until the section is over.  *)
(* The root may crash at any point and is started again by its supervisor; *)
(* what it knew is lost, its children become orphans.                      *)
(***************************************************************************)
EXTENDS TaskStore

CONSTANTS
    Isolation,   \* values task_process_isolation.task may have when a root reads it
    MaxEpochs    \* bound: incarnations of the root process

ASSUME ExecutorAssumption == Isolation \in SUBSET BOOLEAN \ {{}} /\ MaxEpochs \in Nat \ {0}

VARIABLES
    up,          \* a root process is alive
    stopping,    \* shutdown: "no", "asked" (shutdown_event is set), "draining" (the watcher loop is over)
    epoch,       \* number of the newest root process
    isolated,    \* _task_isolated: the root runs each attempt in a child process
    body,        \* body[t][n]: the agent session of attempt n of task t
    work,        \* work[t]: the root's _execute_canonical_task coroutine
    recovering,  \* the root is between the read and the finish of recovery
    delivering,  \* the root is inside the loop body of _deliver_task_wakeups
    inbox,       \* inbox[r]: messages waiting in r's inbox directory
    handled,     \* handled[r]: messages moved to r's processed directory
    author       \* history: newest attempt whose agent declared a status

rootVars == <<up, stopping, epoch, isolated>>
loopVars == <<recovering, delivering>>
mailVars == <<inbox, handled>>
vars == <<storeVars, rootVars, body, work, loopVars, mailVars, author>>

Numbers == 1 .. MaxAttempts
RootId(e) == [kind |-> "root", epoch |-> e]
ChildId(t, n) == [kind |-> "child", task |-> t, number |-> n]
ExecutorProcs == {RootId(e) : e \in 1 .. MaxEpochs} \union {ChildId(t, n) : t \in Tasks, n \in Numbers}

ASSUME ProcsAssumption == ExecutorProcs \subseteq Procs

LiveBody == {"booting", "contracted", "executing"}
BodyState == LiveBody \union {"none", "gone"}
Sticky == Terminal \union {"delegated"}
Declarable == {"pending", "delegated", "done", "cancelled"}
Recipients == {"self", "requester"}

(* Where a coroutine can be, and what it carries: the outcome it is about  *)
(* to write, or the result of its session.                                 *)
Stages == {"none", "dispatched", "spawned", "awaiting", "returned", "syncing", "ended", "closing"}
Outcomes == {"pending"} \union Terminal
Values == Outcomes \union {"none", "error", "undeclared", "completed"}
Mail == [task : Tasks, notice : Notices]

NoWork == [pc |-> "none", n |-> 0, val |-> "none"]
Working(pc, n, val) == [pc |-> pc, n |-> n, val |-> val]

ExecInit ==
    /\ Init
    /\ up = FALSE
    /\ stopping = "no"
    /\ epoch = 0
    /\ isolated = FALSE
    /\ body = [t \in Tasks |-> [n \in Numbers |-> "none"]]
    /\ work = [t \in Tasks |-> NoWork]
    /\ recovering = {}
    /\ delivering = {}
    /\ inbox = [r \in Recipients |-> {}]
    /\ handled = [r \in Recipients |-> {}]
    /\ author = [t \in Tasks |-> 0]

(* identity_liveness(): pid and start time name one process for ever.      *)
Alive(p) ==
    IF p.kind = "root" THEN up /\ p.epoch = epoch ELSE body[p.task][p.number] \in LiveBody

RootFree ==
    /\ up
    /\ recovering = {}
    /\ delivering = {}
    /\ \A t \in Tasks : work[t].pc \notin {"syncing", "closing"}

(* The root has a coroutine that waits for the session of attempt n.       *)
Awaits(t, n) == work[t].pc \in {"spawned", "awaiting"} /\ work[t].n = n

-----------------------------------------------------------------------------
(* The root process.                                                       *)

RootStart ==
    /\ ~up
    /\ epoch < MaxEpochs
    /\ up' = TRUE
    /\ stopping' = "no"
    /\ epoch' = epoch + 1
    /\ isolated' \in Isolation
    /\ UNCHANGED <<storeVars, body, work, loopVars, mailVars, author>>

(* A crash or a kill: coroutines vanish, and so do sessions that run in    *)
(* the root itself.  The last incarnation is not crashed (bound).          *)
RootCrash ==
    /\ up
    /\ epoch < MaxEpochs
    /\ up' = FALSE
    /\ work' = [t \in Tasks |-> NoWork]
    /\ recovering' = {}
    /\ delivering' = {}
    /\ body' = [t \in Tasks |-> [n \in Numbers |-> IF ~isolated /\ Awaits(t, n) THEN "gone" ELSE body[t][n]]]
    /\ UNCHANGED <<storeVars, stopping, epoch, isolated, mailVars, author>>

(* Shutdown: the watcher loop, which looks at shutdown_event once a round, *)
(* ends and then waits for the coroutines.                                 *)
RootStop ==
    /\ RootFree
    /\ stopping = "no"
    /\ epoch < MaxEpochs
    /\ stopping' = "asked"
    /\ UNCHANGED <<storeVars, up, epoch, isolated, body, work, loopVars, mailVars, author>>

RootDrain ==
    /\ RootFree
    /\ stopping = "asked"
    /\ stopping' = "draining"
    /\ UNCHANGED <<storeVars, up, epoch, isolated, body, work, loopVars, mailVars, author>>

RootExit ==
    /\ RootFree
    /\ stopping = "draining"
    /\ \A t \in Tasks : work[t].pc = "none"
    /\ up' = FALSE
    /\ UNCHANGED <<storeVars, stopping, epoch, isolated, body, work, loopVars, mailVars, author>>

-----------------------------------------------------------------------------
(* watcher_loop(): a round recovers, delivers and claims, in this order    *)
(* and without an await; here rounds may also be partial.  The coroutine   *)
(* of a claimed task is created without an await after the claim.          *)

LoopRuns == RootFree /\ stopping # "draining"

RootClaim(t) ==
    /\ LoopRuns
    /\ Claim(t, RootId(epoch))
    /\ work' = [work EXCEPT ![t] = Working("dispatched", Len(attempts[t]) + 1, "none")]
    /\ UNCHANGED <<rootVars, body, loopVars, mailVars, author>>

RootPark(t) ==
    /\ LoopRuns
    /\ ClaimPark(t)
    /\ UNCHANGED <<rootVars, body, work, loopVars, mailVars, author>>

-----------------------------------------------------------------------------
(* Running an attempt.                                                     *)

(* create_subprocess_exec(); without isolation the session starts in the   *)
(* root.                                                                   *)
Spawn(t) ==
    /\ RootFree
    /\ work[t].pc = "dispatched"
    /\ work' = [work EXCEPT ![t].pc = IF isolated THEN "spawned" ELSE "awaiting"]
    /\ body' = [body EXCEPT ![t][work[t].n] = IF isolated THEN "booting" ELSE "executing"]
    /\ UNCHANGED <<storeVars, rootVars, loopVars, mailVars, author>>

(* No child could be started, or the supervisor no longer accepts jobs.    *)
SpawnFails(t) ==
    /\ RootFree
    /\ isolated
    /\ work[t].pc = "dispatched"
    /\ work' = [work EXCEPT ![t] = Working("returned", @.n, "error")]
    /\ UNCHANGED <<storeVars, rootVars, body, loopVars, mailVars, author>>

(* on_spawned: runs before the event loop can serve the child's connection.*)
RegisterChild(t) ==
    /\ RootFree
    /\ work[t].pc = "spawned"
    /\ IF attempts[t][work[t].n].ended THEN UNCHANGED storeVars
       ELSE SetIdentity(t, work[t].n, ChildId(t, work[t].n))
    /\ work' = [work EXCEPT ![t].pc = "awaiting"]
    /\ UNCHANGED <<rootVars, body, loopVars, mailVars, author>>

(* _handle_connection(): hello, then the run contract.  A root that does   *)
(* not know the job (a newer one) answers UNKNOWN_JOB.                     *)
ChildContract(t, n) ==
    /\ body[t][n] = "booting"
    /\ up
    /\ work[t].pc = "awaiting"
    /\ work[t].n = n
    /\ body' = [body EXCEPT ![t][n] = "contracted"]
    /\ UNCHANGED <<storeVars, rootVars, work, loopVars, mailVars, author>>

(* execute_task_contract(): the child records itself as the owner of a     *)
(* claim that still stands (else it raises, SessionFails).                 *)
ChildBegin(t, n) ==
    /\ body[t][n] = "contracted"
    /\ SetIdentity(t, n, ChildId(t, n))
    /\ body' = [body EXCEPT ![t][n] = "executing"]
    /\ UNCHANGED <<rootVars, work, loopVars, mailVars, author>>

(* The agent of attempt n calls update_task on its own task.  The tools of *)
(* a session inherit its identity (ANIMAWORKS_TASK_IDENTITY) and may call  *)
(* after the session is gone.                                              *)
Declare(t, n, s) ==
    /\ body[t][n] \in {"executing", "gone"}
    /\ ~archived[t]
    /\ ApplyUpdate(t, n, s)
    /\ author' = [author EXCEPT ![t] = n]
    /\ UNCHANGED <<rootVars, body, work, loopVars, mailVars>>

(* _run_llm_task() returns: the session reads the ledger and names the     *)
(* outcome; a run skipped for lack of budget is undeclared whatever the    *)
(* ledger says.  The result reaches the root if it still waits for it.     *)
SessionEnds(t, n) ==
    /\ body[t][n] = "executing"
    /\ body' = [body EXCEPT ![t][n] = "gone"]
    /\ \E r \in {"undeclared", CASE status[t] = "cancelled" -> "cancelled"
                                 [] status[t] \in {"done", "delegated"} -> "completed"
                                 [] OTHER -> "undeclared"} :
          work' = IF Awaits(t, n) THEN [work EXCEPT ![t] = Working("returned", n, r)] ELSE work
    /\ UNCHANGED <<storeVars, rootVars, loopVars, mailVars, author>>

(* The session raises, or its process dies or hangs and is killed.         *)
SessionFails(t, n) ==
    /\ body[t][n] \in LiveBody
    /\ body' = [body EXCEPT ![t][n] = "gone"]
    /\ UNCHANGED <<storeVars, rootVars, work, loopVars, mailVars, author>>

(* The root sees that the session ended without a result.                  *)
FailureNoticed(t) ==
    /\ RootFree
    /\ work[t].pc = "awaiting"
    /\ body[t][work[t].n] = "gone"
    /\ work' = [work EXCEPT ![t] = Working("returned", @.n, "error")]
    /\ UNCHANGED <<storeVars, rootVars, body, loopVars, mailVars, author>>

(* A cancel found by _watch_job (the child is killed) or, without          *)
(* isolation, by _watch_canonical_cancel (the coroutine is cancelled).     *)
KillCancelled(t) ==
    /\ RootFree
    /\ work[t].pc = "awaiting"
    /\ status[t] = "cancelled"
    /\ body[t][work[t].n] \in LiveBody
    /\ body' = [body EXCEPT ![t][work[t].n] = "gone"]
    /\ work' = IF isolated THEN work ELSE [work EXCEPT ![t] = Working("ended", @.n, "none")]
    /\ UNCHANGED <<storeVars, rootVars, loopVars, mailVars, author>>

(* Shutdown drain timed out: the coroutine is cancelled, its child reaped. *)
CancelDispatch(t) ==
    /\ RootFree
    /\ stopping = "draining"
    /\ work[t].pc \in {"dispatched", "awaiting"}
    /\ body' = [body EXCEPT ![t][work[t].n] = IF @ \in LiveBody THEN "gone" ELSE @]
    /\ work' = [work EXCEPT ![t] = Working("ended", @.n, "none")]
    /\ UNCHANGED <<storeVars, rootVars, loopVars, mailVars, author>>

(* _parent_monitor(), the connect deadline, UNKNOWN_JOB: a child whose     *)
(* root is gone stops by itself.                                           *)
OrphanExits(t, n) ==
    /\ body[t][n] \in LiveBody
    /\ ~Awaits(t, n)
    /\ body' = [body EXCEPT ![t][n] = "gone"]
    /\ UNCHANGED <<storeVars, rootVars, work, loopVars, mailVars, author>>

-----------------------------------------------------------------------------
(* The end of an attempt in the root.                                      *)

Outcome(r) ==
    CASE r = "cancelled" -> "cancelled"
      [] r = "completed" -> "done"
      [] OTHER -> "pending"

(* _execute_llm_task() after the session: _sync_task_queue() reads the     *)
(* ledger and leaves cancelled rows and other sticky statuses alone.  An   *)
(* error during shutdown is left to the finalizer.                         *)
SyncRead(t) ==
    LET s == Outcome(work[t].val)
        skip == \/ stopping # "no" /\ work[t].val = "error"
                \/ status[t] = "cancelled"
                \/ status[t] # s /\ status[t] \in Sticky
    IN  /\ RootFree
        /\ work[t].pc = "returned"
        /\ work' = [work EXCEPT ![t] = IF skip THEN Working("ended", @.n, "none") ELSE Working("syncing", @.n, s)]
        /\ UNCHANGED <<storeVars, rootVars, body, loopVars, mailVars, author>>

(* ... and writes the status in a transaction of its own.                  *)
SyncWrite(t) ==
    /\ work[t].pc = "syncing"
    /\ IF ~archived[t] /\ Accepts(t, work[t].n, work[t].val)
       THEN ApplyUpdate(t, work[t].n, work[t].val) ELSE UNCHANGED storeVars
    /\ work' = [work EXCEPT ![t] = Working("ended", @.n, "none")]
    /\ UNCHANGED <<rootVars, body, loopVars, mailVars, author>>

(* The outcome an ended attempt gets: the terminal status its reader saw.  *)
Seen(t) == IF status[t] \in Terminal THEN status[t] ELSE "pending"

(* The finally block of _execute_canonical_task(): read, then finish.      *)
CloseRead(t) ==
    /\ RootFree
    /\ work[t].pc = "ended"
    /\ work' = [work EXCEPT ![t] = Working("closing", @.n, Seen(t))]
    /\ UNCHANGED <<storeVars, rootVars, body, loopVars, mailVars, author>>

ChildStillLive(t, n) == attempts[t][n].owner # RootId(epoch) /\ Alive(attempts[t][n].owner)

CloseFinish(t) ==
    /\ work[t].pc = "closing"
    /\ IF current[t] = work[t].n /\ ~ChildStillLive(t, work[t].n)
       THEN Finish(t, work[t].n, work[t].val) ELSE UNCHANGED storeVars
    /\ work' = [work EXCEPT ![t] = NoWork]
    /\ UNCHANGED <<rootVars, body, loopVars, mailVars, author>>

(* Recovery that does not look at the owner, ... *)
RecoverReadBlindly(t, n) ==
    /\ LoopRuns
    /\ n \in DOMAIN attempts[t]
    /\ ~attempts[t][n].ended
    /\ work[t].pc = "none"
    /\ recovering' = {[task |-> t, n |-> n, val |-> Seen(t)]}
    /\ UNCHANGED <<storeVars, rootVars, body, work, delivering, mailVars, author>>

(* ... nor at the coroutines of this root ... *)
RecoverReadAnything(t, n) ==
    /\ LoopRuns
    /\ n \in DOMAIN attempts[t]
    /\ ~attempts[t][n].ended
    /\ recovering' = {[task |-> t, n |-> n, val |-> Seen(t)]}
    /\ UNCHANGED <<storeVars, rootVars, body, work, delivering, mailVars, author>>

(* ... or that only knows attempts a root still owned. *)
RecoverReadRoots(t, n) ==
    /\ RecoverReadBlindly(t, n)
    /\ attempts[t][n].owner.kind = "root"
    /\ ~Alive(attempts[t][n].owner)

(* _recover_task_attempts(): an open attempt that no coroutine of this     *)
(* root runs and whose owner is dead.  Listing, liveness and status are    *)
(* read one after the other; what counts is that finish() comes later.     *)
RecoverRead(t, n) ==
    /\ LoopRuns
    /\ n \in DOMAIN attempts[t]
    /\ ~attempts[t][n].ended
    /\ work[t].pc = "none"
    /\ ~Alive(attempts[t][n].owner)
    /\ recovering' = {[task |-> t, n |-> n, val |-> Seen(t)]}
    /\ UNCHANGED <<storeVars, rootVars, body, work, delivering, mailVars, author>>

RecoverFinish ==
    /\ \E c \in recovering :
          IF current[c.task] = c.n THEN Finish(c.task, c.n, c.val) ELSE UNCHANGED storeVars
    /\ recovering' = {}
    /\ UNCHANGED <<rootVars, body, work, delivering, mailVars, author>>

-----------------------------------------------------------------------------
(* _deliver_task_wakeups(): the outbox goes to inboxes.                    *)

Addressees(t, w) ==
    (IF w.reason = "completion" THEN {} ELSE {"self"})
    \union (IF input[t] # NoInput /\ input[t].replyTo THEN {"requester"} ELSE {})

Message(t, w) == [task |-> t, notice |-> w]

DeliverPick(t, w) ==
    /\ LoopRuns
    /\ w \in outbox[t]
    /\ delivering' = {[task |-> t, notice |-> w, left |-> Addressees(t, w)]}
    /\ UNCHANGED <<storeVars, rootVars, body, work, recovering, mailVars, author>>

(* send() that looks for the delivery id in the inbox only. *)
DeliverSendAgain(r) ==
    \E d \in delivering :
        /\ r \in d.left
        /\ inbox' = [inbox EXCEPT ![r] = @ \union {Message(d.task, d.notice)}]
        /\ delivering' = {[d EXCEPT !.left = @ \ {r}]}
        /\ UNCHANGED <<storeVars, rootVars, body, work, recovering, handled, author>>

(* Messenger.send(delivery_id=...): a message already delivered, read or   *)
(* unread, is not written again.  Addressees are served in sorted order.   *)
DeliverSend(r) ==
    \E d \in delivering :
        LET m == Message(d.task, d.notice) IN
        /\ r \in d.left
        /\ r = "requester" => "self" \notin d.left
        /\ inbox' = [inbox EXCEPT ![r] = IF m \in handled[r] THEN @ ELSE @ \union {m}]
        /\ delivering' = {[d EXCEPT !.left = @ \ {r}]}
        /\ UNCHANGED <<storeVars, rootVars, body, work, recovering, handled, author>>

(* send() raises: the notice stays in the outbox for the next round.       *)
DeliverFails ==
    /\ \E d \in delivering : d.left # {}
    /\ delivering' = {}
    /\ UNCHANGED <<storeVars, rootVars, body, work, recovering, mailVars, author>>

(* Acknowledging before everybody was served, or not at all. *)
DeliverAckEarly ==
    /\ \E d \in delivering :
          IF d.notice \in outbox[d.task] THEN Acknowledge(d.task, d.notice) ELSE UNCHANGED storeVars
    /\ delivering' = {}
    /\ UNCHANGED <<rootVars, body, work, recovering, mailVars, author>>

DeliverAckNever ==
    /\ \E d \in delivering : d.left = {}
    /\ delivering' = {}
    /\ UNCHANGED <<storeVars, rootVars, body, work, recovering, mailVars, author>>

DeliverAck ==
    /\ \E d \in delivering :
          /\ d.left = {}
          /\ IF d.notice \in outbox[d.task] THEN Acknowledge(d.task, d.notice) ELSE UNCHANGED storeVars
    /\ delivering' = {}
    /\ UNCHANGED <<rootVars, body, work, recovering, mailVars, author>>

(* The addressee reads the message and archives it.                        *)
Handle(r, m) ==
    /\ m \in inbox[r]
    /\ inbox' = [inbox EXCEPT ![r] = @ \ {m}]
    /\ handled' = [handled EXCEPT ![r] = @ \union {m}]
    /\ UNCHANGED <<storeVars, rootVars, body, work, loopVars, author>>

-----------------------------------------------------------------------------
(* Everybody else: other sessions of the anima, its superiors, the server, *)
(* the TaskBoard and the heartbeat's compaction.                           *)

Others == <<rootVars, body, work, loopVars, mailVars, author>>

OtherSubmits(t, p) == Submit(t, 0, p) /\ UNCHANGED Others

(* publish_tasks(resume=True): only a pending task.                        *)
OtherResubmits(t) == status[t] = "pending" /\ Resubmit(t, 0) /\ UNCHANGED Others

(* update_task(): the ledger it looks in leaves out archived rows.         *)
OtherUpdates(t, s) == ~archived[t] /\ ApplyUpdate(t, 0, s) /\ UNCHANGED Others

(* update_task(status="pending", resume=True): the update is refused, or   *)
(* update and resume commit together.                                      *)
ReopenAccepted(t) == ~archived[t] /\ Accepts(t, 0, "pending")

OtherReopens(t) == ReopenAccepted(t) /\ Resume(t, 0) /\ UNCHANGED Others

OtherCompacts(a) == Compact(a) /\ UNCHANGED Others

-----------------------------------------------------------------------------

TaskStep(t) ==
    \/ RootClaim(t) \/ RootPark(t) \/ Spawn(t) \/ SpawnFails(t) \/ RegisterChild(t)
    \/ FailureNoticed(t) \/ KillCancelled(t) \/ CancelDispatch(t) \/ SyncRead(t) \/ SyncWrite(t) \/ CloseRead(t) \/ CloseFinish(t)

AttemptStep(t, n) ==
    \/ ChildContract(t, n) \/ ChildBegin(t, n) \/ SessionEnds(t, n) \/ SessionFails(t, n) \/ OrphanExits(t, n)
    \/ RecoverRead(t, n)
    \/ \E s \in Declarable : Declare(t, n, s)

OtherStep(t) ==
    \/ \E p \in Payloads[t] : OtherSubmits(t, p)
    \/ OtherResubmits(t)
    \/ \E s \in Declarable : OtherUpdates(t, s)
    \/ OtherReopens(t)

ExecNext ==
    \/ RootStart \/ RootCrash \/ RootStop \/ RootDrain \/ RootExit
    \/ \E t \in Tasks : TaskStep(t) \/ OtherStep(t)
    \/ \E t \in Tasks, n \in Numbers : AttemptStep(t, n)
    \/ RecoverFinish
    \/ \E t \in Tasks : \E w \in outbox[t] : DeliverPick(t, w)
    \/ \E r \in Recipients : DeliverSend(r)
    \/ DeliverFails
    \/ DeliverAck
    \/ \E r \in Recipients : \E m \in inbox[r] : Handle(r, m)
    \/ \E a \in Animas : OtherCompacts(a)

ExecSpec == ExecInit /\ [][ExecNext]_vars

(* Fairness.  The supervisor restarts a dead root; the event loop of the   *)
(* root serves every coroutine that can go on, so the steps that need it   *)
(* free are strongly fair; a synchronous section runs to its end; every    *)
(* session ends (hang watchdog, iteration limits), an orphan notices that  *)
(* its root is gone, and sending succeeds again and again.  Nobody outside *)
(* is obliged to do anything.                                              *)
CoroutineGoesOn(t) ==
    Spawn(t) \/ SpawnFails(t) \/ RegisterChild(t) \/ FailureNoticed(t) \/ SyncRead(t) \/ CloseRead(t)

SectionEnds == RecoverFinish \/ DeliverAck \/ \E t \in Tasks : SyncWrite(t) \/ CloseFinish(t)

RootFairness ==
    /\ WF_vars(RootStart)
    /\ WF_vars(SectionEnds)
    /\ SF_vars(RootDrain \/ RootExit)
    /\ \A r \in Recipients : SF_vars(DeliverSend(r))
    /\ \A t \in Tasks :
          /\ SF_vars(RootClaim(t))
          /\ SF_vars(CoroutineGoesOn(t))
          /\ SF_vars(\E w \in outbox[t] : DeliverPick(t, w))

SessionFairness ==
    \A t \in Tasks, n \in Numbers :
        /\ WF_vars(ChildContract(t, n) \/ ChildBegin(t, n) \/ SessionEnds(t, n) \/ SessionFails(t, n) \/ OrphanExits(t, n))
        /\ SF_vars(RecoverRead(t, n))

FairSpec == ExecSpec /\ RootFairness /\ SessionFairness

-----------------------------------------------------------------------------
(* Properties.                                                             *)

(* Type invariant of the executor.                                         *)
ExecTypeOK ==
    /\ up \in BOOLEAN /\ isolated \in BOOLEAN
    /\ stopping \in {"no", "asked", "draining"}
    /\ epoch \in 0 .. MaxEpochs /\ (up => epoch # 0)
    /\ body \in [Tasks -> [Numbers -> BodyState]]
    /\ work \in [Tasks -> [pc : Stages, n : Nat, val : Values]]
    /\ recovering \in SUBSET [task : Tasks, n : Numbers, val : Outcomes]
    /\ delivering \in SUBSET [task : Tasks, notice : Notices, left : SUBSET Recipients]
    /\ inbox \in [Recipients -> SUBSET Mail]
    /\ handled \in [Recipients -> SUBSET Mail]
    /\ author \in [Tasks -> 0 .. MaxAttempts]

(* A task is never executed twice at a time, whatever crashes: a session   *)
(* that still executes holds the current attempt, recovery and resume of   *)
(* its task wait until it is gone.                                         *)
SingleExecution ==
    \A t \in Tasks, n \in Numbers : body[t][n] = "executing" => current[t] = n

(* A coroutine of the root and the store agree on the attempt from claim   *)
(* to finish: neither recovery nor a caller ends it behind its back.       *)
CoroutineOwnsAttempt ==
    \A t \in Tasks : work[t].pc # "none" => current[t] = work[t].n

(* A task starts only when nobody works on what it depends on any more: a  *)
(* dependency counts as done when its session is over, not when its agent  *)
(* said so.                                                                *)
DependencySessionsOver ==
    [][\A t \in Tasks : current[t] = 0 /\ current'[t] # 0 =>
          \A i \in DOMAIN input[t].deps : \A n \in Numbers : body[input[t].deps[i]][n] # "executing"]_vars

(* A notice that was read is not presented again, although delivery is     *)
(* retried after crashes and failures.                                     *)
ReadOnce ==
    \A r \in Recipients : inbox[r] \intersect handled[r] = {}

(* A notice leaves the outbox only when each of its addressees has got it, *)
(* or when a new publish or resume made it moot.                           *)
SettledMeansDelivered ==
    [][\A t \in Tasks : \A w \in outbox[t] \ outbox'[t] :
          \/ ready'[t]
          \/ \A r \in Addressees(t, w) : Message(t, w) \in inbox[r] \union handled[r]]_vars

(* A stale attempt does not overwrite what a newer one declared: only the  *)
(* newest attempt of a task can change it.                                 *)
StaleAttemptHarmless ==
    [][\A t \in Tasks : author'[t] # author[t] => author'[t] = Len(attempts[t])]_vars

(* Every attempt ends: in a live root by its coroutine, after a crash by   *)
(* recovery once its session is gone.                                      *)
AttemptsEnd ==
    \A t \in Tasks : current[t] # 0 ~> current[t] = 0

(* Every notice is eventually delivered and settled, across crashes and    *)
(* failing sends.                                                          *)
NoticesSettle ==
    \A t \in Tasks : outbox[t] # {} ~> outbox[t] = {}

(* A ready task is eventually started unless it is withdrawn.              *)
ReadyStarts ==
    \A t \in Tasks : (ready[t] /\ status[t] = "pending" /\ Len(attempts[t]) < MaxAttempts)
                       ~> ~(ready[t] /\ status[t] = "pending")

(* "Statuses a runner-side sync must never walk back: the anima declared   *)
(* them, or a subordinate now owns the work."  The runner writes a status  *)
(* in SyncWrite and when it finishes an attempt; neither may undo a done   *)
(* or a delegated.                                                         *)
RunnerKeepsDeclared ==
    [][(\E t \in Tasks : SyncWrite(t) \/ CloseFinish(t)) \/ RecoverFinish
       => \A t \in Tasks : status[t] \in {"done", "delegated"} => status'[t] = status[t]]_vars
=============================================================================
