------------------------------ MODULE TaskStore ------------------------------
(***************************************************************************)
(* The durable task store, core/taskboard/tasks.py (class TaskStore).      *)
(*                                                                         *)
(* Every method of the class that writes runs in one BEGIN IMMEDIATE       *)
(* SQLite transaction, so every action below is one atomic step: a caller  *)
(* crash leaves either the whole step or nothing.  The callers (runners,   *)
(* their child processes, the HTTP server, the CLI, the TaskBoard) are     *)
(* arbitrary here: Next lets any of them call any method at any time with  *)
(* any attempt identity that was ever issued.  The modules that extend     *)
(* this one restrict the calls to what those programs do.                  *)
(*                                                                         *)
(* A row of table `tasks' is one element t of Tasks; the columns are the   *)
(* functions below.  Task names are already resolved to their owner's row. *)
(***************************************************************************)
EXTENDS Naturals, Sequences, FiniteSets

CONSTANTS
    Animas,       \* the agents sharing the database
    Tasks,        \* the rows of table tasks, (anima, task_id)
    Owner,        \* Owner[t]: column anima of row t
    Payloads,     \* Payloads[t]: execution inputs a caller may publish for t
    NoInput,      \* input_json IS NULL
    Procs,        \* operating-system processes that may own an attempt
    MaxActive,    \* worker pool size handed to claim()
    MaxAttempts   \* bound: attempts recorded per task

(* The part of an execution input that claim() and finish() look at; batch *)
(* 0 stands for an input without batch_id.                                 *)
Payload == [deps : Seq(Tasks), batch : Nat, parallel : BOOLEAN, replyTo : BOOLEAN]

ASSUME OwnerAssumption == Owner \in [Tasks -> Animas]
ASSUME PayloadAssumption == Payloads \in [Tasks -> SUBSET Payload] /\ NoInput \notin Payload
ASSUME BoundAssumption == MaxActive \in Nat \ {0} /\ MaxAttempts \in Nat
ASSUME TasksAssumption == IsFiniteSet(Tasks)

VARIABLES
    status,     \* entry_json.status, "absent" when there is no row
    input,      \* input_json
    ready,      \* column ready
    archived,   \* column archived
    current,    \* current_attempt: number of the running attempt, 0 for NULL
    attempts,   \* rows of task_attempts for the task, in order of number
    outbox,     \* rows of task_wakeups with acknowledged_at IS NULL
    settled,    \* rows of task_wakeups already acknowledged
    paused      \* task_claim_control.paused, per anima

rowVars == <<status, input, ready, archived, current>>
wakeVars == <<outbox, settled>>
storeVars == <<rowVars, attempts, wakeVars, paused>>

Terminal == {"done", "cancelled"}
LiveStatus == {"pending", "in_progress", "delegated"} \union Terminal

Attempt == [owner : Procs, ended : BOOLEAN]
AttemptNotice(n, why) == [reason |-> why, of |-> n]
DependencyNotice(d) == [reason |-> "dependency_cancelled", of |-> d]
Notices == [reason : {"incomplete", "completion"}, of : Nat \ {0}]
           \union [reason : {"dependency_cancelled"}, of : Tasks]

Init ==
    /\ status = [t \in Tasks |-> "absent"]
    /\ input = [t \in Tasks |-> NoInput]
    /\ ready = [t \in Tasks |-> FALSE]
    /\ archived = [t \in Tasks |-> FALSE]
    /\ current = [t \in Tasks |-> 0]
    /\ attempts = [t \in Tasks |-> <<>>]
    /\ outbox = [t \in Tasks |-> {}]
    /\ settled = [t \in Tasks |-> {}]
    /\ paused = [a \in Animas |-> FALSE]

-----------------------------------------------------------------------------
(* Callers.  An operation runs inside attempt_scope(identity) or outside.  *)
(* Only an identity that names the task itself matters to the store: k is  *)
(* the attempt number it carries, 0 for any other caller.                  *)

Callers(t) == 0 .. Len(attempts[t])

(* The fence of attempt_scope left out. *)
FreshAlways(t, k) == TRUE

Fresh(t, k) == k = 0 \/ current[t] = k

(* INSERT OR REPLACE in place of INSERT OR IGNORE. *)
EnqueueAgain(t, w) ==
    /\ outbox' = [outbox EXCEPT ![t] = @ \union {w}]
    /\ UNCHANGED settled

(* INSERT OR IGNORE INTO task_wakeups ... acknowledged_at NULL *)
Enqueue(t, w) ==
    /\ outbox' = [outbox EXCEPT ![t] = IF w \in settled[t] THEN @ ELSE @ \union {w}]
    /\ UNCHANGED settled

(* UPDATE task_wakeups SET acknowledged_at=... WHERE task AND ... IS NULL *)
SettleAll(t) ==
    /\ settled' = [settled EXCEPT ![t] = @ \union outbox[t]]
    /\ outbox' = [outbox EXCEPT ![t] = {}]

-----------------------------------------------------------------------------
(* Writing the task entry.                                                 *)

(* What apply() accepts as an update: not from a stale attempt, and a      *)
(* cancelled row only goes back to pending, once its attempt has stopped.  *)
Accepts(t, k, s) ==
    /\ status[t] # "absent"
    /\ Fresh(t, k)
    /\ status[t] = "cancelled" => s = "cancelled" \/ (s = "pending" /\ current[t] = 0)

(* The UPDATE of apply() leaving column ready alone. *)
ApplyUpdateKeepingReady(t, k, s) ==
    /\ Accepts(t, k, s)
    /\ status' = [status EXCEPT ![t] = s]
    /\ archived' = [archived EXCEPT ![t] = FALSE]
    /\ UNCHANGED <<ready, input, current, attempts, wakeVars, paused>>

(* apply() with an "update" event: status or metadata of an existing row.  *)
(* A metadata-only event is the case s = status[t].                        *)
ApplyUpdate(t, k, s) ==
    /\ Accepts(t, k, s)
    /\ status' = [status EXCEPT ![t] = s]
    /\ archived' = [archived EXCEPT ![t] = FALSE]
    /\ ready' = [ready EXCEPT ![t] = @ /\ s \notin Terminal]
    /\ UNCHANGED <<input, current, attempts, wakeVars, paused>>

(* apply() with a new entry: a backlog row, never scheduled by itself.  It *)
(* may replace a row that has no execution input.                          *)
ApplyEntry(t, s) ==
    /\ current[t] = 0
    /\ input[t] = NoInput
    /\ status' = [status EXCEPT ![t] = s]
    /\ archived' = [archived EXCEPT ![t] = FALSE]
    /\ UNCHANGED <<input, ready, current, attempts, wakeVars, paused>>

(* The upsert without archived=0. *)
PublishKeepingArchived(t, p) ==
    /\ status' = [status EXCEPT ![t] = "pending"]
    /\ input' = [input EXCEPT ![t] = p]
    /\ ready' = [ready EXCEPT ![t] = TRUE]
    /\ SettleAll(t)
    /\ UNCHANGED <<archived, current, attempts, paused>>

(* Both publishing methods end in the same upsert: the row is pending and  *)
(* ready, and the attention it owed is settled.                            *)
Publish(t, p) ==
    /\ status' = [status EXCEPT ![t] = "pending"]
    /\ input' = [input EXCEPT ![t] = p]
    /\ ready' = [ready EXCEPT ![t] = TRUE]
    /\ archived' = [archived EXCEPT ![t] = FALSE]
    /\ SettleAll(t)
    /\ UNCHANGED <<current, attempts, paused>>

(* submit(resume=False): idempotent, a row that has an input or a running  *)
(* attempt is left alone.                                                  *)
Submit(t, k, p) ==
    /\ Fresh(t, k)
    /\ current[t] = 0
    /\ input[t] = NoInput
    /\ Publish(t, p)

(* submit(resume=True), reached from publish_tasks with the saved input.   *)
Resubmit(t, k) ==
    /\ Fresh(t, k)
    /\ current[t] = 0
    /\ input[t] # NoInput
    /\ status[t] \notin Terminal
    /\ Publish(t, input[t])

(* resume(): also reopens done and cancelled tasks.                        *)
Resume(t, k) ==
    /\ Fresh(t, k)
    /\ current[t] = 0
    /\ input[t] # NoInput
    /\ Publish(t, input[t])

-----------------------------------------------------------------------------
(* Running a task.                                                         *)

Active(a) == {t \in Tasks : Owner[t] = a /\ current[t] # 0}

(* The batch test looking at the claimed task only. *)
BatchFreeOneSided(t) ==
    LET sameBatch == {u \in Active(Owner[t]) : input[u].batch # 0 /\ input[u].batch = input[t].batch}
    IN  sameBatch # {} => input[t].parallel

(* claim() rejects a task whose batch is busy, unless everybody in it is   *)
(* parallel.                                                               *)
BatchFree(t) ==
    LET sameBatch == {u \in Active(Owner[t]) : input[u].batch # 0 /\ input[u].batch = input[t].batch}
    IN  sameBatch # {} => input[t].parallel /\ \A u \in sameBatch : input[u].parallel

(* The test of claim() on a dependency without its current_attempt. *)
DependencyDeclared(d) == status[d] = "done"

DependencyDone(d) == status[d] = "done" /\ current[d] = 0

(* The part of claim() that reads the row, before the pool is looked at.   *)
RowReady(t) ==
    /\ ~paused[Owner[t]]
    /\ ready[t]
    /\ current[t] = 0
    /\ input[t] # NoInput
    /\ status[t] = "pending"

(* Mutant: an off-by-one in the comparison with max_active.                *)
ClaimableUnderfull(t) ==
    /\ RowReady(t)
    /\ Cardinality(Active(Owner[t])) + 1 < MaxActive
    /\ BatchFree(t)

Claimable(t) ==
    /\ RowReady(t)
    /\ Cardinality(Active(Owner[t])) < MaxActive
    /\ BatchFree(t)

(* claim() that starts an attempt owned by process p.                      *)
Claim(t, p) ==
    /\ Claimable(t)
    /\ \A i \in DOMAIN input[t].deps : DependencyDone(input[t].deps[i])
    /\ Len(attempts[t]) < MaxAttempts
    /\ attempts' = [attempts EXCEPT ![t] = Append(@, [owner |-> p, ended |-> FALSE])]
    /\ current' = [current EXCEPT ![t] = Len(attempts[t]) + 1]
    /\ ready' = [ready EXCEPT ![t] = FALSE]
    /\ status' = [status EXCEPT ![t] = "in_progress"]
    /\ UNCHANGED <<input, archived, wakeVars, paused>>

(* claim() that meets a cancelled dependency after only done ones: the     *)
(* task leaves the ready queue and its owner is to be told.                *)
ClaimPark(t) ==
    /\ Claimable(t)
    /\ \E i \in DOMAIN input[t].deps :
          /\ status[input[t].deps[i]] = "cancelled"
          /\ \A j \in 1 .. i - 1 : DependencyDone(input[t].deps[j])
          /\ Enqueue(t, DependencyNotice(input[t].deps[i]))
    /\ ready' = [ready EXCEPT ![t] = FALSE]
    /\ UNCHANGED <<status, input, archived, current, attempts, paused>>

(* set_identity() without ended_at IS NULL. *)
SetIdentityOfEnded(t, n, p) ==
    /\ n \in DOMAIN attempts[t]
    /\ attempts' = [attempts EXCEPT ![t][n].owner = p]
    /\ UNCHANGED <<rowVars, wakeVars, paused>>

(* set_identity(): the process that really executes an attempt.            *)
SetIdentity(t, n, p) ==
    /\ n \in DOMAIN attempts[t]
    /\ ~attempts[t][n].ended
    /\ attempts' = [attempts EXCEPT ![t][n].owner = p]
    /\ UNCHANGED <<rowVars, wakeVars, paused>>

(* finish() by several bugs: it may drop ended_at, let the outcome the     *)
(* caller saw win over a cancel, or put the task back on the ready queue.  *)
BuggyFinish(t, n, s, drop, lose, again) ==
    LET outcome == IF status[t] = "cancelled" /\ ~lose THEN "cancelled" ELSE s IN
    /\ n \in DOMAIN attempts[t]
    /\ current[t] = n
    /\ ~attempts[t][n].ended
    /\ attempts' = [attempts EXCEPT ![t][n].ended = ~drop]
    /\ current' = [current EXCEPT ![t] = 0]
    /\ ready' = [ready EXCEPT ![t] = again /\ outcome = "pending"]
    /\ status' = [status EXCEPT ![t] = outcome]
    /\ IF outcome = "pending" THEN Enqueue(t, AttemptNotice(n, "incomplete")) ELSE UNCHANGED wakeVars
    /\ UNCHANGED <<input, archived, paused>>

FinishNotEnding(t, n, s) == BuggyFinish(t, n, s, TRUE, FALSE, FALSE)
FinishLosingCancel(t, n, s) == BuggyFinish(t, n, s, FALSE, TRUE, FALSE)
FinishRequeueing(t, n, s) == BuggyFinish(t, n, s, FALSE, FALSE, TRUE)

(* finish(): ends attempt n of t if it is still the current one.  s is the *)
(* outcome the caller saw; a cancellation recorded meanwhile wins.         *)
Finish(t, n, s) ==
    LET outcome == IF status[t] = "cancelled" THEN "cancelled" ELSE s IN
    /\ n \in DOMAIN attempts[t]
    /\ current[t] = n
    /\ ~attempts[t][n].ended
    /\ attempts' = [attempts EXCEPT ![t][n].ended = TRUE]
    /\ current' = [current EXCEPT ![t] = 0]
    /\ ready' = [ready EXCEPT ![t] = FALSE]
    /\ status' = [status EXCEPT ![t] = outcome]
    /\ CASE outcome = "pending" -> Enqueue(t, AttemptNotice(n, "incomplete"))
         [] outcome = "done" /\ input[t] # NoInput /\ input[t].replyTo ->
              Enqueue(t, AttemptNotice(n, "completion"))
         [] OTHER -> UNCHANGED wakeVars
    /\ UNCHANGED <<input, archived, paused>>

-----------------------------------------------------------------------------
(* Outbox, gate and compaction.                                            *)

(* acknowledge_wakeup() *)
Acknowledge(t, w) ==
    /\ w \in outbox[t]
    /\ outbox' = [outbox EXCEPT ![t] = @ \ {w}]
    /\ settled' = [settled EXCEPT ![t] = @ \union {w}]
    /\ UNCHANGED <<rowVars, attempts, paused>>

(* pause_claims() *)
PauseClaims(a, b) ==
    /\ paused' = [paused EXCEPT ![a] = b]
    /\ UNCHANGED <<rowVars, attempts, wakeVars>>

(* compact(): archives every closed task of the anima that does not run.   *)
Compact(a) ==
    /\ archived' = [t \in Tasks |-> \/ archived[t]
                                    \/ /\ Owner[t] = a
                                       /\ current[t] = 0
                                       /\ status[t] \in Terminal]
    /\ UNCHANGED <<status, input, ready, current, attempts, wakeVars, paused>>

-----------------------------------------------------------------------------
(* Every method, by every caller.                                          *)

Next ==
    \/ \E t \in Tasks :
          \/ \E k \in Callers(t), s \in LiveStatus : ApplyUpdate(t, k, s)
          \/ \E s \in {"pending", "in_progress"} : ApplyEntry(t, s)
          \/ \E k \in Callers(t), p \in Payloads[t] : Submit(t, k, p)
          \/ \E k \in Callers(t) : Resubmit(t, k)
          \/ \E k \in Callers(t) : Resume(t, k)
          \/ \E p \in Procs : Claim(t, p)
          \/ ClaimPark(t)
          \/ \E n \in DOMAIN attempts[t], p \in Procs : SetIdentity(t, n, p)
          \/ \E n \in DOMAIN attempts[t], s \in {"pending"} \union Terminal : Finish(t, n, s)
          \/ \E w \in outbox[t] : Acknowledge(t, w)
    \/ \E a \in Animas, b \in BOOLEAN : PauseClaims(a, b)
    \/ \E a \in Animas : Compact(a)

Spec == Init /\ [][Next]_storeVars

-----------------------------------------------------------------------------
(* Properties.                                                             *)

(* Type invariant: every column holds a value of its declared type.        *)
TypeOK ==
    /\ status \in [Tasks -> LiveStatus \union {"absent"}]
    /\ input \in [Tasks -> Payload \union {NoInput}]
    /\ ready \in [Tasks -> BOOLEAN]
    /\ archived \in [Tasks -> BOOLEAN]
    /\ current \in [Tasks -> Nat]
    /\ attempts \in [Tasks -> Seq(Attempt)]
    /\ outbox \in [Tasks -> SUBSET Notices]
    /\ settled \in [Tasks -> SUBSET Notices]
    /\ paused \in [Animas -> BOOLEAN]

(* The ready queue pending() lists only work that can be run: it has an    *)
(* input, no attempt runs it, nobody closed it and it is not archived.     *)
ReadyIsRunnable ==
    \A t \in Tasks : ready[t] =>
        /\ input[t] # NoInput
        /\ current[t] = 0
        /\ status[t] \notin Terminal \union {"absent"}
        /\ ~archived[t]

(* compact() never hides unfinished work, and nothing revives an archived  *)
(* row without bringing it back into view: an archived task is closed and  *)
(* idle.                                                                   *)
ArchivedIsClosed ==
    \A t \in Tasks : archived[t] => status[t] \in Terminal /\ current[t] = 0 /\ ~ready[t]

(* The two tables agree on what runs: the attempt current_attempt names is *)
(* the newest one and the only one without ended_at, and its task keeps    *)
(* the input it was given.  finish(), set_identity() and the recovery of   *)
(* dead owners trust this.                                                 *)
OneOpenAttempt ==
    \A t \in Tasks :
        /\ \A n \in DOMAIN attempts[t] : attempts[t][n].ended <=> current[t] # n
        /\ current[t] \in {0, Len(attempts[t])}
        /\ current[t] # 0 => input[t] # NoInput

(* Two running tasks of one batch are both parallel, whichever was claimed *)
(* first, although claim() only ever looks at the rows of the moment.      *)
BatchExclusive ==
    \A t, u \in Tasks :
        /\ t # u
        /\ Owner[t] = Owner[u]
        /\ current[t] # 0
        /\ current[u] # 0
        /\ input[t].batch # 0
        /\ input[t].batch = input[u].batch
        => input[t].parallel /\ input[u].parallel

(* The worker pool handed to claim() is never overrun.                     *)
ActiveBounded ==
    \A a \in Animas : Cardinality(Active(a)) <= MaxActive

(* A notice is about a run that is over, and is open or settled but not    *)
(* both.  So the INSERT OR IGNORE of finish() can never meet a row of its  *)
(* own attempt and drop the notice it was about to leave.                  *)
NoticesOfEndedRuns ==
    \A t \in Tasks :
        /\ outbox[t] \intersect settled[t] = {}
        /\ \A w \in outbox[t] \union settled[t] :
              w.reason # "dependency_cancelled" => w.of \in DOMAIN attempts[t] /\ w.of # current[t]

(* A cancel sticks while its attempt runs: whatever the attempt, a stale   *)
(* one or an outside caller writes, the row stays cancelled until the      *)
(* attempt has stopped, and stopping keeps it cancelled.                   *)
CancelSticks ==
    [][\A t \in Tasks : status[t] = "cancelled" /\ current[t] # 0 => status'[t] = "cancelled"]_storeVars

(* Attempt history is append-only: an ended attempt keeps its record, and  *)
(* an attempt is never ended twice or reopened.                            *)
HistoryAppendOnly ==
    [][\A t \in Tasks : \A n \in DOMAIN attempts[t] :
          /\ n \in DOMAIN attempts'[t]
          /\ attempts[t][n].ended => attempts'[t][n] = attempts[t][n]]_storeVars

(* Taking a task off the ready queue because of a cancelled dependency     *)
(* leaves something that tells its owner: "Cancellation and                *)
(* failed/interrupted attempts retain explicit evidence and attention      *)
(* reasons" (task-architecture.md).                                        *)
ParkingNotifies ==
    [][\A t \in Tasks :
          /\ ready[t] /\ ~ready'[t]
          /\ status[t] = "pending" /\ status'[t] = "pending"
          => outbox'[t] # {}]_storeVars

-----------------------------------------------------------------------------
(* The store implements the lifecycle of TaskLifecycle.                    *)

Phase == [t \in Tasks |-> IF current[t] # 0 THEN "running" ELSE IF ready[t] THEN "queued" ELSE "idle"]
Verdict == [t \in Tasks |-> IF status[t] \in Terminal THEN status[t] ELSE "open"]
Runs == [t \in Tasks |-> Len(attempts[t])]
Owed == [t \in Tasks |-> {n \in DOMAIN attempts[t] : AttemptNotice(n, "incomplete") \in outbox[t]}]

Lifecycle == INSTANCE TaskLifecycle
                 WITH Jobs <- Tasks, phase <- Phase, verdict <- Verdict, runs <- Runs, owed <- Owed

(* Every sequence of store operations, by any callers, is a sequence of    *)
(* grants, starts and stops as TaskLifecycle allows: no run without a new  *)
(* publish or resume, and no unfinished run without a notice.              *)
ImplementsLifecycle == Lifecycle!Spec

=============================================================================
