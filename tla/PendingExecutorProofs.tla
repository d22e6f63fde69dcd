----------------------- MODULE PendingExecutorProofs -----------------------
(* Proofs about PendingExecutor: its inductive invariant; the executor     *)
(* makes only calls the store allows; coroutines, sessions and recovery    *)
(* stay in step with the attempts of the store; the delivery of notices.   *)
EXTENDS PendingExecutor, TaskStoreProofs

(* Zenon takes the leaves; those with arithmetic, sequences or records     *)
(* cite SMT.                                                               *)
USE Zenon

-----------------------------------------------------------------------------
(* The inductive invariant.                                                *)

Over == {"returned", "syncing", "ended", "closing"}

(* The attempt of the coroutine is the open one, and its outcome is one    *)
(* that finish() knows.                                                    *)
Coroutine(t) ==
    /\ Len(attempts[t]) <= MaxAttempts
    /\ work[t].pc # "none" => up /\ work[t].n # 0 /\ current[t] = work[t].n
    /\ work[t].pc \in {"syncing", "closing"} => work[t].val \in Outcomes

(* How far the session of the coroutine's attempt can be.                  *)
Session(t) ==
    LET n == work[t].n IN
    /\ work[t].pc = "dispatched" => body[t][n] = "none"
    /\ work[t].pc = "spawned" => isolated /\ body[t][n] \in {"booting", "gone"}
    /\ work[t].pc = "awaiting" =>
          IF isolated THEN attempts[t][n].owner = ChildId(t, n) ELSE body[t][n] \in {"executing", "gone"}
    /\ work[t].pc \in Over => body[t][n] \in {"none", "gone"}

(* A session that has its contract holds the open attempt.  It is recorded *)
(* as the owner, or runs in a root whose coroutine waits for it.           *)
Owned(t) ==
    \A n \in Numbers :
        /\ body[t][n] # "none" => n <= Len(attempts[t])
        /\ body[t][n] \in {"contracted", "executing"} =>
              /\ current[t] = n
              /\ \/ attempts[t][n].owner = ChildId(t, n)
                 \/ ~isolated /\ work[t].pc = "awaiting" /\ work[t].n = n

Run(t) == Coroutine(t) /\ Session(t) /\ Owned(t)

RunInv == \A t \in Tasks : Run(t)

(* What recovery has read stays true until it finishes the attempt.        *)
RecoveryInv ==
    \A c \in recovering : work[c.task].pc = "none" /\ body[c.task][c.n] \notin {"contracted", "executing"}

(* A task that owes a notice has its input for good, so the addressees of  *)
(* a notice do not change while it is delivered.                           *)
Owing == \A t \in Tasks : outbox[t] # {} => input[t] # NoInput

DeliveryInv ==
    \A d \in delivering :
        /\ input[d.task] # NoInput
        /\ \A r \in Addressees(d.task, d.notice) \ d.left :
              Message(d.task, d.notice) \in inbox[r] \union handled[r]

ExecInv == ExecTypeOK /\ RunInv /\ RecoveryInv /\ Owing /\ DeliveryInv /\ ReadOnce

(* The invariant holds before the first root starts.                       *)
LEMMA InitExecInv == ExecInit => StoreInv /\ ExecInv
<1> SUFFICES ASSUME ExecInit PROVE StoreInv /\ ExecInv
  OBVIOUS
<1>1. StoreInv
  BY InitStoreInv DEF ExecInit
<1>2. ExecTypeOK
  <2>1. 0 \in 0 .. MaxEpochs /\ 0 \in 0 .. MaxAttempts
    BY ExecutorAssumption, BoundAssumption, SMT
  <2>2. NoWork \in [pc : Stages, n : Nat, val : Values]
    BY DEF NoWork, Stages, Values
  <2>3. inbox \in [Recipients -> SUBSET Mail] /\ handled \in [Recipients -> SUBSET Mail]
    BY DEF ExecInit
  <2>4. body \in [Tasks -> [Numbers -> BodyState]] /\ author \in [Tasks -> 0 .. MaxAttempts]
    BY <2>1 DEF ExecInit, BodyState
  <2>5. work \in [Tasks -> [pc : Stages, n : Nat, val : Values]]
    BY <2>2 DEF ExecInit
  <2> QED BY <2>1, <2>3, <2>4, <2>5 DEF ExecInit, ExecTypeOK
<1>3. RunInv
  BY BoundAssumption, SMT DEF ExecInit, Init, RunInv, Run, Coroutine, Session, Owned, NoWork, Over, Numbers
<1>4. RecoveryInv /\ Owing /\ DeliveryInv /\ ReadOnce
  BY DEF ExecInit, Init, RecoveryInv, Owing, DeliveryInv, ReadOnce
<1> QED BY <1>1, <1>2, <1>3, <1>4 DEF ExecInv

-----------------------------------------------------------------------------
(* Facts about processes and attempts.                                     *)

(* Roots and children are processes the store may record.                  *)
LEMMA Processes ==
    /\ ExecTypeOK /\ up => RootId(epoch) \in Procs
    /\ \A t \in Tasks, n \in Numbers : ChildId(t, n) \in Procs
<1>1. ASSUME ExecTypeOK, up PROVE RootId(epoch) \in Procs
  <2>1. epoch \in 1 .. MaxEpochs
    BY <1>1, ExecutorAssumption, SMT DEF ExecTypeOK
  <2> QED BY <2>1, ProcsAssumption, SMT DEF ExecutorProcs
<1>2. ASSUME NEW t \in Tasks, NEW n \in Numbers PROVE ChildId(t, n) \in Procs
  BY <1>2, ProcsAssumption, SMT DEF ExecutorProcs
<1> QED BY <1>1, <1>2

(* The open attempt of a task is its newest.                               *)
LEMMA OpenAttempt ==
    ASSUME StoreInv, NEW t \in Tasks
    PROVE  /\ Len(attempts[t]) \in Nat /\ DOMAIN attempts[t] = 1 .. Len(attempts[t])
           /\ current[t] # 0 => /\ current[t] = Len(attempts[t]) /\ current[t] \in DOMAIN attempts[t]
                               /\ ~attempts[t][current[t]].ended /\ input[t] # NoInput
<1>1. attempts[t] \in Seq(Attempt) /\ current[t] \in Nat
  BY DEF StoreInv, TypeOK
<1>2. Len(attempts[t]) \in Nat /\ DOMAIN attempts[t] = 1 .. Len(attempts[t])
  BY <1>1, SMT
<1>3. current[t] # 0 => current[t] = Len(attempts[t]) /\ input[t] # NoInput
  BY DEF StoreInv, OneOpenAttempt
<1>4. \A n \in DOMAIN attempts[t] : attempts[t][n].ended <=> current[t] # n
  BY DEF StoreInv, OneOpenAttempt
<1> QED BY <1>1, <1>2, <1>3, <1>4, SMT

(* A coroutine works on the open attempt of its task.                      *)
LEMMA CoroutineAttempt ==
    ASSUME StoreInv, ExecTypeOK, RunInv, NEW t \in Tasks, work[t].pc # "none"
    PROVE  /\ up /\ work[t].n \in Numbers /\ current[t] = work[t].n
           /\ work[t].n = Len(attempts[t]) /\ work[t].n \in DOMAIN attempts[t]
           /\ ~attempts[t][work[t].n].ended
<1>1. Coroutine(t)
  BY DEF RunInv, Run
<1>2. up /\ work[t].n # 0 /\ current[t] = work[t].n /\ Len(attempts[t]) <= MaxAttempts
  BY <1>1 DEF Coroutine
<1> QED BY <1>2, OpenAttempt, BoundAssumption, SMT DEF Numbers

-----------------------------------------------------------------------------
(* Every step of the executor is a call of the store, or leaves it alone.  *)

(* The central fact of the refinement, one step per action.                *)
LEMMA StoreStep ==
    ASSUME StoreInv, ExecInv, [ExecNext]_vars
    PROVE  [Next]_storeVars
<1> USE DEF ExecInv
<1>1. CASE RootStart \/ RootCrash \/ RootStop \/ RootDrain \/ RootExit \/ DeliverFails \/ UNCHANGED vars
  BY <1>1 DEF RootStart, RootCrash, RootStop, RootDrain, RootExit, DeliverFails, vars
<1>2. ASSUME NEW t \in Tasks, TaskStep(t) PROVE [Next]_storeVars
  <2>1. CASE Spawn(t) \/ SpawnFails(t) \/ FailureNoticed(t) \/ KillCancelled(t) \/ CancelDispatch(t) \/ SyncRead(t) \/ CloseRead(t)
    BY <2>1 DEF Spawn, SpawnFails, FailureNoticed, KillCancelled, CancelDispatch, SyncRead, CloseRead
  <2>2. CASE RootClaim(t)
    <3>1. RootId(epoch) \in Procs /\ Claim(t, RootId(epoch))
      BY <2>2, Processes DEF RootClaim, LoopRuns, RootFree
    <3> QED BY <3>1 DEF Next
  <2>3. CASE RootPark(t)
    BY <2>3 DEF RootPark, Next
  <2>4. CASE RegisterChild(t)
    <3>1. work[t].n \in Numbers /\ work[t].n \in DOMAIN attempts[t]
      BY <2>4, CoroutineAttempt DEF RegisterChild
    <3>2. ChildId(t, work[t].n) \in Procs
      BY <3>1, Processes
    <3>3. UNCHANGED storeVars \/ SetIdentity(t, work[t].n, ChildId(t, work[t].n))
      BY <2>4 DEF RegisterChild
    <3> QED BY <3>1, <3>2, <3>3 DEF Next
  <2>5. CASE SyncWrite(t)
    <3>1. work[t].n = Len(attempts[t]) /\ work[t].n \in Callers(t)
      BY <2>5, CoroutineAttempt, OpenAttempt, SMT DEF SyncWrite, Callers
    <3>2. work[t].val \in LiveStatus
      BY <2>5 DEF SyncWrite, RunInv, Run, Coroutine, Outcomes, LiveStatus
    <3>3. UNCHANGED storeVars \/ ApplyUpdate(t, work[t].n, work[t].val)
      BY <2>5 DEF SyncWrite
    <3> QED BY <3>1, <3>2, <3>3 DEF Next
  <2>6. CASE CloseFinish(t)
    <3>1. work[t].n \in DOMAIN attempts[t]
      BY <2>6, CoroutineAttempt DEF CloseFinish
    <3>2. work[t].val \in {"pending"} \union Terminal
      BY <2>6 DEF CloseFinish, RunInv, Run, Coroutine, Outcomes
    <3>3. UNCHANGED storeVars \/ Finish(t, work[t].n, work[t].val)
      BY <2>6 DEF CloseFinish
    <3> QED BY <3>1, <3>2, <3>3 DEF Next
  <2> QED BY <1>2, <2>1, <2>2, <2>3, <2>4, <2>5, <2>6 DEF TaskStep
<1>3. ASSUME NEW t \in Tasks, NEW n \in Numbers, AttemptStep(t, n) PROVE [Next]_storeVars
  <2>1. CASE ChildContract(t, n) \/ SessionEnds(t, n) \/ SessionFails(t, n) \/ OrphanExits(t, n) \/ RecoverRead(t, n)
    BY <2>1 DEF ChildContract, SessionEnds, SessionFails, OrphanExits, RecoverRead
  <2>2. CASE ChildBegin(t, n)
    <3>1. ChildId(t, n) \in Procs /\ SetIdentity(t, n, ChildId(t, n))
      BY <2>2, Processes DEF ChildBegin
    <3>2. n \in DOMAIN attempts[t]
      BY <3>1 DEF SetIdentity
    <3> QED BY <3>1, <3>2 DEF Next
  <2>3. ASSUME NEW s \in Declarable, Declare(t, n, s) PROVE [Next]_storeVars
    <3>1. n <= Len(attempts[t])
      BY <2>3 DEF Declare, RunInv, Run, Owned
    <3>2. n \in Callers(t)
      BY <3>1, OpenAttempt, SMT DEF Numbers, Callers
    <3>3. s \in LiveStatus /\ ApplyUpdate(t, n, s)
      BY <2>3 DEF Declare, Declarable, LiveStatus, Terminal
    <3> QED BY <3>2, <3>3 DEF Next
  <2> QED BY <1>3, <2>1, <2>2, <2>3 DEF AttemptStep
<1>4. ASSUME NEW t \in Tasks, OtherStep(t) PROVE [Next]_storeVars
  <2>0. 0 \in Callers(t)
    BY OpenAttempt, SMT DEF Callers
  <2>1. ASSUME NEW p \in Payloads[t], OtherSubmits(t, p) PROVE [Next]_storeVars
    BY <2>0, <2>1 DEF OtherSubmits, Next
  <2>2. CASE OtherResubmits(t)
    BY <2>0, <2>2 DEF OtherResubmits, Next
  <2>3. ASSUME NEW s \in Declarable, OtherUpdates(t, s) PROVE [Next]_storeVars
    <3>1. s \in LiveStatus
      BY DEF Declarable, LiveStatus, Terminal
    <3> QED BY <2>0, <2>3, <3>1 DEF OtherUpdates, Next
  <2>4. CASE OtherReopens(t)
    BY <2>0, <2>4 DEF OtherReopens, Next
  <2> QED BY <1>4, <2>1, <2>2, <2>3, <2>4 DEF OtherStep
<1>5. CASE RecoverFinish
  <2>1. PICK c \in recovering : UNCHANGED storeVars \/ Finish(c.task, c.n, c.val)
    BY <1>5 DEF RecoverFinish
  <2>2. c.task \in Tasks /\ c.val \in {"pending"} \union Terminal
    BY DEF ExecTypeOK, Outcomes
  <2>3. Finish(c.task, c.n, c.val) => c.n \in DOMAIN attempts[c.task]
    BY DEF Finish
  <2> QED BY <2>1, <2>2, <2>3 DEF Next
<1>6. ASSUME NEW t \in Tasks, NEW w, DeliverPick(t, w) PROVE [Next]_storeVars
  BY <1>6 DEF DeliverPick
<1>7. ASSUME NEW r, DeliverSend(r) \/ \E m : Handle(r, m) PROVE [Next]_storeVars
  BY <1>7 DEF DeliverSend, Handle
<1>8. CASE DeliverAck
  <2>1. PICK d \in delivering : UNCHANGED storeVars \/ (d.notice \in outbox[d.task] /\ Acknowledge(d.task, d.notice))
    BY <1>8 DEF DeliverAck
  <2>2. d.task \in Tasks
    BY DEF ExecTypeOK
  <2> QED BY <2>1, <2>2 DEF Next
<1>9. ASSUME NEW a \in Animas, OtherCompacts(a) PROVE [Next]_storeVars
  BY <1>9 DEF OtherCompacts, Next
<1> QED BY <1>1, <1>2, <1>3, <1>4, <1>5, <1>6, <1>7, <1>8, <1>9 DEF ExecNext

-----------------------------------------------------------------------------
(* Steps of one task: its coroutine, its session and its row.              *)

WorkRecord == [pc : Stages, n : Nat, val : Values]

(* The coroutine of t is now at p, with attempt k and value v.             *)
WorkIs(t, p, k, v) ==
    /\ work' \in [Tasks -> WorkRecord]
    /\ work'[t].pc = p /\ work'[t].n = k /\ work'[t].val = v
    /\ \A u \in Tasks \ {t} : work'[u] = work[u]

(* Reading back a coroutine that was assigned as a whole, ...              *)
LEMMA WorkWritten ==
    ASSUME ExecTypeOK, NEW t \in Tasks, NEW p \in Stages, NEW k \in Nat, NEW v \in Values,
           work' = [work EXCEPT ![t] = Working(p, k, v)]
    PROVE  WorkIs(t, p, k, v)
<1>1. Working(p, k, v) \in WorkRecord /\ work \in [Tasks -> WorkRecord]
  BY DEF Working, WorkRecord, ExecTypeOK
<1>2. work'[t] = Working(p, k, v) /\ work' \in [Tasks -> WorkRecord] /\ \A u \in Tasks \ {t} : work'[u] = work[u]
  BY <1>1
<1>3. Working(p, k, v).pc = p /\ Working(p, k, v).n = k /\ Working(p, k, v).val = v
  BY DEF Working
<1> QED BY <1>2, <1>3 DEF WorkIs

(* ... that only moved on, ...                                             *)
LEMMA StageWritten ==
    ASSUME ExecTypeOK, NEW t \in Tasks, NEW p \in Stages, work' = [work EXCEPT ![t].pc = p]
    PROVE  WorkIs(t, p, work[t].n, work[t].val)
<1> DEFINE r == [work[t] EXCEPT !.pc = p]
<1>1. work[t] \in WorkRecord /\ work \in [Tasks -> WorkRecord]
  BY DEF WorkRecord, ExecTypeOK
<1>2. r \in WorkRecord /\ r.pc = p /\ r.n = work[t].n /\ r.val = work[t].val
  BY <1>1 DEF WorkRecord
<1>3. work' = [work EXCEPT ![t] = r]
  OBVIOUS
<1> HIDE DEF r
<1>4. work'[t] = r /\ work' \in [Tasks -> WorkRecord] /\ \A u \in Tasks \ {t} : work'[u] = work[u]
  BY <1>1, <1>2, <1>3
<1> QED BY <1>2, <1>4 DEF WorkIs

(* ... or that is over.                                                    *)
LEMMA WorkCleared ==
    ASSUME ExecTypeOK, NEW t \in Tasks, work' = [work EXCEPT ![t] = NoWork]
    PROVE  WorkIs(t, "none", 0, "none")
<1>1. "none" \in Stages /\ "none" \in Values /\ 0 \in Nat
  BY DEF Stages, Values
<1> QED BY <1>1, WorkWritten DEF NoWork, Working

(* Session n of t is now x.                                                *)
BodyIs(t, n, x) ==
    /\ body' \in [Tasks -> [Numbers -> BodyState]]
    /\ body'[t][n] = x
    /\ \A m \in Numbers \ {n} : body'[t][m] = body[t][m]
    /\ \A u \in Tasks \ {t} : body'[u] = body[u]

(* Reading back a session that changed, ...                                *)
LEMMA BodyWritten ==
    ASSUME ExecTypeOK, NEW t \in Tasks, NEW n \in Numbers, NEW x \in BodyState, body' = [body EXCEPT ![t][n] = x]
    PROVE  BodyIs(t, n, x)
<1>1. body \in [Tasks -> [Numbers -> BodyState]] /\ body[t] \in [Numbers -> BodyState]
  BY DEF ExecTypeOK
<1> DEFINE f == [body[t] EXCEPT ![n] = x]
<1>2. f \in [Numbers -> BodyState] /\ f[n] = x /\ \A m \in Numbers \ {n} : f[m] = body[t][m]
  BY <1>1
<1>3. body' = [body EXCEPT ![t] = f]
  OBVIOUS
<1> HIDE DEF f
<1> QED BY <1>1, <1>2, <1>3 DEF BodyIs

(* ... or did not.                                                         *)
LEMMA BodyUntouched ==
    ASSUME ExecTypeOK, NEW t \in Tasks, NEW n \in Numbers, body' = body
    PROVE  BodyIs(t, n, body[t][n])
  BY DEF ExecTypeOK, BodyIs

RowIs(t) == \A u \in Tasks \ {t} : attempts'[u] = attempts[u] /\ current'[u] = current[u]

SameRoot == up' = up /\ isolated' = isolated

(* Only task t has to be looked at when the rest stays as it is.           *)
LEMMA OneTask ==
    ASSUME RunInv, NEW t \in Tasks, SameRoot, RowIs(t), Run(t)',
           \A u \in Tasks \ {t} : work'[u] = work[u] /\ body'[u] = body[u]
    PROVE  RunInv'
<1>1. ASSUME NEW u \in Tasks \ {t} PROVE Run(u)'
  <2>1. Run(u) /\ work'[u] = work[u] /\ body'[u] = body[u] /\ attempts'[u] = attempts[u] /\ current'[u] = current[u]
    BY DEF RunInv, RowIs
  <2>2. Coroutine(u)'
    BY <2>1 DEF SameRoot, Run, Coroutine
  <2>3. Session(u)'
    BY <2>1 DEF SameRoot, Run, Session
  <2>4. Owned(u)'
    BY <2>1 DEF SameRoot, Run, Owned
  <2> QED BY <2>2, <2>3, <2>4 DEF Run
<1> QED BY <1>1 DEF RunInv

(* A step of the coroutine of t in the root's memory.                      *)
LEMMA CoroutineStep ==
    ASSUME StoreInv, ExecInv, RootFree, NEW t \in Tasks, work[t].pc # "none",
           UNCHANGED <<current, attempts, rootVars, loopVars, mailVars, author>>,
           NEW p \in Stages \ {"none"}, NEW v \in Values, NEW x \in BodyState,
           WorkIs(t, p, work[t].n, v), BodyIs(t, work[t].n, x),
           p \in {"syncing", "closing"} => v \in Outcomes,
           p = "dispatched" => x = "none",
           p = "spawned" => isolated /\ x \in {"booting", "gone"},
           p = "awaiting" => IF isolated THEN attempts[t][work[t].n].owner = ChildId(t, work[t].n)
                                         ELSE x \in {"executing", "gone"},
           p \in Over => x \in {"none", "gone"},
           x \in {"contracted", "executing"} => x = body[t][work[t].n] \/ (~isolated /\ p = "awaiting"),
           body[t][work[t].n] \in {"contracted", "executing"} /\ x = body[t][work[t].n] => p = work[t].pc
    PROVE  ExecTypeOK' /\ RunInv' /\ RecoveryInv'
<1> USE DEF ExecInv
<1>1. ExecTypeOK'
  BY DEF ExecTypeOK, WorkIs, BodyIs, rootVars, loopVars, mailVars, WorkRecord
<1>2. /\ up /\ work[t].n \in Numbers /\ current[t] = work[t].n /\ work[t].n = Len(attempts[t])
  BY CoroutineAttempt
<1>3. Run(t)
  BY DEF RunInv
<1>4. Coroutine(t)'
  BY <1>2, <1>3 DEF Run, Coroutine, WorkIs, rootVars, Numbers
<1>5. Session(t)'
  BY <1>2, <1>3 DEF Session, WorkIs, BodyIs, rootVars, Over
<1>6. Owned(t)'
  <2> SUFFICES ASSUME NEW n \in Numbers
               PROVE  /\ body'[t][n] # "none" => n <= Len(attempts[t])
                      /\ body'[t][n] \in {"contracted", "executing"} =>
                            /\ current[t] = n
                            /\ \/ attempts[t][n].owner = ChildId(t, n)
                               \/ ~isolated /\ work'[t].pc = "awaiting" /\ work'[t].n = n
    BY DEF Owned, rootVars, ChildId
  <2>1. CASE n = work[t].n
    BY <1>2, <1>3, <2>1, SMT DEF Run, Owned, WorkIs, BodyIs, Numbers
  <2>2. CASE n # work[t].n
    BY <1>2, <1>3, <2>2 DEF Run, Owned, WorkIs, BodyIs
  <2> QED BY <2>1, <2>2
<1>7. RunInv'
  BY <1>4, <1>5, <1>6, OneTask DEF Run, SameRoot, RowIs, WorkIs, BodyIs, rootVars
<1>8. RecoveryInv'
  BY DEF RootFree, RecoveryInv, loopVars
<1> QED BY <1>1, <1>7, <1>8

-----------------------------------------------------------------------------
(* Coroutines, sessions and recovery stay in step with the attempts.       *)

(* The steps of a coroutine that write nothing to the store.               *)
LEMMA CoroutineKeeps ==
    ASSUME StoreInv, ExecInv, NEW t \in Tasks,
           \/ Spawn(t) \/ SpawnFails(t) \/ FailureNoticed(t) \/ KillCancelled(t) \/ CancelDispatch(t)
           \/ SyncRead(t) \/ CloseRead(t)
    PROVE  ExecTypeOK' /\ RunInv' /\ RecoveryInv'
<1> USE DEF ExecInv
<1> DEFINE n == work[t].n
           x == body[t][n]
<1>0. RootFree /\ work[t].pc # "none" /\ UNCHANGED <<current, attempts, rootVars, loopVars, mailVars, author>>
  BY DEF Spawn, SpawnFails, FailureNoticed, KillCancelled, CancelDispatch, SyncRead, CloseRead, storeVars, rowVars
<1>1. n \in Numbers /\ n \in Nat /\ x \in BodyState /\ "gone" \in BodyState
  BY <1>0, CoroutineAttempt DEF ExecTypeOK, BodyState, Numbers
<1>2. Session(t) /\ Owned(t) /\ work[t] \in WorkRecord /\ work[t].val \in Values
  BY DEF RunInv, Run, ExecTypeOK, WorkRecord
<1>3. {"error", "none"} \subseteq Values /\ {"returned", "ended", "closing", "syncing", "spawned", "awaiting"} \subseteq Stages \ {"none"}
  BY DEF Values, Stages
<1> HIDE DEF n, x
<1>4. CASE Spawn(t)
  <2> DEFINE p == IF isolated THEN "spawned" ELSE "awaiting"
             y == IF isolated THEN "booting" ELSE "executing"
  <2>1. p \in Stages \ {"none"} /\ y \in BodyState
    BY <1>3 DEF BodyState, LiveBody
  <2>2. WorkIs(t, p, n, work[t].val)
    BY <1>4, <2>1, StageWritten DEF Spawn, n
  <2>3. BodyIs(t, n, y)
    BY <1>1, <1>4, <2>1, BodyWritten DEF Spawn, n
  <2>4. x = "none"
    BY <1>2, <1>4 DEF Spawn, Session, n, x
  <2> QED BY <1>0, <1>2, <2>1, <2>2, <2>3, <2>4, CoroutineStep DEF n, x, Over
<1>5. CASE SpawnFails(t) \/ FailureNoticed(t)
  <2>1. WorkIs(t, "returned", n, "error")
    BY <1>1, <1>3, <1>5, WorkWritten DEF SpawnFails, FailureNoticed, n
  <2>2. BodyIs(t, n, x) /\ x \in {"none", "gone"}
    BY <1>1, <1>2, <1>5, BodyUntouched DEF SpawnFails, FailureNoticed, Session, n, x
  <2> QED BY <1>0, <1>1, <1>3, <2>1, <2>2, CoroutineStep DEF n, x
<1>6. CASE KillCancelled(t)
  <2>1. BodyIs(t, n, "gone") /\ x \in LiveBody
    BY <1>1, <1>6, BodyWritten DEF KillCancelled, n, x
  <2>2. CASE isolated
    <3>1. WorkIs(t, "awaiting", n, work[t].val)
      BY <1>2, <1>6, <2>2 DEF KillCancelled, WorkIs, WorkRecord, ExecTypeOK, n
    <3> QED BY <1>0, <1>1, <1>2, <1>3, <1>6, <2>1, <2>2, <3>1, CoroutineStep DEF KillCancelled, Session, LiveBody, n, x, Over
  <2>3. CASE ~isolated
    <3>1. WorkIs(t, "ended", n, "none")
      BY <1>1, <1>3, <1>6, <2>3, WorkWritten DEF KillCancelled, n
    <3> QED BY <1>0, <1>1, <1>3, <2>1, <3>1, CoroutineStep DEF LiveBody, n, x
  <2> QED BY <2>2, <2>3
<1>7. CASE CancelDispatch(t)
  <2> DEFINE y == IF x \in LiveBody THEN "gone" ELSE x
  <2>1. y \in BodyState /\ y \in {"none", "gone"}
    BY <1>1 DEF BodyState
  <2>2. body' = [body EXCEPT ![t][n] = y]
    BY <1>7 DEF CancelDispatch, n, x
  <2>3. BodyIs(t, n, y)
    BY <1>1, <2>1, <2>2, BodyWritten
  <2>4. WorkIs(t, "ended", n, "none")
    BY <1>1, <1>3, <1>7, WorkWritten DEF CancelDispatch, n
  <2> QED BY <1>0, <1>3, <2>1, <2>3, <2>4, CoroutineStep DEF n, x
<1>8. CASE SyncRead(t)
  <2>1. Outcome(work[t].val) \in Outcomes /\ Outcomes \subseteq Values
    BY DEF Outcome, Outcomes, Terminal, Values
  <2>2. BodyIs(t, n, x) /\ x \in {"none", "gone"}
    BY <1>1, <1>2, <1>8, BodyUntouched DEF SyncRead, Session, Over, n, x
  <2>3. \/ work' = [work EXCEPT ![t] = Working("ended", n, "none")]
        \/ work' = [work EXCEPT ![t] = Working("syncing", n, Outcome(work[t].val))]
    BY <1>8 DEF SyncRead, n
  <2>4. WorkIs(t, "ended", n, "none") \/ WorkIs(t, "syncing", n, Outcome(work[t].val))
    BY <1>1, <1>3, <2>1, <2>3, WorkWritten
  <2> QED BY <1>0, <1>1, <1>3, <2>1, <2>2, <2>4, CoroutineStep DEF n, x
<1>9. CASE CloseRead(t)
  <2>1. Seen(t) \in Outcomes /\ Outcomes \subseteq Values
    BY DEF Seen, Outcomes, Values
  <2>2. BodyIs(t, n, x) /\ x \in {"none", "gone"}
    BY <1>1, <1>2, <1>9, BodyUntouched DEF CloseRead, Session, Over, n, x
  <2>3. WorkIs(t, "closing", n, Seen(t))
    BY <1>1, <1>3, <1>9, <2>1, WorkWritten DEF CloseRead, n
  <2> QED BY <1>0, <1>1, <1>3, <2>1, <2>2, <2>3, CoroutineStep DEF n, x
<1> QED BY <1>4, <1>5, <1>6, <1>7, <1>8, <1>9

(* A claim starts the coroutine of a task that had none, with an attempt   *)
(* no session knows.                                                       *)
LEMMA RootClaimKeeps ==
    ASSUME StoreInv, ExecInv, NEW t \in Tasks, RootClaim(t)
    PROVE  ExecTypeOK' /\ RunInv' /\ RecoveryInv'
<1> USE DEF ExecInv
<1> DEFINE k == Len(attempts[t]) + 1
<1>1. LoopRuns /\ RootFree /\ up /\ Claim(t, RootId(epoch)) /\ RootId(epoch) \in Procs /\ current[t] = 0
  BY Processes DEF RootClaim, LoopRuns, RootFree, Claim, Claimable, RowReady
<1>2. UNCHANGED <<rootVars, body, loopVars, mailVars, author>>
  BY DEF RootClaim
<1>3. /\ \A u \in Tasks \ {t} : attempts'[u] = attempts[u]
      /\ Len(attempts'[t]) = k
  BY <1>1, ClaimAttempts DEF StoreInv
<1>4. k \in Numbers /\ k \in Nat /\ Len(attempts[t]) \in Nat
  BY <1>1, OpenAttempt, BoundAssumption, SMT DEF Claim, Numbers
<1>5. current' = [current EXCEPT ![t] = k] /\ current \in [Tasks -> Nat]
  BY <1>1 DEF Claim, StoreInv, TypeOK
<1>6. WorkIs(t, "dispatched", k, "none")
  BY <1>4, WorkWritten DEF RootClaim, Stages, Values
<1> HIDE DEF k
<1>7. ExecTypeOK'
  BY <1>2, <1>6 DEF ExecTypeOK, WorkIs, WorkRecord, rootVars, loopVars, mailVars
<1>8. Run(t) /\ \A n \in Numbers : body[t][n] \notin {"contracted", "executing"}
  BY <1>1, SMT DEF RunInv, Run, Owned, Numbers
<1>9. body[t][k] = "none" /\ \A n \in Numbers : body[t][n] # "none" => n <= k
  BY <1>4, <1>8, SMT DEF Run, Owned, Numbers, k
<1>10. Run(t)'
  <2>1. Coroutine(t)'
    BY <1>1, <1>2, <1>3, <1>4, <1>5, <1>6, SMT DEF Coroutine, WorkIs, rootVars, Numbers
  <2>2. Session(t)'
    BY <1>2, <1>6, <1>9 DEF Session, WorkIs, Over
  <2>3. Owned(t)'
    BY <1>2, <1>3, <1>8, <1>9 DEF Owned
  <2> QED BY <2>1, <2>2, <2>3 DEF Run
<1>11. RunInv'
  BY <1>2, <1>3, <1>5, <1>6, <1>10, OneTask DEF SameRoot, RowIs, WorkIs, rootVars
<1>12. RecoveryInv'
  BY <1>1, <1>2 DEF RootFree, RecoveryInv, loopVars
<1> QED BY <1>7, <1>11, <1>12

-----------------------------------------------------------------------------
(* Steps of a session, and of the processes that own attempts.             *)

(* set_identity() changes the owner of one attempt and nothing else.       *)
LEMMA IdentityWritten ==
    ASSUME StoreInv, NEW t \in Tasks, NEW n \in DOMAIN attempts[t], NEW p \in Procs, SetIdentity(t, n, p)
    PROVE  /\ RowIs(t) /\ current' = current
           /\ Len(attempts'[t]) = Len(attempts[t])
           /\ attempts'[t][n].owner = p
           /\ \A m \in DOMAIN attempts[t] \ {n} : attempts'[t][m] = attempts[t][m]
<1> DEFINE r == [attempts[t][n] EXCEPT !.owner = p]
<1>1. TypeOK /\ attempts[t] \in Seq(Attempt) /\ attempts[t][n] \in Attempt
  BY SMT DEF StoreInv, TypeOK
<1>2. r \in Attempt /\ r.owner = p
  BY <1>1 DEF Attempt
<1>3. attempts' = [attempts EXCEPT ![t][n] = r] /\ current' = current
  BY DEF SetIdentity, rowVars
<1> HIDE DEF r
<1>4. /\ \A u \in Tasks : Len(attempts'[u]) = Len(attempts[u])
      /\ \A u \in Tasks : \A m \in DOMAIN attempts[u] :
            attempts'[u][m] = IF u = t /\ m = n THEN r ELSE attempts[u][m]
  BY <1>1, <1>2, <1>3, AttemptWrite
<1>5. \A u \in Tasks \ {t} : attempts'[u] = attempts[u]
  BY <1>1, <1>3 DEF TypeOK
<1> QED BY <1>2, <1>3, <1>4, <1>5, SMT DEF RowIs

(* on_spawned: the child becomes the owner.                                *)
LEMMA RegisterChildKeeps ==
    ASSUME StoreInv, ExecInv, NEW t \in Tasks, RegisterChild(t)
    PROVE  ExecTypeOK' /\ RunInv' /\ RecoveryInv'
<1> USE DEF ExecInv
<1> DEFINE n == work[t].n
<1>1. /\ up /\ n \in Numbers /\ n \in DOMAIN attempts[t] /\ ~attempts[t][n].ended
      /\ current[t] = n
  BY CoroutineAttempt DEF RegisterChild
<1>2. /\ RootFree /\ work[t].pc = "spawned" /\ SetIdentity(t, n, ChildId(t, n)) /\ ChildId(t, n) \in Procs
      /\ UNCHANGED <<rootVars, body, loopVars, mailVars, author>>
  BY <1>1, Processes DEF RegisterChild
<1>3. /\ RowIs(t) /\ current' = current /\ Len(attempts'[t]) = Len(attempts[t])
      /\ attempts'[t][n].owner = ChildId(t, n)
      /\ \A m \in DOMAIN attempts[t] \ {n} : attempts'[t][m] = attempts[t][m]
  BY <1>1, <1>2, IdentityWritten
<1>4. WorkIs(t, "awaiting", n, work[t].val)
  BY StageWritten DEF RegisterChild, Stages
<1>5. Run(t) /\ DOMAIN attempts[t] = 1 .. Len(attempts[t]) /\ Len(attempts[t]) \in Nat
  BY OpenAttempt DEF RunInv
<1> HIDE DEF n
<1>6. ExecTypeOK'
  BY <1>2, <1>4 DEF ExecTypeOK, WorkIs, WorkRecord, rootVars, loopVars, mailVars
<1>7. Coroutine(t)'
  BY <1>1, <1>2, <1>3, <1>4, <1>5 DEF Run, Coroutine, WorkIs, rootVars, Numbers
<1>8. Session(t)'
  BY <1>2, <1>3, <1>4, <1>5 DEF Run, Session, WorkIs, Over, rootVars, ChildId, n
<1>9. Owned(t)'
  <2> SUFFICES ASSUME NEW m \in Numbers
               PROVE  /\ body[t][m] # "none" => m <= Len(attempts[t])
                      /\ body[t][m] \in {"contracted", "executing"} =>
                            current[t] = m /\ attempts'[t][m].owner = ChildId(t, m)
    BY <1>2, <1>3 DEF Owned, ChildId
  <2>1. body[t][m] # "none" => m <= Len(attempts[t]) /\ m \in DOMAIN attempts[t]
    BY <1>5, SMT DEF Run, Owned, Numbers
  <2>2. body[t][m] \in {"contracted", "executing"} => m # n
    BY <1>2, <1>5 DEF Run, Session, n
  <2>3. body[t][m] \in {"contracted", "executing"} => current[t] = m /\ attempts[t][m].owner = ChildId(t, m)
    BY <1>2, <1>5 DEF Run, Owned
  <2> QED BY <1>3, <2>1, <2>2, <2>3
<1>10. RunInv'
  BY <1>2, <1>3, <1>4, <1>7, <1>8, <1>9, OneTask DEF Run, SameRoot, WorkIs, rootVars
<1>11. RecoveryInv'
  BY <1>2 DEF RootFree, RecoveryInv, loopVars
<1> QED BY <1>6, <1>10, <1>11

(* A session goes on: the child gets its contract, or records itself and   *)
(* executes.                                                               *)
LEMMA ChildKeeps ==
    ASSUME StoreInv, ExecInv, NEW t \in Tasks, NEW n \in Numbers, ChildContract(t, n) \/ ChildBegin(t, n)
    PROVE  ExecTypeOK' /\ RunInv' /\ RecoveryInv'
<1> USE DEF ExecInv
<1>0. UNCHANGED <<rootVars, work, loopVars, mailVars, author>> /\ {"contracted", "executing"} \subseteq BodyState
  BY DEF ChildContract, ChildBegin, BodyState, LiveBody
<1>1. Run(t) /\ Coroutine(t) /\ Session(t) /\ Owned(t) /\ DOMAIN attempts[t] = 1 .. Len(attempts[t]) /\ Len(attempts[t]) \in Nat
  BY OpenAttempt DEF RunInv, Run
<1>2. CASE ChildContract(t, n)
  <2>1. BodyIs(t, n, "contracted") /\ UNCHANGED <<attempts, current>>
    BY <1>0, <1>2, BodyWritten DEF ChildContract, storeVars, rowVars
  <2>2. /\ current[t] = n /\ n <= Len(attempts[t]) /\ attempts[t][n].owner = ChildId(t, n)
        /\ work[t].pc = "awaiting" /\ work[t].n = n /\ isolated
    BY <1>1, <1>2, CoroutineAttempt, OpenAttempt, SMT DEF ChildContract, Session
  <2>3. ExecTypeOK'
    BY <1>0, <2>1 DEF ExecTypeOK, BodyIs, rootVars, loopVars, mailVars
  <2>4. Coroutine(t)' /\ Session(t)'
    BY <1>0, <1>1, <2>1, <2>2 DEF Coroutine, Session, BodyIs, rootVars, Over, ChildId
  <2>5. Owned(t)'
    BY <1>0, <1>1, <2>1, <2>2 DEF Owned, BodyIs, rootVars, ChildId
  <2>6. RunInv'
    BY <1>0, <2>1, <2>4, <2>5, OneTask DEF Run, SameRoot, RowIs, BodyIs, rootVars
  <2>7. RecoveryInv'
    BY <1>0, <2>1, <2>2 DEF RecoveryInv, loopVars, BodyIs, ExecTypeOK
  <2> QED BY <2>3, <2>6, <2>7
<1>3. CASE ChildBegin(t, n)
  <2>1. /\ BodyIs(t, n, "executing") /\ body[t][n] = "contracted"
        /\ ChildId(t, n) \in Procs /\ SetIdentity(t, n, ChildId(t, n)) /\ n \in DOMAIN attempts[t]
    BY <1>0, <1>3, BodyWritten, Processes DEF ChildBegin, SetIdentity
  <2>2. /\ RowIs(t) /\ current' = current /\ Len(attempts'[t]) = Len(attempts[t])
        /\ attempts'[t][n].owner = ChildId(t, n)
        /\ \A m \in DOMAIN attempts[t] \ {n} : attempts'[t][m] = attempts[t][m]
    BY <2>1, IdentityWritten
  <2>3. current[t] = n /\ n <= Len(attempts[t])
    BY <1>1, <2>1 DEF Owned
  <2>4. ExecTypeOK'
    BY <1>0, <2>1 DEF ExecTypeOK, BodyIs, rootVars, loopVars, mailVars
  <2>5. Coroutine(t)'
    BY <1>0, <1>1, <2>2 DEF Coroutine, rootVars
  <2>6. Session(t)'
    <3>1. work[t].pc # "none" => work[t].n = n
      BY <1>1, <2>3 DEF Coroutine
    <3>2. work[t].pc # "none" => work[t].pc = "awaiting"
      BY <1>1, <2>1, <3>1 DEF Session, Over, ExecTypeOK, Stages
    <3> QED BY <1>0, <2>1, <2>2, <3>1, <3>2 DEF Session, BodyIs, rootVars, Over, ChildId
  <2>7. Owned(t)'
    <3> SUFFICES ASSUME NEW m \in Numbers
                 PROVE  /\ body'[t][m] # "none" => m <= Len(attempts[t])
                        /\ body'[t][m] \in {"contracted", "executing"} =>
                              current[t] = m /\ attempts'[t][m].owner = ChildId(t, m)
      BY <1>0, <2>2 DEF Owned, ChildId
    <3>1. CASE m = n
      BY <2>2, <2>3, <3>1
    <3>2. CASE m # n
      BY <1>1, <2>1, <2>3, <3>2 DEF Owned, BodyIs
    <3> QED BY <3>1, <3>2
  <2>8. RunInv'
    BY <1>0, <2>1, <2>2, <2>5, <2>6, <2>7, OneTask DEF Run, SameRoot, BodyIs, rootVars
  <2>9. RecoveryInv'
    <3> SUFFICES ASSUME NEW c \in recovering PROVE work[c.task].pc = "none" /\ body'[c.task][c.n] \notin {"contracted", "executing"}
      BY <1>0 DEF RecoveryInv, loopVars
    <3>1. c.task \in Tasks /\ c.n \in Numbers /\ work[c.task].pc = "none" /\ body[c.task][c.n] \notin {"contracted", "executing"}
      BY DEF ExecTypeOK, RecoveryInv
    <3> QED BY <2>1, <3>1 DEF BodyIs
  <2> QED BY <2>4, <2>8, <2>9
<1> QED BY <1>2, <1>3

(* A session ends, whoever waits for it.                                   *)
LEMMA SessionOver ==
    ASSUME StoreInv, ExecInv, NEW t \in Tasks, NEW n \in Numbers,
           SessionEnds(t, n) \/ SessionFails(t, n) \/ OrphanExits(t, n)
    PROVE  ExecTypeOK' /\ RunInv' /\ RecoveryInv'
<1> USE DEF ExecInv
<1>0. /\ UNCHANGED <<attempts, current, rootVars, loopVars, mailVars, author>>
      /\ body[t][n] \in LiveBody /\ body' = [body EXCEPT ![t][n] = "gone"]
  BY DEF SessionEnds, SessionFails, OrphanExits, storeVars, rowVars, LiveBody
<1>1. BodyIs(t, n, "gone")
  BY <1>0, BodyWritten DEF BodyState
<1>2. Run(t) /\ Coroutine(t) /\ Session(t) /\ Owned(t)
  BY DEF RunInv, Run
<1>3. \/ work' = work
      \/ Awaits(t, n) /\ \E r \in Values : WorkIs(t, "returned", n, r)
  <2>1. SUFFICES ASSUME SessionEnds(t, n), Awaits(t, n) PROVE \E r \in Values : WorkIs(t, "returned", n, r)
    BY DEF SessionEnds, SessionFails, OrphanExits
  <2>2. PICK r \in {"undeclared", "cancelled", "completed"} : work' = [work EXCEPT ![t] = Working("returned", n, r)]
    BY <2>1 DEF SessionEnds
  <2>3. r \in Values /\ "returned" \in Stages /\ n \in Nat
    BY SMT DEF Values, Outcomes, Terminal, Stages, Numbers
  <2> QED BY <2>2, <2>3, WorkWritten
<1>4. work' \in [Tasks -> WorkRecord] /\ \A u \in Tasks \ {t} : work'[u] = work[u]
  BY <1>3 DEF WorkIs, ExecTypeOK, WorkRecord
<1>5. ExecTypeOK'
  BY <1>0, <1>1, <1>4 DEF ExecTypeOK, BodyIs, WorkRecord, rootVars, loopVars, mailVars
<1>6. n <= Len(attempts[t])
  BY <1>0, <1>2 DEF Owned, LiveBody
<1>7. Run(t)'
  <2>1. CASE work' = work
    <3>1. Coroutine(t)'
      BY <1>0, <1>2, <2>1 DEF Coroutine, rootVars
    <3>2. Session(t)'
      <4>1. work[t].pc = "dispatched" => work[t].n # n
        BY <1>0, <1>2 DEF Session, LiveBody
      <4>2. work[t].pc # "none" => work[t].n \in Numbers
        BY CoroutineAttempt
      <4> QED BY <1>0, <1>1, <1>2, <2>1, <4>1, <4>2 DEF Session, BodyIs, rootVars, Over, ChildId
    <3>3. Owned(t)'
      BY <1>0, <1>1, <1>2, <1>6, <2>1 DEF Owned, BodyIs, rootVars, ChildId
    <3> QED BY <3>1, <3>2, <3>3 DEF Run
  <2>2. ASSUME Awaits(t, n), NEW r \in Values, WorkIs(t, "returned", n, r) PROVE Run(t)'
    <3>1. work[t].n = n /\ work[t].pc # "none" /\ current[t] = n
      BY <1>2, <2>2 DEF Awaits, Coroutine
    <3>2. Coroutine(t)'
      BY <1>0, <1>2, <2>2, <3>1 DEF Coroutine, WorkIs, rootVars
    <3>3. Session(t)'
      BY <1>1, <2>2 DEF Session, WorkIs, BodyIs, Over
    <3>4. Owned(t)'
      <4> SUFFICES ASSUME NEW m \in Numbers
                   PROVE  /\ body'[t][m] # "none" => m <= Len(attempts[t])
                          /\ body'[t][m] \in {"contracted", "executing"} =>
                                current[t] = m /\ attempts[t][m].owner = ChildId(t, m)
        BY <1>0 DEF Owned, ChildId
      <4>1. CASE m = n
        BY <1>1, <1>6, <4>1 DEF BodyIs
      <4>2. CASE m # n
        BY <1>1, <1>2, <3>1, <4>2 DEF Owned, BodyIs
      <4> QED BY <4>1, <4>2
    <3> QED BY <3>2, <3>3, <3>4 DEF Run
  <2> QED BY <1>3, <2>1, <2>2
<1>8. RunInv'
  BY <1>0, <1>1, <1>4, <1>7, OneTask DEF SameRoot, RowIs, BodyIs, rootVars
<1>9. RecoveryInv'
  <2> SUFFICES ASSUME NEW c \in recovering PROVE work'[c.task].pc = "none" /\ body'[c.task][c.n] \notin {"contracted", "executing"}
    BY <1>0 DEF RecoveryInv, loopVars
  <2>1. c.task \in Tasks /\ c.n \in Numbers /\ work[c.task].pc = "none" /\ body[c.task][c.n] \notin {"contracted", "executing"}
    BY DEF ExecTypeOK, RecoveryInv
  <2>2. work'[c.task] = work[c.task]
    BY <1>3, <1>4, <2>1 DEF Awaits
  <2> QED BY <1>1, <2>1, <2>2 DEF BodyIs
<1> QED BY <1>5, <1>8, <1>9

-----------------------------------------------------------------------------
(* Steps that write the row of a task.                                     *)

(* Steps that leave attempts, coroutines and sessions alone.               *)
LEMMA QuietKeeps ==
    ASSUME RunInv, UNCHANGED <<attempts, current, up, isolated, body, work>>
    PROVE  RunInv'
<1> SUFFICES ASSUME NEW t \in Tasks PROVE Run(t)'
  BY DEF RunInv
<1>1. Run(t)
  BY DEF RunInv
<1> QED BY <1>1 DEF Run, Coroutine, Session, Owned, ChildId

(* The attempt of t is finished: no session that has its contract may hold *)
(* it, and no coroutine goes on with it.                                   *)
LEMMA FinishKeeps ==
    ASSUME StoreInv, ExecInv, NEW t \in Tasks, NEW n, NEW s, Finish(t, n, s),
           UNCHANGED <<up, isolated, body>>, work'[t].pc = "none", \A u \in Tasks \ {t} : work'[u] = work[u],
           n \in Numbers => body[t][n] \notin {"contracted", "executing"}
    PROVE  RunInv'
<1> USE DEF ExecInv
<1>1. n \in DOMAIN attempts[t] /\ current[t] = n /\ TypeOK /\ current' = [current EXCEPT ![t] = 0]
  BY DEF Finish, StoreInv
<1>2. \A u \in Tasks : Len(attempts'[u]) = Len(attempts[u])
  BY <1>1, FinishAttempts
<1>3. RowIs(t)
  BY <1>1 DEF RowIs, Finish, TypeOK
<1>4. Coroutine(t) /\ Owned(t)
  BY DEF RunInv, Run
<1>5. Coroutine(t)' /\ Session(t)'
  BY <1>2, <1>4 DEF Coroutine, Session, Over
<1>6. Owned(t)'
  <2> SUFFICES ASSUME NEW m \in Numbers
               PROVE  /\ body[t][m] # "none" => m <= Len(attempts[t])
                      /\ body[t][m] \notin {"contracted", "executing"}
    BY <1>2 DEF Owned
  <2> QED BY <1>1, <1>4 DEF Owned
<1> QED BY <1>3, <1>5, <1>6, OneTask DEF Run, SameRoot

(* The finally block of the coroutine.                                     *)
LEMMA CloseFinishKeeps ==
    ASSUME StoreInv, ExecInv, NEW t \in Tasks, CloseFinish(t)
    PROVE  ExecTypeOK' /\ RunInv' /\ RecoveryInv'
<1> USE DEF ExecInv
<1>1. WorkIs(t, "none", 0, "none") /\ UNCHANGED <<rootVars, body, loopVars, mailVars, author>>
  BY WorkCleared DEF CloseFinish
<1>2. ExecTypeOK'
  BY <1>1 DEF ExecTypeOK, WorkIs, WorkRecord, rootVars, loopVars, mailVars
<1>3. Run(t) /\ body[t][work[t].n] \notin {"contracted", "executing"}
  BY DEF CloseFinish, RunInv, Run, Session, Over
<1>4. ASSUME Finish(t, work[t].n, work[t].val) PROVE RunInv'
  BY <1>1, <1>3, <1>4, FinishKeeps DEF WorkIs, rootVars
<1>5. ASSUME UNCHANGED storeVars PROVE RunInv'
  <2>1. UNCHANGED <<attempts, current>>
    BY <1>5 DEF storeVars, rowVars
  <2>2. Coroutine(t)' /\ Session(t)'
    BY <1>1, <1>3, <2>1 DEF Run, Coroutine, Session, WorkIs, Over
  <2>3. Owned(t)'
    <3> SUFFICES ASSUME NEW m \in Numbers
                 PROVE  /\ body[t][m] # "none" => m <= Len(attempts[t])
                        /\ body[t][m] \in {"contracted", "executing"} =>
                              current[t] = m /\ attempts[t][m].owner = ChildId(t, m)
      BY <1>1, <2>1 DEF Owned, ChildId
    <3> QED BY <1>3 DEF Run, Owned
  <2> QED BY <1>1, <2>1, <2>2, <2>3, OneTask DEF Run, SameRoot, RowIs, WorkIs, rootVars
<1>6. RunInv'
  BY <1>4, <1>5 DEF CloseFinish
<1>7. RecoveryInv'
  <2> SUFFICES ASSUME NEW c \in recovering PROVE work'[c.task].pc = "none" /\ body[c.task][c.n] \notin {"contracted", "executing"}
    BY <1>1 DEF RecoveryInv, loopVars
  <2> QED BY <1>1 DEF ExecTypeOK, RecoveryInv, WorkIs
<1> QED BY <1>2, <1>6, <1>7

(* Recovery finishes what it read.                                         *)
LEMMA RecoverFinishKeeps ==
    ASSUME StoreInv, ExecInv, RecoverFinish
    PROVE  ExecTypeOK' /\ RunInv' /\ RecoveryInv'
<1> USE DEF ExecInv
<1>1. recovering' = {} /\ UNCHANGED <<rootVars, body, work, delivering, mailVars, author>>
  BY DEF RecoverFinish
<1>2. ExecTypeOK' /\ RecoveryInv'
  BY <1>1 DEF ExecTypeOK, RecoveryInv, rootVars, mailVars
<1>3. PICK c \in recovering : UNCHANGED storeVars \/ Finish(c.task, c.n, c.val)
  BY DEF RecoverFinish
<1>4. c.task \in Tasks /\ work[c.task].pc = "none" /\ body[c.task][c.n] \notin {"contracted", "executing"}
  BY DEF ExecTypeOK, RecoveryInv
<1>5. CASE Finish(c.task, c.n, c.val)
  BY <1>1, <1>2, <1>4, <1>5, FinishKeeps DEF rootVars
<1>6. CASE UNCHANGED storeVars
  BY <1>1, <1>2, <1>6, QuietKeeps DEF storeVars, rowVars, rootVars
<1> QED BY <1>2, <1>3, <1>5, <1>6

(* Recovery reads an open attempt whose owner is dead: its session has no  *)
(* contract, or is gone, and will not get one.                             *)
LEMMA RecoverReadKeeps ==
    ASSUME StoreInv, ExecInv, NEW t \in Tasks, NEW n \in Numbers, RecoverRead(t, n)
    PROVE  ExecTypeOK' /\ RunInv' /\ RecoveryInv'
<1> USE DEF ExecInv
<1> DEFINE c == [task |-> t, n |-> n, val |-> Seen(t)]
<1>1. /\ recovering' = {c} /\ UNCHANGED <<storeVars, rootVars, body, work, delivering, mailVars, author>>
      /\ work[t].pc = "none" /\ ~Alive(attempts[t][n].owner)
  BY DEF RecoverRead
<1>2. c \in [task : Tasks, n : Numbers, val : Outcomes]
  BY DEF Seen, Outcomes
<1>3. ExecTypeOK'
  BY <1>1, <1>2 DEF ExecTypeOK, rootVars, mailVars
<1>4. RunInv'
  BY <1>1, QuietKeeps DEF storeVars, rowVars, rootVars
<1>5. body[t][n] \notin {"contracted", "executing"}
  <2> SUFFICES ASSUME body[t][n] \in {"contracted", "executing"} PROVE FALSE
    OBVIOUS
  <2>1. attempts[t][n].owner = ChildId(t, n)
    BY <1>1 DEF RunInv, Run, Owned
  <2>2. ~Alive(ChildId(t, n))
    BY <1>1, <2>1
  <2> QED BY <2>2 DEF Alive, ChildId, LiveBody
<1>6. RecoveryInv'
  BY <1>1, <1>5, SMT DEF RecoveryInv
<1> QED BY <1>3, <1>4, <1>6

(* The ledger update after a session.                                      *)
LEMMA SyncWriteKeeps ==
    ASSUME StoreInv, ExecInv, NEW t \in Tasks, SyncWrite(t)
    PROVE  ExecTypeOK' /\ RunInv' /\ RecoveryInv'
<1> USE DEF ExecInv
<1>1. work[t].n \in Numbers /\ work[t].n \in Nat /\ work[t].pc = "syncing" /\ current[t] = work[t].n /\ up
  <2>1. work[t].pc = "syncing"
    BY DEF SyncWrite
  <2>2. work[t].n \in Numbers /\ current[t] = work[t].n /\ up
    BY <2>1, CoroutineAttempt
  <2> QED BY <2>1, <2>2, SMT DEF Numbers
<1>2. UNCHANGED <<attempts, current, rootVars, body, loopVars, mailVars, author>>
  BY DEF SyncWrite, ApplyUpdate, storeVars, rowVars
<1>3. WorkIs(t, "ended", work[t].n, "none")
  BY <1>1, WorkWritten DEF SyncWrite, Stages, Values
<1>4. ExecTypeOK'
  BY <1>2, <1>3 DEF ExecTypeOK, WorkIs, WorkRecord, rootVars, loopVars, mailVars
<1>5. Run(t) /\ Coroutine(t) /\ Session(t) /\ Owned(t)
  BY DEF RunInv, Run
<1>6. Coroutine(t)' /\ Session(t)'
  BY <1>1, <1>2, <1>3, <1>5 DEF Coroutine, Session, WorkIs, rootVars, Over, Numbers
<1>7. Owned(t)'
  <2> SUFFICES ASSUME NEW m \in Numbers
               PROVE  /\ body[t][m] # "none" => m <= Len(attempts[t])
                      /\ body[t][m] \in {"contracted", "executing"} =>
                            current[t] = m /\ attempts[t][m].owner = ChildId(t, m)
    BY <1>2 DEF Owned, ChildId
  <2> QED BY <1>1, <1>5 DEF Owned
<1>8. RunInv'
  BY <1>2, <1>3, <1>6, <1>7, OneTask DEF Run, SameRoot, RowIs, WorkIs, rootVars
<1>9. RecoveryInv'
  <2> SUFFICES ASSUME NEW c \in recovering PROVE work'[c.task].pc = "none" /\ body[c.task][c.n] \notin {"contracted", "executing"}
    BY <1>2 DEF RecoveryInv, loopVars
  <2>1. c.task \in Tasks /\ work[c.task].pc = "none" /\ body[c.task][c.n] \notin {"contracted", "executing"}
    BY DEF ExecTypeOK, RecoveryInv
  <2> QED BY <1>1, <1>3, <2>1 DEF WorkIs
<1> QED BY <1>4, <1>8, <1>9

-----------------------------------------------------------------------------
(* Steps of the root process and of everybody else.                        *)

(* Without a root there is no coroutine, so the setting of the next root   *)
(* touches no session.  A crash takes the sessions with it that run in the *)
(* root; the others are recorded as owners.                                *)
LEMMA RootKeeps ==
    ASSUME StoreInv, ExecInv, RootStart \/ RootCrash \/ RootStop \/ RootDrain \/ RootExit
    PROVE  ExecTypeOK' /\ RunInv' /\ RecoveryInv'
<1> USE DEF ExecInv
<1>0. UNCHANGED <<attempts, current, mailVars, author>>
  BY DEF RootStart, RootCrash, RootStop, RootDrain, RootExit, storeVars, rowVars
<1>1. CASE RootStart
  <2>0. epoch \in 0 .. MaxEpochs /\ epoch < MaxEpochs /\ epoch' = epoch + 1
    BY <1>1 DEF RootStart, ExecTypeOK
  <2>1. epoch' \in 0 .. MaxEpochs /\ epoch' # 0
    BY <2>0, ExecutorAssumption, SMT
  <2>2. isolated' \in BOOLEAN
    BY <1>1, ExecutorAssumption DEF RootStart
  <2>3. ExecTypeOK'
    BY <1>0, <1>1, <2>1, <2>2 DEF RootStart, ExecTypeOK, loopVars, mailVars
  <2>4. ASSUME NEW t \in Tasks PROVE Run(t)'
    <3>1. Run(t) /\ work[t].pc = "none" /\ UNCHANGED <<body, work>>
      BY <1>1 DEF RootStart, RunInv, Run, Coroutine
    <3> QED BY <1>0, <3>1 DEF Run, Coroutine, Session, Owned, Over, ChildId
  <2>5. RecoveryInv'
    BY <1>1 DEF RootStart, RecoveryInv, loopVars
  <2> QED BY <2>3, <2>4, <2>5 DEF RunInv
<1>2. CASE RootCrash
  <2>0. NoWork \in WorkRecord /\ NoWork.pc = "none"
    BY DEF NoWork, WorkRecord, Stages, Values
  <2>1. \A t \in Tasks : work'[t] = NoWork
    BY <1>2 DEF RootCrash
  <2>2. \A t \in Tasks : \A n \in Numbers :
            body'[t][n] = IF ~isolated /\ Awaits(t, n) THEN "gone" ELSE body[t][n]
    BY <1>2 DEF RootCrash
  <2>3. work' \in [Tasks -> WorkRecord] /\ body' \in [Tasks -> [Numbers -> BodyState]]
    BY <1>2, <2>0 DEF RootCrash, ExecTypeOK, BodyState
  <2>4. ExecTypeOK'
    BY <1>0, <1>2, <2>3 DEF RootCrash, ExecTypeOK, WorkRecord, mailVars
  <2>5. ASSUME NEW t \in Tasks PROVE Run(t)'
    <3>1. Run(t) /\ work'[t].pc = "none" /\ isolated' = isolated
      BY <1>2, <2>0, <2>1 DEF RootCrash, RunInv
    <3>2. Coroutine(t)' /\ Session(t)'
      BY <1>0, <3>1 DEF Run, Coroutine, Session, Over
    <3>3. ASSUME NEW n \in Numbers
          PROVE  /\ body'[t][n] # "none" => n <= Len(attempts[t])
                 /\ body'[t][n] \in {"contracted", "executing"} => current[t] = n /\ attempts[t][n].owner = ChildId(t, n)
      <4>1. CASE ~isolated /\ Awaits(t, n)
        <5>1. body'[t][n] = "gone" /\ body[t][n] # "none"
          BY <2>2, <3>1, <4>1 DEF Run, Session, Awaits
        <5> QED BY <3>1, <5>1 DEF Run, Owned
      <4>2. CASE ~(~isolated /\ Awaits(t, n))
        <5>1. body'[t][n] = body[t][n]
          BY <2>2, <4>2
        <5> QED BY <3>1, <4>2, <5>1 DEF Run, Owned, Awaits
      <4> QED BY <4>1, <4>2
    <3>4. Owned(t)'
      BY <1>0, <3>3 DEF Owned, ChildId
    <3> QED BY <3>2, <3>4 DEF Run
  <2>6. RecoveryInv'
    BY <1>2 DEF RootCrash, RecoveryInv
  <2> QED BY <2>4, <2>5, <2>6 DEF RunInv
<1>3. CASE RootStop \/ RootDrain
  <2>1. UNCHANGED <<up, epoch, isolated, body, work, loopVars>> /\ stopping' \in {"no", "asked", "draining"}
    BY <1>3 DEF RootStop, RootDrain
  <2>2. ExecTypeOK' /\ RecoveryInv'
    BY <1>0, <2>1 DEF ExecTypeOK, RecoveryInv, loopVars, mailVars
  <2> QED BY <1>0, <2>1, <2>2, QuietKeeps
<1>4. CASE RootExit
  <2>1. ExecTypeOK'
    BY <1>0, <1>4 DEF RootExit, ExecTypeOK, loopVars, mailVars
  <2>2. ASSUME NEW t \in Tasks PROVE Run(t)'
    <3>1. Run(t) /\ work[t].pc = "none" /\ UNCHANGED <<body, work, isolated>>
      BY <1>4 DEF RootExit, RunInv
    <3> QED BY <1>0, <3>1 DEF Run, Coroutine, Session, Owned, Over, ChildId
  <2>3. RecoveryInv'
    BY <1>4 DEF RootExit, RecoveryInv, loopVars
  <2> QED BY <2>1, <2>2, <2>3 DEF RunInv
<1> QED BY <1>1, <1>2, <1>3, <1>4

(* Calls of the store that leave its attempts alone: updates, resumes,     *)
(* parking, compaction.                                                    *)
LEMMA CallKeeps ==
    ASSUME StoreInv, ExecInv,
           \/ \E t \in Tasks : RootPark(t) \/ OtherStep(t)
           \/ \E t \in Tasks, n \in Numbers, s \in Declarable : Declare(t, n, s)
           \/ \E a \in Animas : OtherCompacts(a)
    PROVE  ExecTypeOK' /\ RunInv' /\ RecoveryInv'
<1> USE DEF ExecInv
<1>1. UNCHANGED <<attempts, current, rootVars, body, work, loopVars, mailVars>>
  <2>1. ASSUME NEW t \in Tasks, RootPark(t) PROVE UNCHANGED <<attempts, current, rootVars, body, work, loopVars, mailVars>>
    BY <2>1 DEF RootPark, ClaimPark
  <2>2. ASSUME NEW t \in Tasks, OtherStep(t) PROVE UNCHANGED <<attempts, current, rootVars, body, work, loopVars, mailVars>>
    BY <2>2 DEF OtherStep, OtherSubmits, OtherResubmits, OtherUpdates, OtherReopens, Others, Submit, Resubmit, Resume,
                Publish, ApplyUpdate
  <2>3. ASSUME NEW t \in Tasks, NEW n \in Numbers, NEW s, Declare(t, n, s)
        PROVE  UNCHANGED <<attempts, current, rootVars, body, work, loopVars, mailVars>>
    BY <2>3 DEF Declare, ApplyUpdate
  <2>4. ASSUME NEW a \in Animas, OtherCompacts(a) PROVE UNCHANGED <<attempts, current, rootVars, body, work, loopVars, mailVars>>
    BY <2>4 DEF OtherCompacts, Compact, Others
  <2> QED BY <2>1, <2>2, <2>3, <2>4
<1>2. author' \in [Tasks -> 0 .. MaxAttempts]
  <2>1. author' = author \/ \E t \in Tasks, n \in Numbers : author' = [author EXCEPT ![t] = n]
    BY DEF RootPark, OtherStep, OtherSubmits, OtherResubmits, OtherUpdates, OtherReopens, OtherCompacts, Others, Declare
  <2>2. Numbers \subseteq 0 .. MaxAttempts
    BY BoundAssumption, SMT DEF Numbers
  <2> QED BY <2>1, <2>2 DEF ExecTypeOK
<1>3. ExecTypeOK'
  BY <1>1, <1>2 DEF ExecTypeOK, rootVars, loopVars, mailVars
<1>4. RunInv'
  BY <1>1, QuietKeeps DEF rootVars
<1>5. RecoveryInv'
  BY <1>1 DEF RecoveryInv, loopVars
<1> QED BY <1>3, <1>4, <1>5

(* Delivery of notices, and the reader of an inbox.                        *)
LEMMA DeliverKeeps ==
    ASSUME StoreInv, ExecInv,
           \/ \E t \in Tasks : \E w \in outbox[t] : DeliverPick(t, w)
           \/ \E r \in Recipients : DeliverSend(r)
           \/ DeliverFails \/ DeliverAck
           \/ \E r \in Recipients : \E m \in inbox[r] : Handle(r, m)
    PROVE  ExecTypeOK' /\ RunInv' /\ RecoveryInv'
<1> USE DEF ExecInv
<1>1. UNCHANGED <<attempts, current, rootVars, body, work, recovering, author>>
  BY DEF DeliverPick, DeliverSend, DeliverFails, DeliverAck, Acknowledge, Handle, storeVars, rowVars, loopVars
<1>2. RunInv' /\ RecoveryInv'
  BY <1>1, QuietKeeps DEF RecoveryInv, rootVars
<1> DEFINE Picked == [task : Tasks, notice : Notices, left : SUBSET Recipients]
<1>3. /\ delivering' \in SUBSET Picked
      /\ inbox' \in [Recipients -> SUBSET Mail] /\ handled' \in [Recipients -> SUBSET Mail]
  <2>0. delivering \in SUBSET Picked /\ inbox \in [Recipients -> SUBSET Mail] /\ handled \in [Recipients -> SUBSET Mail]
    BY DEF ExecTypeOK
  <2>1. ASSUME NEW t \in Tasks, NEW w \in outbox[t], DeliverPick(t, w)
        PROVE  delivering' \in SUBSET Picked /\ mailVars' = mailVars
    <3>1. w \in Notices /\ Addressees(t, w) \in SUBSET Recipients
      BY DEF StoreInv, TypeOK, Addressees, Recipients
    <3> QED BY <2>1, <3>1, SMT DEF DeliverPick
  <2>2. ASSUME NEW r \in Recipients, DeliverSend(r)
        PROVE  delivering' \in SUBSET Picked /\ inbox' \in [Recipients -> SUBSET Mail] /\ handled' = handled
    <3>1. PICK d \in delivering :
             /\ inbox' = [inbox EXCEPT ![r] = IF Message(d.task, d.notice) \in handled[r] THEN @
                                              ELSE @ \union {Message(d.task, d.notice)}]
             /\ delivering' = {[d EXCEPT !.left = @ \ {r}]}
             /\ handled' = handled
      BY <2>2 DEF DeliverSend
    <3>2. d \in Picked /\ Message(d.task, d.notice) \in Mail
      BY <2>0 DEF Message, Mail
    <3>3. [d EXCEPT !.left = @ \ {r}] \in Picked
      BY <3>2
    <3> HIDE DEF Picked
    <3> QED BY <2>0, <3>1, <3>2, <3>3
  <2>3. ASSUME NEW r \in Recipients, NEW m \in inbox[r], Handle(r, m)
        PROVE  delivering' = delivering /\ inbox' \in [Recipients -> SUBSET Mail] /\ handled' \in [Recipients -> SUBSET Mail]
    BY <2>0, <2>3, SMT DEF Handle, loopVars
  <2>4. CASE DeliverFails \/ DeliverAck
    BY <2>0, <2>4 DEF DeliverFails, DeliverAck, mailVars
  <2> HIDE DEF Picked
  <2> QED BY <2>0, <2>1, <2>2, <2>3, <2>4 DEF mailVars
<1>4. ExecTypeOK'
  BY <1>1, <1>3 DEF ExecTypeOK, rootVars
<1> QED BY <1>2, <1>4

-----------------------------------------------------------------------------
(* Every step keeps the part of the invariant about runs.                  *)

(* The steps put together.                                                 *)
LEMMA RunsKept ==
    ASSUME StoreInv, ExecInv, [ExecNext]_vars
    PROVE  ExecTypeOK' /\ RunInv' /\ RecoveryInv'
<1> DEFINE Kept == ExecTypeOK' /\ RunInv' /\ RecoveryInv'
<1>1. CASE RootStart \/ RootCrash \/ RootStop \/ RootDrain \/ RootExit
  BY <1>1, RootKeeps
<1>2. ASSUME NEW t \in Tasks, TaskStep(t) PROVE Kept
  <2>1. CASE RootClaim(t)
    BY <2>1, RootClaimKeeps
  <2>2. CASE RootPark(t)
    BY <2>2, CallKeeps
  <2>3. CASE Spawn(t) \/ SpawnFails(t) \/ FailureNoticed(t) \/ KillCancelled(t) \/ CancelDispatch(t) \/ SyncRead(t) \/ CloseRead(t)
    BY <2>3, CoroutineKeeps
  <2>4. CASE RegisterChild(t)
    BY <2>4, RegisterChildKeeps
  <2>5. CASE SyncWrite(t)
    BY <2>5, SyncWriteKeeps
  <2>6. CASE CloseFinish(t)
    BY <2>6, CloseFinishKeeps
  <2> QED BY <1>2, <2>1, <2>2, <2>3, <2>4, <2>5, <2>6 DEF TaskStep
<1>3. ASSUME NEW t \in Tasks, NEW n \in Numbers, AttemptStep(t, n) PROVE Kept
  <2>1. CASE ChildContract(t, n) \/ ChildBegin(t, n)
    BY <2>1, ChildKeeps
  <2>2. CASE SessionEnds(t, n) \/ SessionFails(t, n) \/ OrphanExits(t, n)
    BY <2>2, SessionOver
  <2>3. CASE RecoverRead(t, n)
    BY <2>3, RecoverReadKeeps
  <2>4. ASSUME NEW s \in Declarable, Declare(t, n, s) PROVE Kept
    BY <2>4, CallKeeps
  <2> QED BY <1>3, <2>1, <2>2, <2>3, <2>4 DEF AttemptStep
<1>4. CASE RecoverFinish
  BY <1>4, RecoverFinishKeeps
<1>5. ASSUME NEW t \in Tasks, OtherStep(t) PROVE Kept
  BY <1>5, CallKeeps
<1>6. ASSUME NEW a \in Animas, OtherCompacts(a) PROVE Kept
  BY <1>6, CallKeeps
<1>7. CASE \/ \E t \in Tasks : \E w \in outbox[t] : DeliverPick(t, w)
           \/ \E r \in Recipients : DeliverSend(r)
           \/ DeliverFails \/ DeliverAck
           \/ \E r \in Recipients : \E m \in inbox[r] : Handle(r, m)
  BY <1>7, DeliverKeeps
<1>8. CASE UNCHANGED vars
  <2>1. UNCHANGED <<attempts, current, rootVars, body, work, loopVars, mailVars, author>>
    BY <1>8 DEF vars, storeVars, rowVars
  <2>2. ExecTypeOK' /\ RecoveryInv'
    BY <2>1 DEF ExecInv, ExecTypeOK, RecoveryInv, rootVars, loopVars, mailVars
  <2>3. RunInv'
    BY <2>1, QuietKeeps DEF ExecInv, rootVars
  <2> QED BY <2>2, <2>3
<1> HIDE DEF Kept
<1>9. Kept
  BY <1>1, <1>2, <1>3, <1>4, <1>5, <1>6, <1>7, <1>8 DEF ExecNext, Kept
<1> QED BY <1>9 DEF Kept

-----------------------------------------------------------------------------
(* Notices.                                                                *)

(* A step that declares nothing, starts nothing, sends nothing, and takes  *)
(* a notice out of an outbox only by publishing the task again.            *)
Plain ==
    /\ author' = author
    /\ mailVars' = mailVars
    /\ delivering' \subseteq delivering
    /\ \A t \in Tasks : current'[t] \in {0, current[t]} /\ (outbox[t] \subseteq outbox'[t] \/ ready'[t])

(* INSERT OR IGNORE removes nothing, ...                                   *)
LEMMA EnqueueGrows ==
    ASSUME TypeOK, NEW u \in Tasks, NEW w, Enqueue(u, w)
    PROVE  \A t \in Tasks : outbox[t] \subseteq outbox'[t]
  BY DEF TypeOK, Enqueue

(* ... nor does finish(), which can only end what runs, ...                *)
LEMMA FinishPlain ==
    ASSUME TypeOK, NEW u \in Tasks, NEW n, NEW s, Finish(u, n, s)
    PROVE  \A t \in Tasks : current'[t] \in {0, current[t]} /\ outbox[t] \subseteq outbox'[t]
<1>1. \A t \in Tasks : current'[t] \in {0, current[t]}
  BY DEF Finish, TypeOK
<1>2. UNCHANGED wakeVars \/ \E w : Enqueue(u, w)
  BY DEF Finish
<1>3. \A t \in Tasks : outbox[t] \subseteq outbox'[t]
  BY <1>2, EnqueueGrows DEF wakeVars
<1> QED BY <1>1, <1>3

(* ... and an upsert that settles notices makes its task ready.            *)
LEMMA PublishPlain ==
    ASSUME TypeOK, NEW u \in Tasks, NEW p, Publish(u, p)
    PROVE  \A t \in Tasks : current'[t] = current[t] /\ (outbox[t] \subseteq outbox'[t] \/ ready'[t])
  BY DEF TypeOK, Publish, SettleAll

(* The steps that are not plain.                                           *)
LEMMA StepKinds ==
    ASSUME StoreInv, ExecInv, [ExecNext]_vars
    PROVE  \/ Plain
           \/ \E t \in Tasks : RootClaim(t)
           \/ \E t \in Tasks, n \in Numbers, s \in Declarable : Declare(t, n, s)
           \/ \E t \in Tasks : \E w \in outbox[t] : DeliverPick(t, w)
           \/ \E r \in Recipients : DeliverSend(r)
           \/ DeliverAck
           \/ \E r \in Recipients : \E m \in inbox[r] : Handle(r, m)
<1> USE DEF ExecInv
<1>0. TypeOK
  BY DEF StoreInv
<1>1. ASSUME UNCHANGED <<current, outbox, mailVars, author>>, delivering' \subseteq delivering PROVE Plain
  BY <1>1 DEF Plain
<1>2. CASE \/ RootStart \/ RootCrash \/ RootStop \/ RootDrain \/ RootExit \/ DeliverFails
           \/ \E a \in Animas : OtherCompacts(a)
           \/ UNCHANGED vars
  <2>1. UNCHANGED <<current, outbox, mailVars, author>> /\ delivering' \subseteq delivering
    BY <1>2 DEF RootStart, RootCrash, RootStop, RootDrain, RootExit, DeliverFails, OtherCompacts, Compact, Others,
                       vars, storeVars, rowVars, wakeVars, loopVars
  <2> QED BY <1>1, <2>1
<1>3. ASSUME NEW t \in Tasks, TaskStep(t), ~RootClaim(t) PROVE Plain
  <2>1. CASE RootPark(t)
    BY <1>0, <2>1, EnqueueGrows DEF RootPark, ClaimPark, Plain, loopVars
  <2>2. CASE \/ Spawn(t) \/ SpawnFails(t) \/ FailureNoticed(t) \/ KillCancelled(t) \/ CancelDispatch(t)
             \/ SyncRead(t) \/ CloseRead(t) \/ RegisterChild(t) \/ SyncWrite(t)
    <3>1. UNCHANGED <<current, outbox, mailVars, author>> /\ delivering' \subseteq delivering
      BY <2>2 DEF Spawn, SpawnFails, FailureNoticed, KillCancelled, CancelDispatch, SyncRead, CloseRead, RegisterChild,
                  SyncWrite, SetIdentity, ApplyUpdate, storeVars, rowVars, wakeVars, loopVars
    <3> QED BY <1>1, <3>1
  <2>3. CASE CloseFinish(t)
    <3>1. UNCHANGED <<mailVars, author, loopVars>> /\ (UNCHANGED storeVars \/ Finish(t, work[t].n, work[t].val))
      BY <2>3 DEF CloseFinish
    <3>2. \A u \in Tasks : current'[u] \in {0, current[u]} /\ outbox[u] \subseteq outbox'[u]
      BY <1>0, <3>1, FinishPlain DEF storeVars, rowVars, wakeVars
    <3> QED BY <3>1, <3>2 DEF Plain, loopVars
  <2> QED BY <1>3, <2>1, <2>2, <2>3 DEF TaskStep
<1>4. ASSUME NEW t \in Tasks, NEW n \in Numbers, AttemptStep(t, n)
      PROVE  Plain \/ \E s \in Declarable : Declare(t, n, s)
  <2>1. CASE \/ ChildContract(t, n) \/ ChildBegin(t, n) \/ SessionEnds(t, n) \/ SessionFails(t, n) \/ OrphanExits(t, n)
             \/ RecoverRead(t, n)
    <3>1. UNCHANGED <<current, outbox, mailVars, author>> /\ delivering' \subseteq delivering
      BY <2>1 DEF ChildContract, ChildBegin, SessionEnds, SessionFails, OrphanExits, RecoverRead, SetIdentity,
                  storeVars, rowVars, wakeVars, loopVars
    <3> QED BY <1>1, <3>1
  <2> QED BY <1>4, <2>1 DEF AttemptStep
<1>5. CASE RecoverFinish
  <2>1. PICK c \in recovering : UNCHANGED storeVars \/ Finish(c.task, c.n, c.val)
    BY <1>5 DEF RecoverFinish
  <2>2. c.task \in Tasks
    BY DEF ExecTypeOK
  <2>3. \A u \in Tasks : current'[u] \in {0, current[u]} /\ outbox[u] \subseteq outbox'[u]
    BY <1>0, <2>1, <2>2, FinishPlain DEF storeVars, rowVars, wakeVars
  <2> QED BY <1>5, <2>3 DEF RecoverFinish, Plain
<1>6. ASSUME NEW t \in Tasks, OtherStep(t) PROVE Plain
  <2>0. UNCHANGED <<mailVars, author, loopVars>>
    BY <1>6 DEF OtherStep, OtherSubmits, OtherResubmits, OtherUpdates, OtherReopens, Others
  <2>1. CASE \E s \in Declarable : OtherUpdates(t, s)
    BY <1>1, <2>0, <2>1 DEF OtherUpdates, ApplyUpdate, wakeVars, loopVars
  <2>2. CASE \E p : Publish(t, p)
    BY <1>0, <2>0, <2>2, PublishPlain DEF Plain, loopVars
  <2> QED BY <1>6, <2>1, <2>2 DEF OtherStep, OtherSubmits, OtherResubmits, OtherReopens, Submit, Resubmit, Resume
<1> HIDE DEF ExecInv
<1> QED BY <1>2, <1>3, <1>4, <1>5, <1>6 DEF ExecNext

(* Nothing takes an input away, and a notice comes only to a task that has *)
(* one.                                                                    *)
LEMMA InputsStay ==
    ASSUME StoreInv, Owing, [Next]_storeVars
    PROVE  (\A t \in Tasks : input[t] # NoInput => input'[t] = input[t]) /\ Owing'
<1> DEFINE Stay == (\A t \in Tasks : input[t] # NoInput => input'[t] = input[t]) /\ Owing'
<1>0. TypeOK
  BY DEF StoreInv
<1>1. ASSUME UNCHANGED <<input, outbox>> PROVE Stay
  BY <1>1 DEF Owing
<1>2. ASSUME NEW u \in Tasks, NEW p, Publish(u, p), input[u] = NoInput \/ p = input[u], p # NoInput PROVE Stay
  BY <1>0, <1>2 DEF TypeOK, Publish, SettleAll, Owing
<1>3. ASSUME NEW u \in Tasks, NEW w, Enqueue(u, w), input[u] # NoInput, UNCHANGED input PROVE Stay
  BY <1>0, <1>3 DEF TypeOK, Enqueue, Owing
<1>4. ASSUME NEW u \in Tasks, NEW w, Acknowledge(u, w) PROVE Stay
  BY <1>0, <1>4 DEF TypeOK, Acknowledge, Owing, rowVars
<1> HIDE DEF Stay
<1>5. ASSUME NEW t \in Tasks,
             \/ \E k, s : ApplyUpdate(t, k, s)
             \/ \E s : ApplyEntry(t, s)
             \/ \E p \in Procs : Claim(t, p)
             \/ \E n, p : SetIdentity(t, n, p)
      PROVE  Stay
  <2>1. UNCHANGED <<input, outbox>>
    BY <1>5 DEF ApplyUpdate, ApplyEntry, Claim, SetIdentity, rowVars, wakeVars
  <2> QED BY <1>1, <2>1
<1>6. ASSUME NEW t \in Tasks, NEW k, NEW p \in Payloads[t], Submit(t, k, p) PROVE Stay
  <2>1. p # NoInput
    BY PayloadAssumption
  <2> QED BY <1>2, <1>6, <2>1 DEF Submit
<1>7. ASSUME NEW t \in Tasks, NEW k, Resubmit(t, k) \/ Resume(t, k) PROVE Stay
  BY <1>2, <1>7 DEF Resubmit, Resume
<1>8. ASSUME NEW t \in Tasks, ClaimPark(t) PROVE Stay
  <2>1. \E w : Enqueue(t, w)
    BY <1>8 DEF ClaimPark
  <2> QED BY <1>3, <1>8, <2>1 DEF ClaimPark, Claimable, RowReady
<1>9. ASSUME NEW t \in Tasks, NEW n, NEW s, Finish(t, n, s) PROVE Stay
  <2>1. n # 0 /\ current[t] = n /\ UNCHANGED input
    BY <1>0, <1>9, SMT DEF Finish, TypeOK
  <2>2. input[t] # NoInput
    BY <2>1 DEF StoreInv, OneOpenAttempt
  <2>3. UNCHANGED wakeVars \/ \E w : Enqueue(t, w)
    BY <1>9 DEF Finish
  <2> QED BY <1>1, <1>3, <2>1, <2>2, <2>3 DEF wakeVars
<1>10. ASSUME UNCHANGED storeVars \/ (\E a \in Animas, b \in BOOLEAN : PauseClaims(a, b)) \/ \E a \in Animas : Compact(a)
       PROVE  Stay
  <2>1. UNCHANGED <<input, outbox>>
    BY <1>10 DEF PauseClaims, Compact, storeVars, rowVars, wakeVars
  <2> QED BY <1>1, <2>1
<1>11. Stay
  BY <1>4, <1>5, <1>6, <1>7, <1>8, <1>9, <1>10 DEF Next
<1> QED BY <1>11 DEF Stay

(* A delivery serves one addressee after the other; what was delivered     *)
(* stays in the inbox or among the messages that were read.                *)
LEMMA MailKept ==
    ASSUME StoreInv, ExecInv, [ExecNext]_vars
    PROVE  Owing' /\ DeliveryInv' /\ ReadOnce'
<1> USE DEF ExecInv
<1>1. (\A t \in Tasks : input[t] # NoInput => input'[t] = input[t]) /\ Owing'
  BY StoreStep, InputsStay
<1>2. \A d \in delivering : /\ d.task \in Tasks /\ input[d.task] # NoInput /\ input'[d.task] = input[d.task]
                            /\ Addressees(d.task, d.notice)' = Addressees(d.task, d.notice)
  BY <1>1 DEF ExecTypeOK, DeliveryInv, Addressees
<1>3. \A d \in delivering : Addressees(d.task, d.notice) \subseteq Recipients
  BY DEF Addressees, Recipients
<1>4. ASSUME mailVars' = mailVars, delivering' \subseteq delivering PROVE DeliveryInv' /\ ReadOnce'
  <2>1. ASSUME NEW d \in delivering'
        PROVE  /\ input'[d.task] # NoInput
               /\ \A r \in Addressees(d.task, d.notice)' \ d.left : Message(d.task, d.notice) \in inbox'[r] \union handled'[r]
    BY <1>2, <1>4, <2>1 DEF DeliveryInv, mailVars
  <2>2. ReadOnce'
    BY <1>4 DEF ReadOnce, mailVars
  <2> QED BY <2>1, <2>2 DEF DeliveryInv, Message
<1>5. CASE Plain \/ (\E t \in Tasks : RootClaim(t)) \/ \E t \in Tasks, n \in Numbers, s \in Declarable : Declare(t, n, s)
  <2>1. mailVars' = mailVars /\ delivering' \subseteq delivering
    BY <1>5 DEF Plain, RootClaim, Declare, loopVars
  <2> QED BY <1>1, <1>4, <2>1
<1>6. CASE DeliverAck
  BY <1>1, <1>4, <1>6 DEF DeliverAck
<1>7. ASSUME NEW t \in Tasks, NEW w \in outbox[t], DeliverPick(t, w) PROVE DeliveryInv' /\ ReadOnce'
  <2> DEFINE d == [task |-> t, notice |-> w, left |-> Addressees(t, w)]
  <2>1. delivering' = {d} /\ mailVars' = mailVars /\ UNCHANGED storeVars
    BY <1>7 DEF DeliverPick
  <2>2. input[t] # NoInput /\ UNCHANGED input
    BY <2>1 DEF Owing, storeVars, rowVars
  <2>3. Addressees(t, w)' = Addressees(t, w)
    BY <2>2 DEF Addressees
  <2>4. d.task = t /\ d.notice = w /\ d.left = Addressees(t, w)
    OBVIOUS
  <2> HIDE DEF d
  <2>5. DeliveryInv'
    BY <2>1, <2>2, <2>3, <2>4 DEF DeliveryInv
  <2>6. ReadOnce'
    BY <2>1 DEF ReadOnce, mailVars
  <2> QED BY <2>5, <2>6
<1>8. ASSUME NEW r \in Recipients, DeliverSend(r) PROVE DeliveryInv' /\ ReadOnce'
  <2>1. PICK d \in delivering :
           /\ inbox' = [inbox EXCEPT ![r] = IF Message(d.task, d.notice) \in handled[r] THEN @
                                            ELSE @ \union {Message(d.task, d.notice)}]
           /\ delivering' = {[d EXCEPT !.left = @ \ {r}]}
           /\ handled' = handled
    BY <1>8 DEF DeliverSend
  <2> DEFINE e == [d EXCEPT !.left = @ \ {r}]
             m == Message(d.task, d.notice)
  <2>2. d \in [task : Tasks, notice : Notices, left : SUBSET Recipients]
    BY DEF ExecTypeOK
  <2>3. e.task = d.task /\ e.notice = d.notice /\ e.left = d.left \ {r}
    BY <2>2
  <2>4. /\ \A q \in Recipients \ {r} : inbox'[q] = inbox[q]
        /\ inbox'[r] = IF m \in handled[r] THEN inbox[r] ELSE inbox[r] \union {m}
    BY <2>1 DEF ExecTypeOK
  <2> HIDE DEF e, m
  <2>5. ASSUME NEW q \in Addressees(d.task, d.notice) \ e.left PROVE m \in inbox'[q] \union handled'[q]
    <3>1. q \in Recipients
      BY <1>3
    <3>2. CASE q = r
      BY <2>1, <2>4, <3>2, SMT
    <3>3. CASE q # r
      <4>1. m \in inbox[q] \union handled[q]
        BY <2>3, <3>3 DEF DeliveryInv, m
      <4> QED BY <2>1, <2>4, <3>1, <3>3, <4>1
    <3> QED BY <3>2, <3>3
  <2>6. delivering' = {e}
    BY <2>1 DEF e
  <2>7. DeliveryInv'
    <3> SUFFICES /\ input'[e.task] # NoInput
                 /\ \A q \in Addressees(e.task, e.notice)' \ e.left : Message(e.task, e.notice) \in inbox'[q] \union handled'[q]
      BY <2>6 DEF DeliveryInv, Message
    <3>1. Addressees(e.task, e.notice)' = Addressees(d.task, d.notice) /\ Message(e.task, e.notice) = m
      BY <1>2, <2>3 DEF m
    <3> QED BY <1>2, <2>3, <2>5, <3>1
  <2>8. ReadOnce'
    BY <2>1, <2>4, SMT DEF ReadOnce
  <2> QED BY <2>7, <2>8
<1>9. ASSUME NEW r \in Recipients, NEW m \in inbox[r], Handle(r, m) PROVE DeliveryInv' /\ ReadOnce'
  <2>1. /\ \A q \in Recipients : inbox'[q] \union handled'[q] = inbox[q] \union handled[q]
        /\ \A q \in Recipients \ {r} : inbox'[q] = inbox[q] /\ handled'[q] = handled[q]
        /\ inbox'[r] = inbox[r] \ {m} /\ handled'[r] = handled[r] \union {m}
    BY <1>9 DEF Handle, ExecTypeOK
  <2>2. delivering' = delivering
    BY <1>9 DEF Handle, loopVars
  <2>3. DeliveryInv'
    <3> SUFFICES ASSUME NEW d \in delivering
                 PROVE  /\ input'[d.task] # NoInput
                        /\ \A q \in Addressees(d.task, d.notice)' \ d.left : Message(d.task, d.notice) \in inbox'[q] \union handled'[q]
      BY <2>2 DEF DeliveryInv, Message
    <3>1. \A q \in Addressees(d.task, d.notice) \ d.left :
             q \in Recipients /\ Message(d.task, d.notice) \in inbox[q] \union handled[q]
      BY <1>3 DEF DeliveryInv
    <3> QED BY <1>2, <2>1, <3>1
  <2>4. ReadOnce'
    BY <2>1 DEF ReadOnce
  <2> QED BY <2>3, <2>4
<1> QED BY <1>1, <1>5, <1>6, <1>7, <1>8, <1>9, StepKinds

-----------------------------------------------------------------------------
(* The theorems.                                                           *)

(* Store and executor keep their invariants together.                      *)
LEMMA NextExecInv == StoreInv /\ ExecInv /\ [ExecNext]_vars => StoreInv' /\ ExecInv'
  BY StoreStep, NextStoreInv, RunsKept, MailKept DEF ExecInv

(* So both hold for ever.                                                  *)
LEMMA ExecInvHolds == ExecSpec => [](StoreInv /\ ExecInv)
  BY InitExecInv, NextExecInv, PTL DEF ExecSpec

(* The runner, its children, delivery and everybody who shares the         *)
(* database only make calls that the store allows.  So what is proved of   *)
(* TaskStore for arbitrary callers holds for this program.                 *)
THEOREM ExecutorUsesStore == ExecSpec => Spec
<1>1. ExecInit => Init
  BY DEF ExecInit
<1>2. StoreInv /\ ExecInv /\ [ExecNext]_vars => [Next]_storeVars
  BY StoreStep
<1> QED BY <1>1, <1>2, ExecInvHolds, PTL DEF ExecSpec, Spec

(* The variables of the executor hold what they are declared to hold.      *)
THEOREM ExecutorTypes == ExecSpec => []ExecTypeOK
<1>1. ExecInv => ExecTypeOK
  BY DEF ExecInv
<1> QED BY <1>1, ExecInvHolds, PTL

(* No crash of the root, no orphaned child and no recovery makes a task    *)
(* run twice at a time: an executing session holds the current attempt.    *)
THEOREM OneExecution == ExecSpec => []SingleExecution
<1>1. ExecInv => SingleExecution
  BY DEF ExecInv, RunInv, Run, Owned, SingleExecution
<1> QED BY <1>1, ExecInvHolds, PTL

(* From claim to finish the attempt of a coroutine is the one the store    *)
(* calls current: recovery and callers leave it alone.                     *)
THEOREM CoroutineKeepsAttempt == ExecSpec => []CoroutineOwnsAttempt
<1>1. ExecInv => CoroutineOwnsAttempt
  BY DEF ExecInv, RunInv, Run, Coroutine, CoroutineOwnsAttempt
<1> QED BY <1>1, ExecInvHolds, PTL

(* Retried deliveries never put a message back that was read.              *)
THEOREM NoticesReadOnce == ExecSpec => []ReadOnce
<1>1. ExecInv => ReadOnce
  BY DEF ExecInv
<1> QED BY <1>1, ExecInvHolds, PTL

(* claim() starts a task only when the sessions of what it depends on are  *)
(* over.                                                                   *)
THEOREM DependenciesOver == ExecSpec => DependencySessionsOver
<1> DEFINE Over1(t) == current[t] = 0 /\ current'[t] # 0 =>
                          \A i \in DOMAIN input[t].deps : \A n \in Numbers : body[input[t].deps[i]][n] # "executing"
<1>1. ASSUME StoreInv, ExecInv, [ExecNext]_vars PROVE [\A t \in Tasks : Over1(t)]_vars
  <2> SUFFICES ASSUME NEW t \in Tasks, current[t] = 0, current'[t] # 0, NEW i \in DOMAIN input[t].deps, NEW n \in Numbers
               PROVE  body[input[t].deps[i]][n] # "executing"
    OBVIOUS
  <2>1. \E u \in Tasks : RootClaim(u)
    <3>1. UNCHANGED current \/ Plain \/ \E u \in Tasks : RootClaim(u)
      BY <1>1, StepKinds DEF Declare, ApplyUpdate, DeliverPick, DeliverSend, DeliverAck, Acknowledge, Handle, storeVars, rowVars
    <3> QED BY <3>1 DEF Plain
  <2>2. Claim(t, RootId(epoch))
    BY <1>1, <2>1 DEF RootClaim, Claim, StoreInv, TypeOK
  <2>3. input[t] \in Payload
    BY <1>1, <2>2 DEF Claim, Claimable, RowReady, StoreInv, TypeOK
  <2>4. input[t].deps[i] \in Tasks
    <3>1. input[t].deps \in Seq(Tasks)
      BY <2>3 DEF Payload
    <3> QED BY <3>1, SMT
  <2>5. current[input[t].deps[i]] = 0
    BY <2>2 DEF Claim, DependencyDone
  <2>6. \A u \in Tasks : body[u][n] = "executing" => current[u] = n
    BY <1>1 DEF ExecInv, RunInv, Run, Owned
  <2>7. n # 0
    BY SMT DEF Numbers
  <2> QED BY <2>4, <2>5, <2>6, <2>7
<1> QED BY <1>1, ExecInvHolds, PTL DEF ExecSpec, DependencySessionsOver

(* A notice is acknowledged only after each addressee has got it; what     *)
(* else empties an outbox makes the task ready again.                      *)
THEOREM NoticesDelivered == ExecSpec => SettledMeansDelivered
<1> DEFINE Gone(t) == \A w \in outbox[t] \ outbox'[t] :
                         \/ ready'[t]
                         \/ \A r \in Addressees(t, w) : Message(t, w) \in inbox[r] \union handled[r]
<1>1. ASSUME StoreInv, ExecInv, [ExecNext]_vars PROVE [\A t \in Tasks : Gone(t)]_vars
  <2> SUFFICES ASSUME NEW t \in Tasks, NEW w \in outbox[t] \ outbox'[t], ~ready'[t], NEW r \in Addressees(t, w)
               PROVE  Message(t, w) \in inbox[r] \union handled[r]
    OBVIOUS
  <2>1. DeliverAck
    <3>1. UNCHANGED outbox \/ Plain \/ DeliverAck
      BY <1>1, StepKinds DEF RootClaim, Claim, Declare, ApplyUpdate, DeliverPick, DeliverSend, Handle, storeVars, wakeVars
    <3> QED BY <3>1 DEF Plain
  <2>2. PICK d \in delivering : d.left = {} /\ (UNCHANGED storeVars \/ Acknowledge(d.task, d.notice))
    BY <2>1 DEF DeliverAck
  <2>3. d.task = t /\ d.notice = w
    <3>1. outbox \in [Tasks -> SUBSET Notices]
      BY <1>1 DEF StoreInv, TypeOK
    <3>2. outbox' = outbox \/ outbox' = [outbox EXCEPT ![d.task] = @ \ {d.notice}]
      BY <2>2 DEF Acknowledge, storeVars, wakeVars
    <3> QED BY <3>1, <3>2
  <2> QED BY <1>1, <2>2, <2>3 DEF ExecInv, DeliveryInv
<1> QED BY <1>1, ExecInvHolds, PTL DEF ExecSpec, SettledMeansDelivered

(* The fence of apply() keeps a stale session from declaring: only the     *)
(* agent of the newest attempt changes its task.                           *)
THEOREM StaleAttemptsHarmless == ExecSpec => StaleAttemptHarmless
<1>1. ASSUME StoreInv, ExecInv, [ExecNext]_vars
      PROVE  [\A t \in Tasks : author'[t] # author[t] => author'[t] = Len(attempts[t])]_vars
  <2> SUFFICES ASSUME NEW t \in Tasks, author'[t] # author[t] PROVE author'[t] = Len(attempts[t])
    OBVIOUS
  <2>1. UNCHANGED author \/ \E u \in Tasks, n \in Numbers, s \in Declarable : Declare(u, n, s)
    BY <1>1, StepKinds DEF Plain, RootClaim, DeliverPick, DeliverSend, DeliverAck, Handle
  <2>2. PICK u \in Tasks, n \in Numbers, s \in Declarable : Declare(u, n, s)
    BY <2>1
  <2>3. author' = [author EXCEPT ![u] = n] /\ Fresh(u, n)
    BY <2>2 DEF Declare, ApplyUpdate, Accepts
  <2>4. author \in [Tasks -> 0 .. MaxAttempts]
    BY <1>1 DEF ExecInv, ExecTypeOK
  <2>5. u = t /\ author'[t] = n
    BY <2>3, <2>4
  <2>6. n # 0 /\ current[t] = n
    BY <2>3, <2>5, SMT DEF Fresh, Numbers
  <2> QED BY <1>1, <2>5, <2>6, OpenAttempt
<1> QED BY <1>1, ExecInvHolds, PTL DEF ExecSpec, StaleAttemptHarmless

=============================================================================
