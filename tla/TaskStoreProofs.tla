--------------------------- MODULE TaskStoreProofs ---------------------------
(***************************************************************************)
(* Proofs that the task store keeps its invariants for every set of        *)
(* animas, tasks, inputs and processes and every bound.                    *)
(***************************************************************************)
EXTENDS TaskStore, TLAPS

-----------------------------------------------------------------------------
(* Type correctness.                                                       *)

(* The empty store is well typed.                                          *)
LEMMA InitTypeOK == Init => TypeOK
  BY DEF Init, TypeOK, LiveStatus

(* Replacing the record of one attempt touches nothing else of the table.  *)
LEMMA AttemptWrite ==
  ASSUME TypeOK, NEW t \in Tasks, NEW n \in DOMAIN attempts[t], NEW r \in Attempt,
         attempts' = [attempts EXCEPT ![t][n] = r]
  PROVE  /\ attempts' \in [Tasks -> Seq(Attempt)]
         /\ \A u \in Tasks : Len(attempts'[u]) = Len(attempts[u]) /\ DOMAIN attempts'[u] = DOMAIN attempts[u]
         /\ \A u \in Tasks : \A m \in DOMAIN attempts[u] :
                attempts'[u][m] = IF u = t /\ m = n THEN r ELSE attempts[u][m]
<1>1. attempts[t] \in Seq(Attempt) /\ n \in 1 .. Len(attempts[t])
  BY DEF TypeOK
<1>2. attempts'[t] = [attempts[t] EXCEPT ![n] = r] /\ \A u \in Tasks \ {t} : attempts'[u] = attempts[u]
  BY DEF TypeOK
<1>3. /\ attempts'[t] \in Seq(Attempt)
      /\ Len(attempts'[t]) = Len(attempts[t])
      /\ \A m \in 1 .. Len(attempts[t]) : attempts'[t][m] = IF m = n THEN r ELSE attempts[t][m]
  BY <1>1, <1>2
<1>4. attempts' \in [Tasks -> Seq(Attempt)]
  BY <1>2, <1>3 DEF TypeOK
<1>5. \A u \in Tasks : DOMAIN attempts[u] = 1 .. Len(attempts[u]) /\ DOMAIN attempts'[u] = 1 .. Len(attempts'[u])
  BY <1>4 DEF TypeOK
<1> QED BY <1>2, <1>3, <1>4, <1>5

(* claim() adds one open attempt at the end of the task's history.         *)
LEMMA ClaimAttempts ==
  ASSUME TypeOK, NEW t \in Tasks, NEW p \in Procs, Claim(t, p)
  PROVE  /\ attempts' \in [Tasks -> Seq(Attempt)]
         /\ \A u \in Tasks \ {t} : attempts'[u] = attempts[u]
         /\ Len(attempts'[t]) = Len(attempts[t]) + 1
         /\ DOMAIN attempts'[t] = DOMAIN attempts[t] \union {Len(attempts[t]) + 1}
         /\ Len(attempts[t]) + 1 \notin DOMAIN attempts[t]
         /\ \A m \in DOMAIN attempts[t] : attempts'[t][m] = attempts[t][m]
         /\ ~attempts'[t][Len(attempts[t]) + 1].ended
<1> DEFINE r == [owner |-> p, ended |-> FALSE]
<1>1. attempts[t] \in Seq(Attempt) /\ r \in Attempt
  BY Zenon DEF TypeOK, Attempt
<1>2. attempts'[t] = Append(attempts[t], r) /\ \A u \in Tasks \ {t} : attempts'[u] = attempts[u]
  BY DEF Claim, TypeOK
<1>3. /\ attempts'[t] \in Seq(Attempt)
      /\ Len(attempts'[t]) = Len(attempts[t]) + 1
      /\ \A m \in 1 .. Len(attempts[t]) : attempts'[t][m] = attempts[t][m]
      /\ attempts'[t][Len(attempts[t]) + 1] = r
  BY <1>1, <1>2
<1>4. attempts' \in [Tasks -> Seq(Attempt)]
  BY <1>2, <1>3 DEF TypeOK, Claim
<1>5. DOMAIN attempts[t] = 1 .. Len(attempts[t]) /\ DOMAIN attempts'[t] = 1 .. Len(attempts'[t])
      /\ Len(attempts[t]) \in Nat
  BY <1>1, <1>3
<1> QED BY <1>2, <1>3, <1>4, <1>5

(* set_identity() changes the owner of one open attempt.                   *)
LEMMA SetIdentityAttempts ==
  ASSUME TypeOK, NEW t \in Tasks, NEW n \in DOMAIN attempts[t], NEW p \in Procs, SetIdentity(t, n, p)
  PROVE  /\ attempts' \in [Tasks -> Seq(Attempt)]
         /\ \A u \in Tasks : Len(attempts'[u]) = Len(attempts[u]) /\ DOMAIN attempts'[u] = DOMAIN attempts[u]
         /\ \A u \in Tasks : \A m \in DOMAIN attempts[u] :
                /\ attempts'[u][m].ended = attempts[u][m].ended
                /\ attempts[u][m].ended => attempts'[u][m] = attempts[u][m]
<1> DEFINE r == [attempts[t][n] EXCEPT !.owner = p]
<1>1. attempts[t][n] \in Attempt
  BY DEF TypeOK
<1>2. r \in Attempt /\ r.ended = attempts[t][n].ended
  BY <1>1 DEF Attempt
<1>3. attempts' = [attempts EXCEPT ![t][n] = r]
  BY DEF SetIdentity
<1> HIDE DEF r
<1>4. /\ attempts' \in [Tasks -> Seq(Attempt)]
      /\ \A u \in Tasks : Len(attempts'[u]) = Len(attempts[u]) /\ DOMAIN attempts'[u] = DOMAIN attempts[u]
      /\ \A u \in Tasks : \A m \in DOMAIN attempts[u] :
             attempts'[u][m] = IF u = t /\ m = n THEN r ELSE attempts[u][m]
  BY <1>2, <1>3, AttemptWrite, Zenon
<1>5. ~attempts[t][n].ended
  BY DEF SetIdentity
<1>6. ASSUME NEW u \in Tasks, NEW m \in DOMAIN attempts[u]
      PROVE  /\ attempts'[u][m].ended = attempts[u][m].ended
             /\ attempts[u][m].ended => attempts'[u][m] = attempts[u][m]
  <2>1. CASE u = t /\ m = n
    BY <1>2, <1>4, <1>5, <2>1
  <2>2. CASE ~(u = t /\ m = n)
    BY <1>4, <2>2
  <2> QED BY <2>1, <2>2
<1> QED BY <1>4, <1>6

(* finish() ends one open attempt.                                         *)
LEMMA FinishAttempts ==
  ASSUME TypeOK, NEW t \in Tasks, NEW n \in DOMAIN attempts[t], NEW s, Finish(t, n, s)
  PROVE  /\ attempts' \in [Tasks -> Seq(Attempt)]
         /\ \A u \in Tasks : Len(attempts'[u]) = Len(attempts[u]) /\ DOMAIN attempts'[u] = DOMAIN attempts[u]
         /\ \A u \in Tasks : \A m \in DOMAIN attempts[u] :
                u # t \/ m # n => attempts'[u][m] = attempts[u][m]
         /\ attempts'[t][n].ended
<1> DEFINE r == [attempts[t][n] EXCEPT !.ended = TRUE]
<1>1. attempts[t][n] \in Attempt
  BY DEF TypeOK
<1>2. r \in Attempt /\ r.ended
  BY <1>1, Zenon DEF Attempt
<1>3. attempts' = [attempts EXCEPT ![t][n] = r]
  BY DEF Finish
<1> HIDE DEF r
<1> QED BY <1>2, <1>3, AttemptWrite, Zenon

(* The notices of finish() are notices.                                    *)
LEMMA NoticeType ==
  /\ \A n \in Nat \ {0} : AttemptNotice(n, "incomplete") \in Notices /\ AttemptNotice(n, "completion") \in Notices
  /\ \A d \in Tasks : DependencyNotice(d) \in Notices
  BY DEF AttemptNotice, DependencyNotice, Notices

LEMMA EnqueueType ==
  ASSUME TypeOK, NEW t \in Tasks, NEW w \in Notices, Enqueue(t, w)
  PROVE  outbox' \in [Tasks -> SUBSET Notices] /\ settled' \in [Tasks -> SUBSET Notices]
  BY DEF TypeOK, Enqueue

LEMMA PublishType ==
  ASSUME TypeOK, NEW t \in Tasks, NEW p \in Payload, Publish(t, p)
  PROVE  TypeOK'
  BY DEF TypeOK, Publish, SettleAll, LiveStatus

(* Every operation keeps the store well typed.                             *)
LEMMA NextTypeOK == TypeOK /\ [Next]_storeVars => TypeOK'
<1> SUFFICES ASSUME TypeOK, [Next]_storeVars PROVE TypeOK'
  OBVIOUS
<1>1. ASSUME NEW t \in Tasks, NEW k, NEW s \in LiveStatus, ApplyUpdate(t, k, s) PROVE TypeOK'
  BY <1>1 DEF TypeOK, ApplyUpdate, wakeVars
<1>2. ASSUME NEW t \in Tasks, NEW s \in {"pending", "in_progress"}, ApplyEntry(t, s) PROVE TypeOK'
  BY <1>2 DEF TypeOK, ApplyEntry, LiveStatus, wakeVars
<1>3. ASSUME NEW t \in Tasks, NEW k, NEW p \in Payloads[t], Submit(t, k, p) PROVE TypeOK'
  BY <1>3, PublishType, PayloadAssumption DEF Submit
<1>4. ASSUME NEW t \in Tasks, NEW k, Resubmit(t, k) PROVE TypeOK'
  BY <1>4, PublishType DEF Resubmit, TypeOK
<1>5. ASSUME NEW t \in Tasks, NEW k, Resume(t, k) PROVE TypeOK'
  BY <1>5, PublishType DEF Resume, TypeOK
<1>6. ASSUME NEW t \in Tasks, NEW p \in Procs, Claim(t, p) PROVE TypeOK'
  <2>1. attempts' \in [Tasks -> Seq(Attempt)]
    BY <1>6, ClaimAttempts
  <2>2. current' \in [Tasks -> Nat]
    BY <1>6 DEF Claim, TypeOK
  <2> QED BY <1>6, <2>1, <2>2 DEF TypeOK, Claim, LiveStatus, wakeVars
<1>7. ASSUME NEW t \in Tasks, ClaimPark(t) PROVE TypeOK'
  <2>1. input[t] \in Payload
    BY <1>7 DEF ClaimPark, Claimable, RowReady, TypeOK
  <2>2. PICK d \in Tasks : Enqueue(t, DependencyNotice(d))
    BY <1>7, <2>1 DEF ClaimPark, Payload
  <2>3. outbox' \in [Tasks -> SUBSET Notices] /\ settled' \in [Tasks -> SUBSET Notices]
    BY <2>2, NoticeType, EnqueueType
  <2> QED BY <1>7, <2>3, Zenon DEF TypeOK, ClaimPark
<1>8. ASSUME NEW t \in Tasks, NEW n \in DOMAIN attempts[t], NEW p \in Procs, SetIdentity(t, n, p) PROVE TypeOK'
  BY <1>8, SetIdentityAttempts, Zenon DEF TypeOK, SetIdentity, rowVars, wakeVars
<1>9. ASSUME NEW t \in Tasks, NEW n \in DOMAIN attempts[t], NEW s \in {"pending"} \union Terminal, Finish(t, n, s)
      PROVE TypeOK'
  <2>1. n \in Nat \ {0}
    BY DEF TypeOK
  <2>2. outbox' \in [Tasks -> SUBSET Notices] /\ settled' \in [Tasks -> SUBSET Notices]
    BY <1>9, <2>1, NoticeType, EnqueueType DEF Finish, TypeOK, wakeVars
  <2>3. attempts' \in [Tasks -> Seq(Attempt)]
    BY <1>9, FinishAttempts
  <2> QED BY <1>9, <2>2, <2>3 DEF TypeOK, Finish, LiveStatus, Terminal
<1>10. ASSUME NEW t \in Tasks, NEW w \in outbox[t], Acknowledge(t, w) PROVE TypeOK'
  BY <1>10 DEF TypeOK, Acknowledge, rowVars
<1>11. ASSUME NEW a \in Animas, NEW b \in BOOLEAN, PauseClaims(a, b) PROVE TypeOK'
  BY <1>11 DEF TypeOK, PauseClaims, rowVars, wakeVars
<1>12. ASSUME NEW a \in Animas, Compact(a) PROVE TypeOK'
  BY <1>12 DEF TypeOK, Compact, wakeVars
<1>13. CASE UNCHANGED storeVars
  BY <1>13 DEF TypeOK, storeVars, rowVars, wakeVars
<1> QED
  BY <1>1, <1>2, <1>3, <1>4, <1>5, <1>6, <1>7, <1>8, <1>9, <1>10, <1>11, <1>12, <1>13 DEF Next

(* The columns of the task tables always hold values of their types.       *)
THEOREM TypeCorrectness == Spec => []TypeOK
  BY InitTypeOK, NextTypeOK, PTL DEF Spec

-----------------------------------------------------------------------------
(* The safety invariant.  Its parts lean on each other: ArchivedIsClosed   *)
(* needs OneOpenAttempt's idle rows, BatchExclusive needs the input of a   *)
(* running task to stay, NoticesOfEndedRuns needs current_attempt to name  *)
(* the newest attempt.                                                     *)

StoreInv ==
    /\ TypeOK
    /\ ReadyIsRunnable
    /\ ArchivedIsClosed
    /\ OneOpenAttempt
    /\ BatchExclusive
    /\ NoticesOfEndedRuns

LEMMA InitStoreInv == Init => StoreInv
<1> SUFFICES ASSUME Init PROVE StoreInv
  OBVIOUS
<1>1. TypeOK
  BY InitTypeOK
<1>2. \A t \in Tasks : DOMAIN attempts[t] = {} /\ Len(attempts[t]) = 0
  BY DEF Init
<1> QED
  BY <1>1, <1>2 DEF Init, StoreInv, ReadyIsRunnable, ArchivedIsClosed, OneOpenAttempt, BatchExclusive,
                   NoticesOfEndedRuns

(* A step that leaves attempts, inputs and notices alone keeps the parts   *)
(* of the invariant about them.                                            *)
LEMMA UntouchedParts ==
  ASSUME StoreInv, UNCHANGED <<input, current, attempts, outbox, settled>>
  PROVE  OneOpenAttempt' /\ BatchExclusive' /\ NoticesOfEndedRuns'
  BY DEF StoreInv, OneOpenAttempt, BatchExclusive, NoticesOfEndedRuns

LEMMA PublishInv ==
  ASSUME StoreInv, NEW t \in Tasks, NEW p \in Payload, current[t] = 0, Publish(t, p)
  PROVE  StoreInv'
<1>1. TypeOK'
  BY PublishType DEF StoreInv
<1>2. p # NoInput
  BY PayloadAssumption
<1>3. ReadyIsRunnable'
  BY <1>2 DEF StoreInv, TypeOK, ReadyIsRunnable, Publish, Terminal
<1>4. ArchivedIsClosed'
  BY DEF StoreInv, TypeOK, ArchivedIsClosed, Publish
<1>5. OneOpenAttempt'
  BY DEF StoreInv, TypeOK, OneOpenAttempt, Publish
<1>6. BatchExclusive'
  BY DEF StoreInv, TypeOK, BatchExclusive, Publish
<1>7. NoticesOfEndedRuns'
  BY DEF StoreInv, TypeOK, NoticesOfEndedRuns, Publish, SettleAll
<1> QED BY <1>1, <1>3, <1>4, <1>5, <1>6, <1>7 DEF StoreInv

(* Enqueueing a notice that may exist keeps open and settled disjoint.     *)
LEMMA EnqueueInv ==
  ASSUME StoreInv, NEW t \in Tasks, NEW w \in Notices, Enqueue(t, w)
  PROVE  \A u \in Tasks :
            /\ outbox'[u] \intersect settled'[u] = {}
            /\ outbox'[u] \union settled'[u] \subseteq outbox[u] \union settled[u] \union (IF u = t THEN {w} ELSE {})
  BY DEF StoreInv, TypeOK, NoticesOfEndedRuns, Enqueue

LEMMA ClaimInv ==
  ASSUME StoreInv, TypeOK', NEW t \in Tasks, NEW p \in Procs, Claim(t, p)
  PROVE  StoreInv'
<1>1. /\ \A u \in Tasks \ {t} : attempts'[u] = attempts[u]
      /\ Len(attempts'[t]) = Len(attempts[t]) + 1
      /\ DOMAIN attempts'[t] = DOMAIN attempts[t] \union {Len(attempts[t]) + 1}
      /\ Len(attempts[t]) + 1 \notin DOMAIN attempts[t]
      /\ \A m \in DOMAIN attempts[t] : attempts'[t][m] = attempts[t][m]
      /\ ~attempts'[t][Len(attempts[t]) + 1].ended
  BY ClaimAttempts DEF StoreInv
<1>2. /\ current'[t] = Len(attempts[t]) + 1
      /\ \A u \in Tasks \ {t} : current'[u] = current[u]
      /\ current[t] = 0
      /\ input[t] # NoInput
      /\ UNCHANGED <<input, archived, outbox, settled>>
  BY DEF Claim, Claimable, RowReady, StoreInv, TypeOK, wakeVars
<1>3. ReadyIsRunnable'
  BY <1>2 DEF StoreInv, TypeOK, ReadyIsRunnable, Claim
<1>4. ArchivedIsClosed'
  BY <1>2 DEF StoreInv, TypeOK, ReadyIsRunnable, ArchivedIsClosed, Claim, Claimable, RowReady
<1>5. ASSUME NEW u \in Tasks
      PROVE  /\ \A n \in DOMAIN attempts'[u] : attempts'[u][n].ended <=> current'[u] # n
             /\ current'[u] \in {0, Len(attempts'[u])}
             /\ current'[u] # 0 => input'[u] # NoInput
  <2>1. CASE u # t
    BY <1>1, <1>2, <2>1 DEF StoreInv, OneOpenAttempt
  <2>2. CASE u = t
    <3>1. \A n \in DOMAIN attempts[t] : attempts[t][n].ended /\ n # Len(attempts[t]) + 1
      BY <1>1, <1>2 DEF StoreInv, OneOpenAttempt, TypeOK
    <3>2. \A n \in DOMAIN attempts'[t] : attempts'[t][n].ended <=> current'[t] # n
      BY <1>1, <1>2, <3>1
    <3> QED BY <1>1, <1>2, <2>2, <3>2
  <2> QED BY <2>1, <2>2
<1>6. OneOpenAttempt'
  BY <1>5 DEF OneOpenAttempt
<1>7. ASSUME NEW u \in Tasks, u # t, Owner[u] = Owner[t], current[u] # 0,
             input[u].batch # 0, input[u].batch = input[t].batch
      PROVE  input[t].parallel /\ input[u].parallel
  BY <1>7 DEF Claim, Claimable, RowReady, BatchFree, Active
<1>8. BatchExclusive'
  BY <1>2, <1>7 DEF StoreInv, BatchExclusive
<1>9. NoticesOfEndedRuns'
  BY <1>1, <1>2 DEF StoreInv, NoticesOfEndedRuns
<1> QED BY <1>3, <1>4, <1>6, <1>8, <1>9 DEF StoreInv

LEMMA ClaimParkInv ==
  ASSUME StoreInv, TypeOK', NEW t \in Tasks, ClaimPark(t)
  PROVE  StoreInv'
<1>1. input[t] \in Payload
  BY DEF ClaimPark, Claimable, RowReady, StoreInv, TypeOK
<1>2. PICK d \in Tasks : Enqueue(t, DependencyNotice(d))
  BY <1>1 DEF ClaimPark, Payload
<1>3. UNCHANGED <<status, input, archived, current, attempts>>
  BY DEF ClaimPark
<1>4. ReadyIsRunnable' /\ ArchivedIsClosed'
  BY <1>3 DEF StoreInv, TypeOK, ReadyIsRunnable, ArchivedIsClosed, ClaimPark
<1>5. OneOpenAttempt' /\ BatchExclusive'
  BY <1>3 DEF StoreInv, OneOpenAttempt, BatchExclusive
<1>6. NoticesOfEndedRuns'
  <2>1. DependencyNotice(d).reason = "dependency_cancelled" /\ DependencyNotice(d) \in Notices
    BY NoticeType DEF DependencyNotice
  <2> QED BY <1>2, <1>3, <2>1, EnqueueInv DEF StoreInv, NoticesOfEndedRuns
<1> QED BY <1>4, <1>5, <1>6 DEF StoreInv

LEMMA FinishInv ==
  ASSUME StoreInv, TypeOK', NEW t \in Tasks, NEW n \in DOMAIN attempts[t],
         NEW s \in {"pending"} \union Terminal, Finish(t, n, s)
  PROVE  StoreInv'
<1>1. /\ \A u \in Tasks : Len(attempts'[u]) = Len(attempts[u]) /\ DOMAIN attempts'[u] = DOMAIN attempts[u]
      /\ \A u \in Tasks : \A m \in DOMAIN attempts[u] :
             u # t \/ m # n => attempts'[u][m] = attempts[u][m]
      /\ attempts'[t][n].ended
  BY FinishAttempts DEF StoreInv
<1>2. n \in Nat \ {0} /\ n \in DOMAIN attempts[t]
  BY DEF StoreInv, TypeOK
<1>3. /\ current'[t] = 0
      /\ \A u \in Tasks \ {t} : current'[u] = current[u]
      /\ current[t] = n
      /\ UNCHANGED <<input, archived>>
  BY DEF Finish, StoreInv, TypeOK
<1>4. ReadyIsRunnable'
  BY <1>3 DEF StoreInv, TypeOK, ReadyIsRunnable, Finish
<1>5. ArchivedIsClosed'
  BY <1>2, <1>3 DEF StoreInv, TypeOK, ArchivedIsClosed, Finish
<1>6. OneOpenAttempt'
  <2>1. ASSUME NEW u \in Tasks
        PROVE  /\ \A m \in DOMAIN attempts'[u] : attempts'[u][m].ended <=> current'[u] # m
               /\ current'[u] \in {0, Len(attempts'[u])}
               /\ current'[u] # 0 => input'[u] # NoInput
    <3>1. CASE u # t
      BY <1>1, <1>3, <3>1 DEF StoreInv, OneOpenAttempt
    <3>2. CASE u = t
      <4>1. \A m \in DOMAIN attempts[t] : m # 0 /\ attempts'[t][m].ended
        <5> SUFFICES ASSUME NEW m \in DOMAIN attempts[t] PROVE m # 0 /\ attempts'[t][m].ended
          OBVIOUS
        <5>1. m # 0
          BY DEF StoreInv, TypeOK
        <5>2. CASE m = n
          BY <1>1, <5>1, <5>2
        <5>3. CASE m # n
          <6>1. attempts[t][m].ended /\ attempts'[t][m] = attempts[t][m]
            BY <1>1, <1>3, <5>3 DEF StoreInv, OneOpenAttempt
          <6> QED BY <5>1, <6>1
        <5> QED BY <5>2, <5>3
      <4> QED BY <1>1, <1>3, <3>2, <4>1
    <3> QED BY <3>1, <3>2
  <2> QED BY <2>1 DEF OneOpenAttempt
<1>7. BatchExclusive'
  BY <1>3 DEF StoreInv, BatchExclusive
<1>8. NoticesOfEndedRuns'
  <2>1. \/ UNCHANGED <<outbox, settled>>
        \/ \E w \in Notices : w.of = n /\ Enqueue(t, w)
    BY <1>2, NoticeType DEF Finish, AttemptNotice, wakeVars
  <2>2. CASE UNCHANGED <<outbox, settled>>
    BY <1>1, <1>2, <1>3, <2>2 DEF StoreInv, NoticesOfEndedRuns, TypeOK
  <2>3. ASSUME NEW w \in Notices, w.of = n, Enqueue(t, w) PROVE NoticesOfEndedRuns'
    <3>1. ASSUME NEW u \in Tasks
          PROVE  /\ outbox'[u] \intersect settled'[u] = {}
                 /\ outbox'[u] \union settled'[u] \subseteq
                        outbox[u] \union settled[u] \union (IF u = t THEN {w} ELSE {})
      BY <2>3, EnqueueInv
    <3>2. \A u \in Tasks : \A v \in outbox[u] \union settled[u] : v.reason # "dependency_cancelled" =>
              v.of \in DOMAIN attempts'[u] /\ v.of # current'[u]
      BY <1>1, <1>2, <1>3 DEF StoreInv, NoticesOfEndedRuns, TypeOK
    <3> QED BY <1>1, <1>2, <1>3, <2>3, <3>1, <3>2 DEF NoticesOfEndedRuns
  <2> QED BY <2>1, <2>2, <2>3
<1> QED BY <1>4, <1>5, <1>6, <1>7, <1>8 DEF StoreInv

(* Every operation keeps the safety invariant.                             *)
LEMMA NextStoreInv == StoreInv /\ [Next]_storeVars => StoreInv'
<1> SUFFICES ASSUME StoreInv, [Next]_storeVars PROVE StoreInv'
  OBVIOUS
<1>0. TypeOK /\ TypeOK'
  BY NextTypeOK DEF StoreInv
<1>1. ASSUME NEW t \in Tasks, NEW k, NEW s \in LiveStatus, ApplyUpdate(t, k, s) PROVE StoreInv'
  <2>1. OneOpenAttempt' /\ BatchExclusive' /\ NoticesOfEndedRuns'
    BY <1>1, UntouchedParts DEF ApplyUpdate, wakeVars
  <2>2. ReadyIsRunnable'
    BY <1>1 DEF ApplyUpdate, Accepts, StoreInv, TypeOK, ReadyIsRunnable, LiveStatus
  <2>3. ArchivedIsClosed'
    BY <1>1 DEF ApplyUpdate, StoreInv, TypeOK, ArchivedIsClosed
  <2> QED BY <1>0, <2>1, <2>2, <2>3 DEF StoreInv
<1>2. ASSUME NEW t \in Tasks, NEW s \in {"pending", "in_progress"}, ApplyEntry(t, s) PROVE StoreInv'
  <2>1. OneOpenAttempt' /\ BatchExclusive' /\ NoticesOfEndedRuns'
    BY <1>2, UntouchedParts DEF ApplyEntry, wakeVars
  <2>2. ReadyIsRunnable'
    BY <1>2 DEF ApplyEntry, StoreInv, TypeOK, ReadyIsRunnable, Terminal
  <2>3. ArchivedIsClosed'
    BY <1>2 DEF ApplyEntry, StoreInv, TypeOK, ArchivedIsClosed
  <2> QED BY <1>0, <2>1, <2>2, <2>3 DEF StoreInv
<1>3. ASSUME NEW t \in Tasks, NEW k, NEW p \in Payloads[t], Submit(t, k, p) PROVE StoreInv'
  BY <1>3, PublishInv, PayloadAssumption DEF Submit
<1>4. ASSUME NEW t \in Tasks, NEW k, Resubmit(t, k) PROVE StoreInv'
  BY <1>0, <1>4, PublishInv DEF Resubmit, TypeOK
<1>5. ASSUME NEW t \in Tasks, NEW k, Resume(t, k) PROVE StoreInv'
  BY <1>0, <1>5, PublishInv DEF Resume, TypeOK
<1>6. ASSUME NEW t \in Tasks, NEW p \in Procs, Claim(t, p) PROVE StoreInv'
  BY <1>0, <1>6, ClaimInv
<1>7. ASSUME NEW t \in Tasks, ClaimPark(t) PROVE StoreInv'
  BY <1>0, <1>7, ClaimParkInv
<1>8. ASSUME NEW t \in Tasks, NEW n \in DOMAIN attempts[t], NEW p \in Procs, SetIdentity(t, n, p)
      PROVE  StoreInv'
  <2>1. /\ \A u \in Tasks : Len(attempts'[u]) = Len(attempts[u]) /\ DOMAIN attempts'[u] = DOMAIN attempts[u]
        /\ \A u \in Tasks : \A m \in DOMAIN attempts[u] : attempts'[u][m].ended = attempts[u][m].ended
    BY <1>0, <1>8, SetIdentityAttempts
  <2>2. UNCHANGED <<status, input, ready, archived, current, outbox, settled>>
    BY <1>8 DEF SetIdentity, rowVars, wakeVars
  <2>3. ReadyIsRunnable' /\ ArchivedIsClosed' /\ BatchExclusive'
    BY <2>2 DEF StoreInv, ReadyIsRunnable, ArchivedIsClosed, BatchExclusive
  <2>4. OneOpenAttempt'
    <3>1. SUFFICES ASSUME NEW u \in Tasks
                   PROVE  /\ \A m \in DOMAIN attempts'[u] : attempts'[u][m].ended <=> current[u] # m
                          /\ current[u] \in {0, Len(attempts'[u])}
                          /\ current[u] # 0 => input[u] # NoInput
      BY <2>2 DEF OneOpenAttempt
    <3>2. \A m \in DOMAIN attempts[u] : attempts[u][m].ended <=> current[u] # m
      BY DEF StoreInv, OneOpenAttempt
    <3>3. \A m \in DOMAIN attempts'[u] : attempts'[u][m].ended <=> current[u] # m
      BY <2>1, <3>2
    <3>4. current[u] \in {0, Len(attempts[u])} /\ (current[u] # 0 => input[u] # NoInput)
      BY DEF StoreInv, OneOpenAttempt
    <3> QED BY <2>1, <3>3, <3>4
  <2>5. NoticesOfEndedRuns'
    BY <2>1, <2>2 DEF StoreInv, NoticesOfEndedRuns
  <2> QED BY <1>0, <2>3, <2>4, <2>5 DEF StoreInv
<1>9. ASSUME NEW t \in Tasks, NEW n \in DOMAIN attempts[t], NEW s \in {"pending"} \union Terminal, Finish(t, n, s)
      PROVE  StoreInv'
  BY <1>0, <1>9, FinishInv
<1>10. ASSUME NEW t \in Tasks, NEW w \in outbox[t], Acknowledge(t, w) PROVE StoreInv'
  <2>1. UNCHANGED <<status, input, ready, archived, current, attempts>>
    BY <1>10 DEF Acknowledge, rowVars
  <2>2. ReadyIsRunnable' /\ ArchivedIsClosed' /\ OneOpenAttempt' /\ BatchExclusive'
    BY <2>1 DEF StoreInv, ReadyIsRunnable, ArchivedIsClosed, OneOpenAttempt, BatchExclusive
  <2>3. NoticesOfEndedRuns'
    BY <1>10, <2>1 DEF StoreInv, NoticesOfEndedRuns, Acknowledge, TypeOK
  <2> QED BY <1>0, <2>2, <2>3 DEF StoreInv
<1>11. ASSUME NEW a \in Animas, NEW b \in BOOLEAN, PauseClaims(a, b) PROVE StoreInv'
  BY <1>0, <1>11 DEF PauseClaims, rowVars, wakeVars, StoreInv, ReadyIsRunnable, ArchivedIsClosed, OneOpenAttempt,
                     BatchExclusive, NoticesOfEndedRuns
<1>12. ASSUME NEW a \in Animas, Compact(a) PROVE StoreInv'
  <2>1. OneOpenAttempt' /\ BatchExclusive' /\ NoticesOfEndedRuns'
    BY <1>12, UntouchedParts DEF Compact, wakeVars
  <2>2. ReadyIsRunnable' /\ ArchivedIsClosed'
    BY <1>12 DEF Compact, StoreInv, TypeOK, ReadyIsRunnable, ArchivedIsClosed
  <2> QED BY <1>0, <2>1, <2>2 DEF StoreInv
<1>13. CASE UNCHANGED storeVars
  BY <1>0, <1>13 DEF storeVars, rowVars, wakeVars, StoreInv, ReadyIsRunnable, ArchivedIsClosed, OneOpenAttempt,
                     BatchExclusive, NoticesOfEndedRuns
<1> QED
  BY <1>1, <1>2, <1>3, <1>4, <1>5, <1>6, <1>7, <1>8, <1>9, <1>10, <1>11, <1>12, <1>13 DEF Next

(* What the theorems below rest on: StoreInv holds in every behaviour.     *)
LEMMA StoreInvHolds == Spec => []StoreInv
  BY InitStoreInv, NextStoreInv, PTL DEF Spec

(* The ready queue of pending() holds only tasks that can be run.          *)
THEOREM ReadyRunnable == Spec => []ReadyIsRunnable
<1>1. StoreInv => ReadyIsRunnable
  BY DEF StoreInv
<1> QED BY <1>1, StoreInvHolds, PTL

(* compact() hides no unfinished work, and what it hid is not revived      *)
(* behind its flag.                                                        *)
THEOREM ArchivedClosed == Spec => []ArchivedIsClosed
<1>1. StoreInv => ArchivedIsClosed
  BY DEF StoreInv
<1> QED BY <1>1, StoreInvHolds, PTL

(* The task row and the attempt table agree on the running attempt,        *)
(* whatever calls of claim(), finish() and recovery interleave.            *)
THEOREM AttemptsAgree == Spec => []OneOpenAttempt
<1>1. StoreInv => OneOpenAttempt
  BY DEF StoreInv
<1> QED BY <1>1, StoreInvHolds, PTL

(* claim() keeps a serial task of a batch alone, whichever task of the     *)
(* batch came first.                                                       *)
THEOREM BatchesExclude == Spec => []BatchExclusive
<1>1. StoreInv => BatchExclusive
  BY DEF StoreInv
<1> QED BY <1>1, StoreInvHolds, PTL

(* No notice of a run can be swallowed by the INSERT OR IGNORE of          *)
(* finish(): what is in the table is about runs that are over.             *)
THEOREM NoticesConsistent == Spec => []NoticesOfEndedRuns
<1>1. StoreInv => NoticesOfEndedRuns
  BY DEF StoreInv
<1> QED BY <1>1, StoreInvHolds, PTL

=============================================================================
