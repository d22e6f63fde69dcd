------------------------- MODULE TaskLifecycleProofs -------------------------
(***************************************************************************)
(* Proofs that the task store never overruns the worker pool, that cancels *)
(* stick and history is append-only, and that the store implements the     *)
(* lifecycle of TaskLifecycle.                                             *)
(***************************************************************************)
EXTENDS TaskStoreProofs, FiniteSetTheorems

-----------------------------------------------------------------------------
(* The worker pool.                                                        *)

LEMMA ActiveFinite == \A a \in Animas : IsFiniteSet(Active(a))
  BY TasksAssumption, FS_Subset DEF Active

(* claim() counted fewer than MaxActive rows and adds one.                 *)
LEMMA ClaimActive ==
  ASSUME TypeOK, ActiveBounded, NEW t \in Tasks, NEW p \in Procs, Claim(t, p)
  PROVE  ActiveBounded'
<1> SUFFICES ASSUME NEW a \in Animas PROVE Cardinality(Active(a)') <= MaxActive
  BY DEF ActiveBounded
<1>1. IsFiniteSet(Active(a)) /\ Cardinality(Active(a)) \in Nat
  BY ActiveFinite, FS_CardinalityType
<1>2. Len(attempts[t]) + 1 # 0
  BY DEF TypeOK
<1>3. CASE Owner[t] = a
  <2>1. Active(a)' = Active(a) \union {t} /\ t \notin Active(a)
    BY <1>2, <1>3 DEF Active, Claim, Claimable, RowReady, TypeOK
  <2>2. Cardinality(Active(a)') = Cardinality(Active(a)) + 1
    BY <1>1, <2>1, FS_AddElement, Zenon
  <2>3. Cardinality(Active(a)) < MaxActive
    BY <1>3 DEF Claim, Claimable, RowReady
  <2> QED BY <1>1, <2>2, <2>3, BoundAssumption
<1>4. CASE Owner[t] # a
  <2>1. Active(a)' = Active(a)
    BY <1>4 DEF Active, Claim, TypeOK
  <2> QED BY <2>1 DEF ActiveBounded
<1> QED BY <1>3, <1>4

(* No other operation adds a running task.                                 *)
LEMMA OtherActive ==
  ASSUME ActiveBounded, \A u \in Tasks : current'[u] # 0 => current[u] # 0
  PROVE  ActiveBounded'
<1> SUFFICES ASSUME NEW a \in Animas PROVE Cardinality(Active(a)') <= MaxActive
  BY DEF ActiveBounded
<1>1. Active(a)' \subseteq Active(a)
  BY DEF Active
<1>2. /\ IsFiniteSet(Active(a)') /\ Cardinality(Active(a)') <= Cardinality(Active(a))
      /\ Cardinality(Active(a)) \in Nat /\ Cardinality(Active(a)') \in Nat
  BY <1>1, ActiveFinite, FS_Subset, FS_CardinalityType
<1>3. Cardinality(Active(a)) <= MaxActive
  BY DEF ActiveBounded
<1> QED BY <1>2, <1>3, BoundAssumption

(* No anima ever has more running attempts than its worker pool, however   *)
(* claims and ends interleave.                                             *)
THEOREM PoolBound == Spec => []ActiveBounded
<1>1. Init => ActiveBounded
  <2> SUFFICES ASSUME Init PROVE \A a \in Animas : Active(a) = {}
    BY FS_EmptySet, BoundAssumption DEF ActiveBounded
  <2> QED BY DEF Init, Active
<1>2. TypeOK /\ ActiveBounded /\ [Next]_storeVars => ActiveBounded'
  <2> SUFFICES ASSUME TypeOK, ActiveBounded, [Next]_storeVars PROVE ActiveBounded'
    OBVIOUS
  <2>1. ASSUME NEW t \in Tasks, NEW p \in Procs, Claim(t, p) PROVE ActiveBounded'
    BY <2>1, ClaimActive
  <2>2. ASSUME NEW t \in Tasks, NEW n, NEW s, Finish(t, n, s) PROVE ActiveBounded'
    <3>1. \A u \in Tasks : current'[u] # 0 => current[u] # 0
      BY <2>2 DEF Finish, TypeOK
    <3> QED BY <3>1, OtherActive
  <2>3. CASE UNCHANGED current
    BY <2>3, OtherActive
  <2> QED
    BY <2>1, <2>2, <2>3 DEF Next, ApplyUpdate, ApplyEntry, Submit, Resubmit, Resume, Publish, ClaimPark,
                            SetIdentity, Acknowledge, PauseClaims, Compact, storeVars, rowVars
<1> QED BY <1>1, <1>2, TypeCorrectness, PTL DEF Spec

-----------------------------------------------------------------------------
(* Action properties.                                                      *)

(* A cancel recorded while an attempt runs is not undone by anything the   *)
(* attempt, a stale one, an outside caller or finish() does.               *)
THEOREM CancelStays == Spec => CancelSticks
<1>1. TypeOK /\ [Next]_storeVars =>
        [\A t \in Tasks : status[t] = "cancelled" /\ current[t] # 0 => status'[t] = "cancelled"]_storeVars
  <2> SUFFICES ASSUME TypeOK, Next, NEW u \in Tasks, status[u] = "cancelled", current[u] # 0
               PROVE  status'[u] = "cancelled"
    BY DEF storeVars
  <2>1. ASSUME NEW t \in Tasks, NEW k, NEW s, ApplyUpdate(t, k, s) PROVE status'[u] = "cancelled"
    BY <2>1 DEF ApplyUpdate, Accepts, TypeOK
  <2>2. ASSUME NEW t \in Tasks, NEW s, ApplyEntry(t, s) PROVE status'[u] = "cancelled"
    BY <2>2 DEF ApplyEntry, TypeOK
  <2>3. ASSUME NEW t \in Tasks, NEW p, current[t] = 0, Publish(t, p) PROVE status'[u] = "cancelled"
    BY <2>3 DEF Publish, TypeOK
  <2>4. ASSUME NEW t \in Tasks, NEW p, Claim(t, p) PROVE status'[u] = "cancelled"
    BY <2>4 DEF Claim, Claimable, RowReady, TypeOK
  <2>5. ASSUME NEW t \in Tasks, NEW n, NEW s, Finish(t, n, s) PROVE status'[u] = "cancelled"
    BY <2>5 DEF Finish, TypeOK
  <2>6. CASE UNCHANGED status
    BY <2>6
  <2> QED
    BY <2>1, <2>2, <2>3, <2>4, <2>5, <2>6 DEF Next, Submit, Resubmit, Resume, ClaimPark, SetIdentity, Acknowledge,
                                              PauseClaims, Compact, rowVars
<1> QED BY <1>1, TypeCorrectness, PTL DEF Spec, CancelSticks

(* The record of an ended attempt never changes, and no attempt is lost.   *)
THEOREM HistoryKept == Spec => HistoryAppendOnly
<1>1. StoreInv /\ [Next]_storeVars =>
        [\A t \in Tasks : \A n \in DOMAIN attempts[t] :
            /\ n \in DOMAIN attempts'[t]
            /\ attempts[t][n].ended => attempts'[t][n] = attempts[t][n]]_storeVars
  <2> SUFFICES ASSUME StoreInv, Next, NEW u \in Tasks, NEW m \in DOMAIN attempts[u]
               PROVE  /\ m \in DOMAIN attempts'[u]
                      /\ attempts[u][m].ended => attempts'[u][m] = attempts[u][m]
    BY DEF storeVars
  <2> DEFINE Kept == m \in DOMAIN attempts'[u] /\ (attempts[u][m].ended => attempts'[u][m] = attempts[u][m])
  <2>1. ASSUME NEW t \in Tasks, NEW p \in Procs, Claim(t, p) PROVE Kept
    BY <2>1, ClaimAttempts DEF StoreInv
  <2>2. ASSUME NEW t \in Tasks, NEW n \in DOMAIN attempts[t], NEW p \in Procs, SetIdentity(t, n, p) PROVE Kept
    BY <2>2, SetIdentityAttempts DEF StoreInv
  <2>3. ASSUME NEW t \in Tasks, NEW n \in DOMAIN attempts[t], NEW s, Finish(t, n, s) PROVE Kept
    <3>1. m \in DOMAIN attempts'[u] /\ (u # t \/ m # n => attempts'[u][m] = attempts[u][m])
      BY <2>3, FinishAttempts DEF StoreInv
    <3>2. ~attempts[t][n].ended
      BY <2>3 DEF Finish
    <3> QED BY <3>1, <3>2
  <2>4. CASE UNCHANGED attempts
    BY <2>4
  <2> QED
    BY <2>1, <2>2, <2>3, <2>4 DEF Next, ApplyUpdate, ApplyEntry, Submit, Resubmit, Resume, Publish, ClaimPark,
                                  Acknowledge, PauseClaims, Compact
<1> QED BY <1>1, InitStoreInv, NextStoreInv, PTL DEF Spec, HistoryAppendOnly

-----------------------------------------------------------------------------
(* Refinement.                                                             *)

(* Notices of different runs, or of different kinds, differ.               *)
LEMMA NoticesDiffer ==
  ASSUME NEW n, NEW m
  PROVE  /\ AttemptNotice(n, "incomplete") # AttemptNotice(m, "completion")
         /\ AttemptNotice(n, "incomplete") = AttemptNotice(m, "incomplete") => n = m
         /\ AttemptNotice(n, "incomplete").reason = "incomplete"
         /\ AttemptNotice(n, "incomplete").of = n
         /\ \A d : AttemptNotice(n, "incomplete") # DependencyNotice(d)
<1>1. /\ AttemptNotice(n, "incomplete").reason = "incomplete"
      /\ AttemptNotice(n, "incomplete").of = n
      /\ AttemptNotice(m, "incomplete").of = m
      /\ AttemptNotice(m, "completion").reason = "completion"
      /\ \A d : DependencyNotice(d).reason = "dependency_cancelled"
  BY DEF AttemptNotice, DependencyNotice
<1> QED BY <1>1

LEMMA InitRefines == Init => Lifecycle!Init
<1> SUFFICES ASSUME Init PROVE Lifecycle!Init
  OBVIOUS
<1>1. Phase = [t \in Tasks |-> "idle"] /\ Verdict = [t \in Tasks |-> "open"]
  BY DEF Init, Phase, Verdict, Terminal
<1>2. \A t \in Tasks : Len(attempts[t]) = 0 /\ outbox[t] = {}
  BY DEF Init
<1>3. Runs = [t \in Tasks |-> 0] /\ Owed = [t \in Tasks |-> {}]
  BY <1>2 DEF Runs, Owed
<1> QED BY <1>1, <1>3 DEF Lifecycle!Init

LEMMA PublishRefines ==
  ASSUME StoreInv, NEW t \in Tasks, NEW p, current[t] = 0, Publish(t, p)
  PROVE  Lifecycle!Grant(t)
<1>1. Phase[t] # "running" /\ Phase' = [Phase EXCEPT ![t] = "queued"]
  BY Zenon DEF Phase, Publish, StoreInv, TypeOK
<1>2. Verdict' = [Verdict EXCEPT ![t] = "open"]
  BY Zenon DEF Verdict, Publish, StoreInv, TypeOK, Terminal
<1>3. Owed' = [Owed EXCEPT ![t] = {}] /\ UNCHANGED Runs
  BY Zenon DEF Owed, Runs, Publish, SettleAll, StoreInv, TypeOK
<1> QED BY <1>1, <1>2, <1>3 DEF Lifecycle!Grant

LEMMA UpdateRefines ==
  ASSUME StoreInv, NEW t \in Tasks, NEW k, NEW s \in LiveStatus, ApplyUpdate(t, k, s)
  PROVE  \E v \in {"open", "done", "cancelled"} : Lifecycle!Declare(t, v)
<1> DEFINE v == IF s \in Terminal THEN s ELSE "open"
<1>1. v \in {"open", "done", "cancelled"} /\ (v # "open" <=> s \in Terminal)
  BY DEF Terminal
<1>2. Verdict' = [Verdict EXCEPT ![t] = v]
  BY Zenon DEF Verdict, ApplyUpdate, StoreInv, TypeOK
<1>3. Verdict[t] = "cancelled" => v = "cancelled" \/ (v = "open" /\ Phase[t] # "running")
  BY DEF Verdict, Phase, ApplyUpdate, Accepts, StoreInv, TypeOK, Terminal
<1>4. UNCHANGED <<Runs, Owed>>
  BY DEF Runs, Owed, ApplyUpdate, wakeVars
<1>5. Phase' = [Phase EXCEPT ![t] = IF @ = "queued" /\ v # "open" THEN "idle" ELSE @]
  <2>1. UNCHANGED current /\ ready' = [ready EXCEPT ![t] = @ /\ s \notin Terminal]
    BY DEF ApplyUpdate
  <2>2. Phase'[t] = IF Phase[t] = "queued" /\ v # "open" THEN "idle" ELSE Phase[t]
    BY <1>1, <2>1, Zenon DEF Phase, StoreInv, TypeOK
  <2>3. \A u \in Tasks : u # t => Phase'[u] = Phase[u]
    BY <2>1 DEF Phase, StoreInv, TypeOK
  <2> QED BY <2>2, <2>3, Zenon DEF Phase
<1> HIDE DEF v
<1> QED BY <1>1, <1>2, <1>3, <1>4, <1>5, Zenon DEF Lifecycle!Declare

LEMMA EntryRefines ==
  ASSUME StoreInv, NEW t \in Tasks, NEW s \in {"pending", "in_progress"}, ApplyEntry(t, s)
  PROVE  Lifecycle!Declare(t, "open")
<1>1. Verdict' = [Verdict EXCEPT ![t] = "open"]
  BY Zenon DEF Verdict, ApplyEntry, StoreInv, TypeOK, Terminal
<1>2. Phase[t] = "idle" /\ UNCHANGED Phase
  BY DEF Phase, ApplyEntry, StoreInv, ReadyIsRunnable
<1>3. UNCHANGED <<Runs, Owed>>
  BY DEF Runs, Owed, ApplyEntry, wakeVars
<1>4. Phase' = [Phase EXCEPT ![t] = IF @ = "queued" /\ "open" # "open" THEN "idle" ELSE @]
  BY <1>2 DEF Phase
<1> QED BY <1>1, <1>2, <1>3, <1>4, Zenon DEF Lifecycle!Declare

LEMMA ClaimRefines ==
  ASSUME StoreInv, NEW t \in Tasks, NEW p \in Procs, Claim(t, p)
  PROVE  Lifecycle!Start(t)
<1>1. /\ \A u \in Tasks \ {t} : attempts'[u] = attempts[u]
      /\ Len(attempts'[t]) = Len(attempts[t]) + 1
      /\ DOMAIN attempts'[t] = DOMAIN attempts[t] \union {Len(attempts[t]) + 1}
      /\ Len(attempts[t]) + 1 \notin DOMAIN attempts[t]
  BY ClaimAttempts DEF StoreInv
<1>2. Phase[t] = "queued" /\ Verdict[t] = "open"
  BY DEF Claim, Claimable, RowReady, Phase, Verdict, Terminal
<1>3. Phase' = [Phase EXCEPT ![t] = "running"]
  <2>1. Len(attempts[t]) + 1 # 0
    BY DEF StoreInv, TypeOK
  <2> QED BY <2>1, Zenon DEF Phase, Claim, StoreInv, TypeOK
<1>4. UNCHANGED Verdict
  BY DEF Verdict, Claim, Claimable, RowReady, StoreInv, TypeOK, Terminal
<1>5. Runs' = [Runs EXCEPT ![t] = @ + 1]
  BY <1>1, Zenon DEF Runs
<1>6. UNCHANGED Owed
  <2>1. outbox' = outbox
    BY DEF Claim, wakeVars
  <2>2. AttemptNotice(Len(attempts[t]) + 1, "incomplete") \notin outbox[t]
    <3> SUFFICES ASSUME AttemptNotice(Len(attempts[t]) + 1, "incomplete") \in outbox[t]
                 PROVE  FALSE
      OBVIOUS
    <3> DEFINE w == AttemptNotice(Len(attempts[t]) + 1, "incomplete")
    <3>1. w.reason = "incomplete" /\ w.of = Len(attempts[t]) + 1
      BY NoticesDiffer
    <3> HIDE DEF w
    <3>2. w \in outbox[t] \union settled[t]
      BY DEF w
    <3>3. w.of \in DOMAIN attempts[t]
      BY <3>1, <3>2 DEF StoreInv, NoticesOfEndedRuns
    <3> QED BY <1>1, <3>1, <3>3
  <2> QED BY <1>1, <2>1, <2>2 DEF Owed
<1> QED BY <1>2, <1>3, <1>4, <1>5, <1>6 DEF Lifecycle!Start

LEMMA ParkRefines ==
  ASSUME StoreInv, NEW t \in Tasks, ClaimPark(t)
  PROVE  Lifecycle!Withdraw(t)
<1>1. PICK d : Enqueue(t, DependencyNotice(d))
  BY DEF ClaimPark
<1>2. Phase[t] = "queued" /\ Phase' = [Phase EXCEPT ![t] = "idle"]
  BY Zenon DEF Phase, ClaimPark, Claimable, RowReady, StoreInv, TypeOK
<1>3. UNCHANGED <<Verdict, Runs>>
  BY DEF Verdict, Runs, ClaimPark
<1>4. UNCHANGED Owed
  <2>1. \A u \in Tasks : \A n : AttemptNotice(n, "incomplete") \in outbox'[u] <=> AttemptNotice(n, "incomplete") \in outbox[u]
    BY <1>1, NoticesDiffer, Zenon DEF Enqueue, StoreInv, TypeOK
  <2> QED BY <2>1 DEF Owed, ClaimPark
<1> QED BY <1>2, <1>3, <1>4 DEF Lifecycle!Withdraw

LEMMA FinishRefines ==
  ASSUME StoreInv, NEW t \in Tasks, NEW n \in DOMAIN attempts[t],
         NEW s \in {"pending"} \union Terminal, Finish(t, n, s)
  PROVE  \E v \in {"open", "done", "cancelled"} : Lifecycle!Stop(t, v)
<1> DEFINE outcome == IF status[t] = "cancelled" THEN "cancelled" ELSE s
           v == IF outcome \in Terminal THEN outcome ELSE "open"
<1>1. \A u \in Tasks : Len(attempts'[u]) = Len(attempts[u]) /\ DOMAIN attempts'[u] = DOMAIN attempts[u]
  BY FinishAttempts DEF StoreInv
<1>2. n # 0 /\ n = Len(attempts[t])
  BY DEF Finish, StoreInv, TypeOK, OneOpenAttempt
<1>3. v \in {"open", "done", "cancelled"} /\ (v = "open" <=> outcome = "pending")
  BY DEF Terminal
<1>4. Phase[t] = "running" /\ Phase' = [Phase EXCEPT ![t] = "idle"]
  BY <1>2, Zenon DEF Phase, Finish, StoreInv, TypeOK
<1>5. Verdict' = [Verdict EXCEPT ![t] = v] /\ (Verdict[t] = "cancelled" => v = "cancelled")
  BY Zenon DEF Verdict, Finish, StoreInv, TypeOK, Terminal
<1>6. UNCHANGED Runs /\ Runs[t] = n
  BY <1>1, <1>2 DEF Runs
<1>7. Owed' = [Owed EXCEPT ![t] = IF v = "open" THEN @ \union {n} ELSE @]
  <2>1. CASE outcome = "pending"
    <3>1. Enqueue(t, AttemptNotice(n, "incomplete"))
      BY <2>1 DEF Finish
    <3>2. AttemptNotice(n, "incomplete") \notin settled[t]
      BY NoticesDiffer, Zenon DEF Finish, StoreInv, NoticesOfEndedRuns
    <3>3. outbox'[t] = outbox[t] \union {AttemptNotice(n, "incomplete")} /\ \A u \in Tasks \ {t} : outbox'[u] = outbox[u]
      BY <3>1, <3>2 DEF Enqueue, StoreInv, TypeOK
    <3>4. \A m : AttemptNotice(m, "incomplete") \in outbox'[t] <=> m = n \/ AttemptNotice(m, "incomplete") \in outbox[t]
      BY <3>3, NoticesDiffer
    <3>5. Owed'[t] = Owed[t] \union {n}
      BY <1>1, <3>4 DEF Owed
    <3>6. \A u \in Tasks \ {t} : Owed'[u] = Owed[u]
      BY <1>1, <3>3 DEF Owed
    <3> QED BY <1>3, <2>1, <3>5, <3>6, Zenon DEF Owed
  <2>2. CASE outcome # "pending"
    <3>1. \/ UNCHANGED outbox
          \/ Enqueue(t, AttemptNotice(n, "completion"))
      BY <2>2 DEF Finish, wakeVars
    <3>2. \A u \in Tasks : \A m : AttemptNotice(m, "incomplete") \in outbox'[u] <=> AttemptNotice(m, "incomplete") \in outbox[u]
      <4>1. CASE Enqueue(t, AttemptNotice(n, "completion"))
        <5>1. \A u \in Tasks : outbox'[u] \in {outbox[u], outbox[u] \union {AttemptNotice(n, "completion")}}
          BY <4>1 DEF Enqueue, StoreInv, TypeOK
        <5> QED BY <5>1, NoticesDiffer
      <4> QED BY <3>1, <4>1
    <3>3. Owed' = Owed
      BY <1>1, <3>2 DEF Owed
    <3> QED BY <1>3, <2>2, <3>3, Zenon DEF Owed
  <2> QED BY <2>1, <2>2
<1> HIDE DEF v
<1> QED BY <1>3, <1>4, <1>5, <1>6, <1>7, Zenon DEF Lifecycle!Stop

LEMMA AcknowledgeRefines ==
  ASSUME StoreInv, NEW t \in Tasks, NEW w \in outbox[t], Acknowledge(t, w)
  PROVE  (\E n \in Owed[t] : Lifecycle!Attend(t, n)) \/ UNCHANGED <<Phase, Verdict, Runs, Owed>>
<1>1. UNCHANGED <<Phase, Verdict, Runs>>
  BY DEF Phase, Verdict, Runs, Acknowledge, rowVars
<1>2. outbox'[t] = outbox[t] \ {w} /\ (\A u \in Tasks \ {t} : outbox'[u] = outbox[u]) /\ UNCHANGED attempts
  BY DEF Acknowledge, StoreInv, TypeOK
<1>3. CASE \E n \in DOMAIN attempts[t] : w = AttemptNotice(n, "incomplete")
  <2>1. PICK n \in DOMAIN attempts[t] : w = AttemptNotice(n, "incomplete")
    BY <1>3
  <2>2. n \in Owed[t]
    BY <2>1 DEF Owed
  <2>3. Owed'[t] = Owed[t] \ {n} /\ \A u \in Tasks \ {t} : Owed'[u] = Owed[u]
    <3>1. \A m : AttemptNotice(m, "incomplete") \in outbox'[t] <=> m # n /\ AttemptNotice(m, "incomplete") \in outbox[t]
      BY <1>2, <2>1, NoticesDiffer
    <3> QED BY <1>2, <3>1 DEF Owed
  <2>4. Owed' = [Owed EXCEPT ![t] = @ \ {n}]
    BY <2>3, Zenon DEF Owed
  <2> QED BY <1>1, <2>2, <2>4, Zenon DEF Lifecycle!Attend
<1>4. CASE ~\E n \in DOMAIN attempts[t] : w = AttemptNotice(n, "incomplete")
  <2>1. UNCHANGED Owed
    BY <1>2, <1>4 DEF Owed
  <2> QED BY <1>1, <2>1
<1> QED BY <1>3, <1>4

(* Every store operation is a step of the lifecycle or invisible to it.    *)
LEMMA StepRefines == StoreInv /\ [Next]_storeVars => [Lifecycle!Next]_(Lifecycle!vars)
<1> SUFFICES ASSUME StoreInv, [Next]_storeVars PROVE Lifecycle!Next \/ UNCHANGED <<Phase, Verdict, Runs, Owed>>
  BY DEF Lifecycle!vars
<1> DEFINE Goal == Lifecycle!Next \/ UNCHANGED <<Phase, Verdict, Runs, Owed>>
<1>1. ASSUME NEW t \in Tasks, NEW k, NEW s \in LiveStatus, ApplyUpdate(t, k, s) PROVE Goal
  BY <1>1, UpdateRefines DEF Lifecycle!Next
<1>2. ASSUME NEW t \in Tasks, NEW s \in {"pending", "in_progress"}, ApplyEntry(t, s) PROVE Goal
  BY <1>2, EntryRefines DEF Lifecycle!Next
<1>3. ASSUME NEW t \in Tasks, NEW p, current[t] = 0, Publish(t, p) PROVE Goal
  BY <1>3, PublishRefines DEF Lifecycle!Next
<1>4. ASSUME NEW t \in Tasks, NEW p \in Procs, Claim(t, p) PROVE Goal
  BY <1>4, ClaimRefines DEF Lifecycle!Next
<1>5. ASSUME NEW t \in Tasks, ClaimPark(t) PROVE Goal
  BY <1>5, ParkRefines DEF Lifecycle!Next
<1>6. ASSUME NEW t \in Tasks, NEW n \in DOMAIN attempts[t], NEW p \in Procs, SetIdentity(t, n, p) PROVE Goal
  <2>1. \A u \in Tasks : Len(attempts'[u]) = Len(attempts[u]) /\ DOMAIN attempts'[u] = DOMAIN attempts[u]
    BY <1>6, SetIdentityAttempts DEF StoreInv
  <2>2. UNCHANGED <<status, current, ready, outbox>>
    BY <1>6 DEF SetIdentity, rowVars, wakeVars
  <2> QED BY <2>1, <2>2 DEF Phase, Verdict, Runs, Owed
<1>7. ASSUME NEW t \in Tasks, NEW n \in DOMAIN attempts[t], NEW s \in {"pending"} \union Terminal, Finish(t, n, s)
      PROVE  Goal
  BY <1>7, FinishRefines DEF Lifecycle!Next
<1>8. ASSUME NEW t \in Tasks, NEW w \in outbox[t], Acknowledge(t, w) PROVE Goal
  BY <1>8, AcknowledgeRefines DEF Lifecycle!Next
<1>9. CASE UNCHANGED <<status, current, ready, attempts, outbox>>
  BY <1>9 DEF Phase, Verdict, Runs, Owed
<1> QED
  BY <1>1, <1>2, <1>3, <1>4, <1>5, <1>6, <1>7, <1>8, <1>9, Zenon
     DEF Next, Submit, Resubmit, Resume, PauseClaims, Compact, storeVars, rowVars, wakeVars

(* Whatever callers do, in whatever order, a task is run only once per     *)
(* publish or resume, one run at a time, and an unfinished run leaves a    *)
(* notice: the store implements TaskLifecycle.                             *)
THEOREM StoreRefinesLifecycle == Spec => ImplementsLifecycle
  BY InitRefines, InitStoreInv, NextStoreInv, StepRefines, PTL DEF Spec, ImplementsLifecycle, Lifecycle!Spec

=============================================================================
