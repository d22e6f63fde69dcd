------------------------- MODULE CommandQueueProofs -------------------------
(* Proofs about CommandQueue, for any number of commands and of roots.      *)
EXTENDS CommandQueue, TLAPS

-----------------------------------------------------------------------------
(* The inductive invariant.  None of the properties is inductive: that a    *)
(* command starts once needs that its descriptor cannot come back to        *)
(* pending/ after a claim, and that the ids in memory match the leases on   *)
(* disk needs that no lease carries the number of a root still to come.     *)

Early == {"renamed", "claimed", "submitted"}
Claimed == JobStages \ {"none", "renamed"}
Names(c, v) == lease[c] # NoLease /\ lease[c].version = v

(* From submit to the first start.                                          *)
Life(c) ==
    /\ submitter[c] = "idle" => place[c] = "none"
    /\ starts[c] <= 1
    /\ submitter[c] = "idle" \/ place[c] \in {"empty", "pending"} \/ job[c] \in Early => starts[c] = 0

(* What the root keeps in memory, and the lease that says so on disk.       *)
Claim(c) ==
    /\ job[c] # "none" => place[c] = "processing" /\ phase \in {"loop", "exiting"}
    /\ job[c] = "renamed" => lease[c] = NoLease
    /\ job[c] \in Claimed => lease[c] # NoLease /\ lease[c].epoch = epoch
    /\ lease[c] # NoLease => place[c] = "processing" /\ lease[c].epoch <= epoch
    /\ lease[c] # NoLease /\ lease[c].epoch = epoch /\ phase # "down" => job[c] \in Claimed
    /\ c \in active <=> job[c] \in Claimed

(* A lease of version 2 names a child that was started, and the coroutine   *)
(* that goes on without waiting for it has killed it.                       *)
Child(c) ==
    /\ Names(c, 2) => body[c] # "none"
    /\ job[c] \in {"spawned", "watched"} => body[c] # "none"
    /\ job[c] \in {"claimed", "submitted", "spawned"} => Names(c, 1)
    /\ job[c] = "spawned" => isolated
    /\ job[c] # "none" /\ Names(c, 2) => isolated
    /\ job[c] \in {"saved", "notified"} /\ Names(c, 2) => body[c] = "over"

(* What recovery has still to look at, and what it left.                    *)
Recovery(c) ==
    /\ c \in todo => phase = "recovering"
    /\ phase = "recovering" /\ place[c] = "processing" => c \in todo \/ Names(c, 2)
    /\ phase = "loop" /\ place[c] = "processing" => job[c] # "none" \/ Names(c, 2)

Facts(c) == Life(c) /\ Claim(c) /\ Child(c) /\ Recovery(c)

IInv == TypeOK /\ \A c \in Cmds : Facts(c)

LEMMA InitIInv == Init => IInv
<1> SUFFICES ASSUME Init PROVE IInv
  OBVIOUS
<1>1. TypeOK
  <2>1. 0 \in 0 .. MaxEpochs
    BY EpochsAssumption
  <2>2. told \in [Cmds -> SUBSET {"interrupted", "completed", "failed"}]
    BY Zenon DEF Init
  <2> QED BY <2>1, <2>2, Zenon DEF Init, TypeOK, JobStages
<1>2. ASSUME NEW c \in Cmds PROVE Facts(c)
  BY <1>2 DEF Init, Facts, Life, Claim, Child, Recovery, Names, Early, Claimed, JobStages
<1> QED BY <1>1, <1>2 DEF IInv

-----------------------------------------------------------------------------
(* Steps about one command.                                                 *)

(* Nothing of command d changes.                                            *)
Same(d) ==
    /\ submitter'[d] = submitter[d] /\ place'[d] = place[d] /\ lease'[d] = lease[d]
    /\ body'[d] = body[d] /\ starts'[d] = starts[d] /\ job'[d] = job[d]
    /\ (d \in active' <=> d \in active) /\ (d \in todo' <=> d \in todo)

SameRoot == phase' = phase /\ epoch' = epoch /\ isolated' = isolated

(* A step that changes one command, and the root not, has to be looked at   *)
(* for that command only.                                                   *)
LEMMA OneCommand ==
    ASSUME IInv, TypeOK', NEW c \in Cmds, SameRoot, \A d \in Cmds \ {c} : Same(d), Facts(c)'
    PROVE  IInv'
<1>1. ASSUME NEW d \in Cmds \ {c} PROVE Facts(d)'
  <2>1. Same(d) /\ Facts(d)
    BY DEF IInv
  <2> QED BY <2>1 DEF Same, SameRoot, Facts, Life, Claim, Child, Recovery, Names
<1> QED BY <1>1 DEF IInv

(* However a claim ends, the root lets go of descriptor, lease and id       *)
(* together.  A descriptor it leaves behind has no lease, and is left only  *)
(* by a root on its way out.                                                *)
LEMMA ReleaseKeeps ==
    ASSUME IInv, NEW c \in Cmds, NEW p \in {"none", "processing"}, Release(c, p), job[c] # "none",
           p = "processing" => phase = "exiting",
           UNCHANGED <<result, told>>
    PROVE  IInv'
<1> USE DEF fileVars, runVars, rootVars, jobVars, subVars
<1>0. TypeOK /\ Facts(c)
  BY DEF IInv
<1>1. TypeOK'
  BY <1>0 DEF TypeOK, Release, JobStages
<1>2. SameRoot /\ \A d \in Cmds \ {c} : Same(d)
  BY <1>0 DEF TypeOK, Release, SameRoot, Same
<1>3. Facts(c)'
  BY <1>0 DEF TypeOK, Release, Facts, Life, Claim, Child, Recovery, Names, Early, Claimed, JobStages
<1> QED BY <1>1, <1>2, <1>3, OneCommand

(* submit, the watcher's look at a descriptor and its claim.                *)
LEMMA ClaimKeeps ==
    ASSUME IInv, NEW c \in Cmds,
           \/ SubmitCreate(c) \/ SubmitWrite(c) \/ DiscardInvalid(c) \/ ClaimRename(c)
           \/ ClaimLease(c) \/ ClaimLeaseFails(c) \/ Execute(c) \/ ExecuteRefused(c)
    PROVE  IInv'
<1> USE DEF fileVars, runVars, rootVars, jobVars, subVars
<1>0. TypeOK /\ Facts(c)
  BY DEF IInv
<1>1. CASE SubmitCreate(c)
  <2>1. TypeOK'
    BY <1>0, <1>1 DEF TypeOK, SubmitCreate
  <2>2. SameRoot /\ \A d \in Cmds \ {c} : Same(d)
    BY <1>0, <1>1 DEF TypeOK, SubmitCreate, SameRoot, Same
  <2>3. Facts(c)'
    BY <1>0, <1>1 DEF TypeOK, SubmitCreate, Facts, Life, Claim, Child, Recovery, Names, Early, Claimed, JobStages
  <2> QED BY <2>1, <2>2, <2>3, OneCommand
<1>2. CASE SubmitWrite(c)
  <2>1. TypeOK'
    BY <1>0, <1>2 DEF TypeOK, SubmitWrite
  <2>2. SameRoot /\ \A d \in Cmds \ {c} : Same(d)
    BY <1>0, <1>2 DEF TypeOK, SubmitWrite, SameRoot, Same
  <2>3. Facts(c)'
    BY <1>0, <1>2 DEF TypeOK, SubmitWrite, Facts, Life, Claim, Child, Recovery, Names, Early, Claimed, JobStages
  <2> QED BY <2>1, <2>2, <2>3, OneCommand
<1>3. CASE DiscardInvalid(c)
  <2>1. TypeOK'
    BY <1>0, <1>3 DEF TypeOK, DiscardInvalid
  <2>2. SameRoot /\ \A d \in Cmds \ {c} : Same(d)
    BY <1>0, <1>3 DEF TypeOK, DiscardInvalid, SameRoot, Same
  <2>3. Facts(c)'
    BY <1>0, <1>3 DEF TypeOK, DiscardInvalid, Facts, Life, Claim, Child, Recovery, Names, Early, Claimed, JobStages
  <2> QED BY <2>1, <2>2, <2>3, OneCommand
<1>4. CASE ClaimRename(c)
  <2>1. TypeOK'
    BY <1>0, <1>4 DEF TypeOK, ClaimRename, JobStages
  <2>2. SameRoot /\ \A d \in Cmds \ {c} : Same(d)
    BY <1>0, <1>4 DEF TypeOK, ClaimRename, SameRoot, Same
  <2>3. Facts(c)'
    BY <1>0, <1>4 DEF TypeOK, ClaimRename, LoopFree, Facts, Life, Claim, Child, Recovery, Names, Early, Claimed, JobStages
  <2> QED BY <2>1, <2>2, <2>3, OneCommand
<1>5. CASE ClaimLease(c)
  <2>0. [version |-> 1, epoch |-> epoch] \in Leases
    BY <1>0, EpochsAssumption DEF TypeOK, Leases
  <2>1. TypeOK'
    BY <1>0, <1>5, <2>0 DEF TypeOK, ClaimLease, JobStages
  <2>2. SameRoot /\ \A d \in Cmds \ {c} : Same(d)
    BY <1>0, <1>5 DEF TypeOK, ClaimLease, SameRoot, Same
  <2>3. lease'[c] = [version |-> 1, epoch |-> epoch] /\ lease'[c] # NoLease
    BY <1>0, <1>5, <2>0, NoLeaseAssumption DEF TypeOK, ClaimLease
  <2>4. Facts(c)'
    BY <1>0, <1>5, <2>3, EpochsAssumption
       DEF TypeOK, ClaimLease, Facts, Life, Claim, Child, Recovery, Names, Early, Claimed, JobStages
  <2> QED BY <2>1, <2>2, <2>4, OneCommand
<1>6. CASE ClaimLeaseFails(c)
  <2>1. TypeOK'
    BY <1>0, <1>6 DEF TypeOK, ClaimLeaseFails, JobStages
  <2>2. SameRoot /\ \A d \in Cmds \ {c} : Same(d)
    BY <1>0, <1>6 DEF TypeOK, ClaimLeaseFails, SameRoot, Same
  <2>3. Facts(c)'
    BY <1>0, <1>6 DEF TypeOK, ClaimLeaseFails, Facts, Life, Claim, Child, Recovery, Names, Early, Claimed, JobStages
  <2> QED BY <2>1, <2>2, <2>3, OneCommand
<1>7. CASE Execute(c)
  <2>1. TypeOK'
    BY <1>0, <1>7 DEF TypeOK, Execute, JobStages
  <2>2. SameRoot /\ \A d \in Cmds \ {c} : Same(d)
    BY <1>0, <1>7 DEF TypeOK, Execute, SameRoot, Same
  <2>3. Facts(c)'
    BY <1>0, <1>7 DEF TypeOK, Execute, Facts, Life, Claim, Child, Recovery, Names, Early, Claimed, JobStages
  <2> QED BY <2>1, <2>2, <2>3, OneCommand
<1>8. CASE ExecuteRefused(c)
  BY <1>8, ReleaseKeeps DEF ExecuteRefused
<1> QED BY <1>1, <1>2, <1>3, <1>4, <1>5, <1>6, <1>7, <1>8

(* The coroutine of a command, and the command itself.                      *)
LEMMA JobKeeps ==
    ASSUME IInv, NEW c \in Cmds,
           \/ StartBody(c) \/ StartFails(c) \/ RegisterChild(c)
           \/ (\E s \in {"completed", "failed"} : JobReturns(c, s))
           \/ JobSaveFails(c) \/ Notify(c) \/ FinishClaim(c)
           \/ BodyEnds(c) \/ CleanupRunning(c) \/ CancelJob(c)
    PROVE  IInv'
<1> USE DEF fileVars, runVars, rootVars, jobVars, subVars
<1>0. TypeOK /\ Facts(c)
  BY DEF IInv
<1>1. CASE StartBody(c)
  <2>1. TypeOK'
    BY <1>0, <1>1 DEF TypeOK, StartBody, JobStages
  <2>2. SameRoot /\ \A d \in Cmds \ {c} : Same(d)
    BY <1>0, <1>1 DEF TypeOK, StartBody, SameRoot, Same
  <2>3. Facts(c)'
    BY <1>0, <1>1 DEF TypeOK, StartBody, Facts, Life, Claim, Child, Recovery, Names, Early, Claimed, JobStages
  <2> QED BY <2>1, <2>2, <2>3, OneCommand
<1>2. CASE StartFails(c)
  <2>1. TypeOK'
    BY <1>0, <1>2 DEF TypeOK, StartFails, JobStages
  <2>2. SameRoot /\ \A d \in Cmds \ {c} : Same(d)
    BY <1>0, <1>2 DEF TypeOK, StartFails, SameRoot, Same
  <2>3. Facts(c)'
    BY <1>0, <1>2 DEF TypeOK, StartFails, Facts, Life, Claim, Child, Recovery, Names, Early, Claimed, JobStages
  <2> QED BY <2>1, <2>2, <2>3, OneCommand
<1>3. CASE RegisterChild(c)
  <2>0. lease[c] \in Leases /\ lease[c].epoch \in Nat
    BY <1>0, <1>3 DEF TypeOK, RegisterChild, Facts, Child, Names, Leases
  <2>1. [lease[c] EXCEPT !.version = 2] \in Leases
    BY <2>0 DEF Leases
  <2>2. lease' \in [Cmds -> Leases \union {NoLease}]
    BY <1>0, <1>3, <2>1 DEF TypeOK, RegisterChild
  <2>3. TypeOK'
    BY <1>0, <1>3, <2>2, Zenon DEF TypeOK, RegisterChild, JobStages
  <2>4. SameRoot /\ \A d \in Cmds \ {c} : Same(d)
    BY <1>0, <1>3 DEF TypeOK, RegisterChild, SameRoot, Same
  <2>5. lease'[c] \in Leases /\ lease'[c].epoch = lease[c].epoch /\ lease'[c] # NoLease
    BY <1>0, <1>3, <2>0, <2>1, NoLeaseAssumption DEF TypeOK, RegisterChild, Leases
  <2>6. Facts(c)'
    BY <1>0, <1>3, <2>5 DEF TypeOK, RegisterChild, Facts, Life, Claim, Child, Recovery, Names, Early, Claimed, JobStages
  <2> QED BY <2>3, <2>4, <2>6, OneCommand
<1>4. ASSUME NEW s \in {"completed", "failed"}, JobReturns(c, s) PROVE IInv'
  <2>1. TypeOK'
    BY <1>0, <1>4 DEF TypeOK, JobReturns, JobStages
  <2>2. SameRoot /\ \A d \in Cmds \ {c} : Same(d)
    BY <1>0, <1>4 DEF TypeOK, JobReturns, SameRoot, Same
  <2>3. Facts(c)'
    BY <1>0, <1>4 DEF TypeOK, JobReturns, Facts, Life, Claim, Child, Recovery, Names, Early, Claimed, JobStages
  <2> QED BY <2>1, <2>2, <2>3, OneCommand
<1>5. CASE JobSaveFails(c)
  BY <1>5, ReleaseKeeps DEF JobSaveFails
<1>6. CASE Notify(c)
  <2>1. TypeOK'
    BY <1>0, <1>6 DEF TypeOK, Notify, JobStages
  <2>2. SameRoot /\ \A d \in Cmds \ {c} : Same(d)
    BY <1>0, <1>6 DEF TypeOK, Notify, SameRoot, Same
  <2>3. Facts(c)'
    BY <1>0, <1>6 DEF TypeOK, Notify, Facts, Life, Claim, Child, Recovery, Names, Early, Claimed, JobStages
  <2> QED BY <2>1, <2>2, <2>3, OneCommand
<1>7. CASE FinishClaim(c)
  BY <1>7, ReleaseKeeps DEF FinishClaim
<1>8. CASE BodyEnds(c)
  <2>1. TypeOK'
    BY <1>0, <1>8 DEF TypeOK, BodyEnds
  <2>2. SameRoot /\ \A d \in Cmds \ {c} : Same(d)
    BY <1>0, <1>8 DEF TypeOK, BodyEnds, SameRoot, Same
  <2>3. Facts(c)'
    BY <1>0, <1>8 DEF TypeOK, BodyEnds, Facts, Life, Claim, Child, Recovery, Names, Early, Claimed, JobStages
  <2> QED BY <2>1, <2>2, <2>3, OneCommand
<1>9. CASE CleanupRunning(c)
  <2>1. TypeOK'
    BY <1>0, <1>9 DEF TypeOK, CleanupRunning
  <2>2. SameRoot /\ \A d \in Cmds \ {c} : Same(d)
    BY <1>0, <1>9 DEF TypeOK, CleanupRunning, SameRoot, Same
  <2>3. Facts(c)'
    BY <1>0, <1>9 DEF TypeOK, CleanupRunning, Facts, Life, Claim, Child, Recovery, Names, Early, Claimed, JobStages
  <2> QED BY <2>1, <2>2, <2>3, OneCommand
<1>10. CASE CancelJob(c)
  <2>1. TypeOK'
    BY <1>0, <1>10 DEF TypeOK, CancelJob, JobStages
  <2>2. SameRoot /\ \A d \in Cmds \ {c} : Same(d)
    BY <1>0, <1>10 DEF TypeOK, CancelJob, SameRoot, Same
  <2>3. Facts(c)'
    BY <1>0, <1>10 DEF TypeOK, CancelJob, Running, Facts, Life, Claim, Child, Recovery, Names, Early, Claimed, JobStages
  <2> QED BY <2>1, <2>2, <2>3, OneCommand
<1> QED BY <1>1, <1>2, <1>3, <1>4, <1>5, <1>6, <1>7, <1>8, <1>9, <1>10

-----------------------------------------------------------------------------
(* Steps of the root.                                                       *)

(* A recovered descriptor had no live lease: the lease of an earlier root,  *)
(* or of a child that is gone, goes with it.                                *)
LEMMA RecoverKeeps ==
    ASSUME IInv, NEW c \in Cmds, RecoverProcessing(c)
    PROVE  IInv'
<1> USE DEF fileVars, runVars, rootVars, jobVars, subVars
<1>0. TypeOK /\ Facts(c)
  BY DEF IInv
<1>1. TypeOK'
  BY <1>0 DEF TypeOK, RecoverProcessing
<1>2. SameRoot /\ \A d \in Cmds \ {c} : Same(d)
  BY <1>0 DEF TypeOK, RecoverProcessing, SameRoot, Same
<1>3. LeaseLive(c) => Names(c, 2)
  <2>1. job[c] = "none"
    BY <1>0 DEF TypeOK, RecoverProcessing, Facts, Claim
  <2>2. lease[c] # NoLease => lease[c].epoch # epoch /\ lease[c] \in Leases
    BY <1>0, <2>1 DEF TypeOK, RecoverProcessing, Facts, Claim, Claimed
  <2> QED BY <2>2 DEF LeaseLive, Names, Leases
<1>4. Facts(c)'
  BY <1>0, <1>3 DEF TypeOK, RecoverProcessing, Facts, Life, Claim, Child, Recovery, Names, Early, Claimed, JobStages
<1> QED BY <1>1, <1>2, <1>4, OneCommand

(* The steps that change no file: a root starts, goes from recovery to its  *)
(* loop, stops, ends or is killed.                                          *)
LEMMA RootKeeps ==
    ASSUME IInv, RootStart \/ RootStop \/ RootTerminate \/ RootCrash \/ RecoverTell \/ LoopBegins \/ LoopExits \/ RootExit
    PROVE  IInv'
<1> USE DEF fileVars, runVars, rootVars, jobVars, subVars
<1>0. TypeOK
  BY DEF IInv
<1>1. TypeOK'
  <2>1. CASE RootStart
    <3>1. epoch' \in 0 .. MaxEpochs
      BY <1>0, <2>1, EpochsAssumption DEF TypeOK, RootStart
    <3>2. isolated' \in BOOLEAN
      BY <2>1, IsolationAssumption, Zenon DEF RootStart
    <3> QED BY <1>0, <2>1, <3>1, <3>2, Zenon DEF TypeOK, RootStart, Processing
  <2>2. CASE RootStop \/ RootTerminate \/ LoopBegins \/ LoopExits \/ RootExit
    <3>1. CASE RootStop
      BY <1>0, <3>1, Zenon DEF TypeOK, RootStop
    <3>2. CASE RootTerminate
      BY <1>0, <3>2, Zenon DEF TypeOK, RootTerminate
    <3>3. CASE LoopBegins
      BY <1>0, <3>3, Zenon DEF TypeOK, LoopBegins
    <3>4. CASE LoopExits
      BY <1>0, <3>4, Zenon DEF TypeOK, LoopExits
    <3>5. CASE RootExit
      BY <1>0, <3>5, Zenon DEF TypeOK, RootExit
    <3> QED BY <2>2, <3>1, <3>2, <3>3, <3>4, <3>5, Zenon
  <2>3. CASE RootCrash
    BY <1>0, <2>3 DEF TypeOK, RootCrash, JobStages
  <2>4. CASE RecoverTell
    BY <1>0, <2>4 DEF TypeOK, RecoverTell
  <2> QED BY <2>1, <2>2, <2>3, <2>4
<1>2. ASSUME NEW c \in Cmds PROVE Facts(c)'
  <2>0. TypeOK /\ Facts(c) /\ (lease[c] # NoLease => lease[c].epoch \in Nat)
    BY DEF IInv, TypeOK, Leases
  <2> USE DEF Facts, Life, Claim, Child, Recovery, Names, Early, Claimed, JobStages
  <2>1. CASE RootStart
    BY <2>0, <2>1 DEF TypeOK, RootStart, Processing
  <2>2. CASE RootStop
    BY <2>0, <2>2 DEF TypeOK, RootStop
  <2>3. CASE RootTerminate
    BY <2>0, <2>3 DEF TypeOK, RootTerminate
  <2>4. CASE RootCrash
    BY <2>0, <2>4 DEF TypeOK, RootCrash
  <2>5. CASE RecoverTell
    BY <2>0, <2>5 DEF TypeOK, RecoverTell
  <2>6. CASE LoopBegins
    BY <2>0, <2>6 DEF TypeOK, LoopBegins
  <2>7. CASE LoopExits
    BY <2>0, <2>7 DEF TypeOK, LoopExits, LoopFree
  <2>8. CASE RootExit
    BY <2>0, <2>8 DEF TypeOK, RootExit
  <2> QED BY <2>1, <2>2, <2>3, <2>4, <2>5, <2>6, <2>7, <2>8, Zenon
<1> QED BY <1>1, <1>2 DEF IInv

LEMMA NextIInv == IInv /\ [Next]_vars => IInv'
<1> SUFFICES ASSUME IInv, [Next]_vars PROVE IInv'
  OBVIOUS
<1>1. CASE UNCHANGED vars
  BY <1>1 DEF vars, subVars, fileVars, runVars, rootVars, jobVars, IInv, TypeOK, Facts, Life, Claim, Child, Recovery, Names
<1>2. CASE Next
  BY <1>2, ClaimKeeps, JobKeeps, RecoverKeeps, RootKeeps DEF Next, ClaimSteps, JobSteps, RecoverySteps, ExitSteps
<1> QED BY <1>1, <1>2

LEMMA IInvHolds == Spec => []IInv
  BY InitIInv, NextIInv, PTL DEF Spec

-----------------------------------------------------------------------------
(* The theorems.                                                            *)

(* Files, root and bookkeeping stay in the states the code gives them.      *)
THEOREM TypeCorrect == Spec => []TypeOK
<1>1. IInv => TypeOK
  BY DEF IInv
<1> QED BY <1>1, IInvHolds, PTL

(* No command is started twice, however many roots crash or stop on it.     *)
THEOREM CommandsStartOnce == Spec => []StartedOnce
<1>1. IInv => StartedOnce
  BY DEF IInv, Facts, Life, StartedOnce
<1> QED BY <1>1, IInvHolds, PTL

(* _active_task_ids and the lease files of a root name the same commands,   *)
(* at every point of every way a claim may end.                             *)
THEOREM ClaimsMatchLeases == Spec => []OwnClaims
<1>1. IInv => OwnClaims
  BY DEF IInv, TypeOK, Facts, Claim, OwnClaims, Processing
<1> QED BY <1>1, IInvHolds, PTL

(* When the loop begins, _recover_processing() has left only descriptors of *)
(* children, and the loop adds only its own.                                *)
THEOREM RecoveryLeavesNone == Spec => []RecoveryComplete
<1>1. IInv => RecoveryComplete
  <2>1. ASSUME IInv, phase = "loop", NEW c \in Processing
        PROVE  job[c] # "none" \/ Names(c, 2)
    <3>1. c \in Cmds /\ place[c] = "processing"
      BY DEF Processing
    <3>2. Recovery(c)
      BY <2>1, <3>1, Zenon DEF IInv, Facts
    <3> QED BY <2>1, <3>1, <3>2, Zenon DEF Recovery
  <2> QED BY <2>1, Zenon DEF RecoveryComplete, Names
<1> QED BY <1>1, IInvHolds, PTL

(* No step takes a descriptor from a child that still runs: the claim that  *)
(* ends has seen the child end or killed it, and recovery asks the child.   *)
THEOREM ChildrenKeepDescriptors == Spec => ChildKeepsDescriptor
<1>1. IInv /\ [Next]_vars =>
        [\A c \in Processing \ Processing' :
            lease[c] # NoLease /\ lease[c].version = 2 => body[c] = "over"]_vars
  <2> SUFFICES ASSUME IInv, Next, NEW c \in Cmds, place[c] = "processing", place'[c] # "processing", Names(c, 2)
               PROVE  body[c] = "over"
    BY DEF Processing, Names
  <2> USE DEF fileVars, runVars, rootVars, jobVars, subVars
  <2>0. TypeOK /\ Facts(c)
    BY DEF IInv
  <2>1. CASE RootStart \/ RootStop \/ RootTerminate \/ RootCrash \/ RecoverTell \/ LoopBegins \/ LoopExits \/ RootExit
    BY <2>1 DEF RootStart, RootStop, RootTerminate, RootCrash, RecoverTell, LoopBegins, LoopExits, RootExit
  <2>2. ASSUME NEW d \in Cmds, RecoverProcessing(d) PROVE body[c] = "over"
    <3>1. c = d /\ ~LeaseLive(c)
      BY <2>0, <2>2 DEF TypeOK, RecoverProcessing
    <3> QED BY <2>0, <3>1 DEF LeaseLive, Names, TypeOK, Facts, Child
  <2>3. ASSUME NEW d \in Cmds, NEW p, Release(d, p), job[d] # "none",
               job[d] \in {"claimed", "submitted", "notified"} \/ body[d] = "over"
        PROVE  body[c] = "over"
    <3>1. c = d
      BY <2>0, <2>3 DEF TypeOK, Release
    <3> QED BY <2>0, <2>3, <3>1 DEF Facts, Child, Names
  <2>4. ASSUME NEW d \in Cmds,
               ExecuteRefused(d) \/ JobSaveFails(d) \/ FinishClaim(d)
        PROVE  body[c] = "over"
    BY <2>3, <2>4 DEF ExecuteRefused, JobSaveFails, FinishClaim
  <2>5. ASSUME NEW d \in Cmds, SubmitCreate(d) \/ SubmitWrite(d) \/ DiscardInvalid(d) \/ ClaimRename(d)
        PROVE  body[c] = "over"
    <3>1. Facts(d)
      BY DEF IInv
    <3> QED BY <2>0, <2>5, <3>1 DEF Facts, Life, TypeOK, SubmitCreate, SubmitWrite, DiscardInvalid, ClaimRename
  <2>6. ASSUME NEW d \in Cmds, ClaimLeaseFails(d) PROVE body[c] = "over"
    BY <2>0, <2>6 DEF Facts, Claim, Names, TypeOK, ClaimLeaseFails
  <2>7. ASSUME NEW d \in Cmds,
               \/ ClaimLease(d) \/ Execute(d) \/ StartBody(d) \/ StartFails(d) \/ RegisterChild(d)
               \/ (\E s \in {"completed", "failed"} : JobReturns(d, s))
               \/ Notify(d) \/ BodyEnds(d) \/ CleanupRunning(d) \/ CancelJob(d)
        PROVE  FALSE
    BY <2>7 DEF ClaimLease, Execute, StartBody, StartFails, RegisterChild, JobReturns, Notify, BodyEnds, CleanupRunning,
                CancelJob
  <2> QED
    BY <2>1, <2>2, <2>4, <2>5, <2>6, <2>7, Zenon DEF Next, ClaimSteps, JobSteps, RecoverySteps, ExitSteps
<1> QED BY <1>1, IInvHolds, PTL DEF Spec, ChildKeepsDescriptor
=============================================================================
