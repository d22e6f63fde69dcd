---------------------------- MODULE CommandQueue ----------------------------
(* Commands an anima submits with `animaworks-tool submit`: a descriptor    *)
(* file travels from pending/ to processing/, where a lease file names the  *)
(* process that works on it, and BackgroundTaskManager runs the command,    *)
(* saves its state file and notifies.  Roots crash, are terminated and are  *)
(* restarted; what they leave in processing/ is looked at once, on start.   *)
EXTENDS Naturals, FiniteSets

CONSTANTS
    Cmds,       \* command ids, each drawn afresh by one submit
    NoCmd,      \* no command
    NoLease,    \* no lease file
    Isolation,  \* values task_process_isolation.background may have when a root reads it
    MaxEpochs   \* bound: how many roots there are, one after the other

ASSUME IsolationAssumption == Isolation \in SUBSET BOOLEAN \ {{}}
ASSUME EpochsAssumption == MaxEpochs \in Nat \ {0}
ASSUME NoCmdAssumption == NoCmd \notin Cmds

VARIABLES
    submitter,  \* the process of `submit`
    place,      \* where the descriptor is; "empty": in pending/, not written yet
    lease,      \* the lease file next to the descriptor
    result,     \* status in the state file of the command
    told,       \* notices about the command, of any root
    body,       \* the subprocess or child that executes the command
    starts,     \* how often the command was started
    phase,      \* the root: down, recovering, loop, exiting
    epoch,      \* number of the root
    isolated,   \* _background_isolated: it runs a command in a task-runner child
    stopAsked,  \* its shutdown event
    todo,       \* processing descriptors recovery has still to look at
    telling,    \* the dropped descriptor recovery is about to report
    active,     \* _active_task_ids
    job,        \* how far the root is with the command
    out         \* BackgroundTask.status in memory

subVars  == <<submitter>>
fileVars == <<place, lease>>
runVars  == <<body, starts>>
rootVars == <<phase, epoch, isolated, stopAsked, todo, telling>>
jobVars  == <<active, job, out>>
vars == <<subVars, fileVars, result, told, runVars, rootVars, jobVars>>

JobStages == {"none", "renamed", "claimed", "submitted", "spawned", "watched", "saved", "notified"}
Running == {"submitted", "spawned", "watched"}
Leases == [version : {1, 2}, epoch : Nat]

ASSUME NoLeaseAssumption == NoLease \notin Leases

Init ==
    /\ submitter = [c \in Cmds |-> "idle"]
    /\ place = [c \in Cmds |-> "none"]
    /\ lease = [c \in Cmds |-> NoLease]
    /\ result = [c \in Cmds |-> "none"]
    /\ told = [c \in Cmds |-> {}]
    /\ body = [c \in Cmds |-> "none"]
    /\ starts = [c \in Cmds |-> 0]
    /\ phase = "down"
    /\ epoch = 0
    /\ isolated = FALSE
    /\ stopAsked = FALSE
    /\ todo = {}
    /\ telling = NoCmd
    /\ active = {}
    /\ job = [c \in Cmds |-> "none"]
    /\ out = [c \in Cmds |-> "running"]

Processing == {c \in Cmds : place[c] = "processing"}

-----------------------------------------------------------------------------
(* `animaworks-tool submit`, a process of its own.  write_text() creates    *)
(* the file and then fills it.                                              *)

SubmitCreate(c) ==
    /\ submitter[c] = "idle"
    /\ submitter' = [submitter EXCEPT ![c] = "writing"]
    /\ place' = [place EXCEPT ![c] = "empty"]
    /\ UNCHANGED <<lease, result, told, runVars, rootVars, jobVars>>

(* The bytes reach the file, or an inode nobody can find any more; submit   *)
(* reports success either way.                                              *)
SubmitWrite(c) ==
    /\ submitter[c] = "writing"
    /\ submitter' = [submitter EXCEPT ![c] = "returned"]
    /\ place' = [place EXCEPT ![c] = IF @ = "empty" THEN "pending" ELSE @]
    /\ UNCHANGED <<lease, result, told, runVars, rootVars, jobVars>>

-----------------------------------------------------------------------------
(* A root: start and recovery.                                              *)

(* The supervisor starts a root, whose watcher lists processing/.           *)
RootStart ==
    /\ phase = "down"
    /\ epoch < MaxEpochs
    /\ phase' = "recovering"
    /\ epoch' = epoch + 1
    /\ isolated' \in Isolation
    /\ stopAsked' = FALSE
    /\ todo' = Processing
    /\ UNCHANGED <<subVars, fileVars, result, told, runVars, telling, jobVars>>

(* The lease test with the pid of the root whatever the version. *)
LeaseLiveByRoot(c) == lease[c] # NoLease /\ lease[c].epoch = epoch

(* The lease test taking a missing lease for a claim in progress. *)
LeaseLiveWithoutFile(c) ==
    \/ lease[c] = NoLease
    \/ IF lease[c].version = 1 THEN lease[c].epoch = epoch ELSE body[c] = "running"

(* is_processing_lease_live(): version 1 asks whether the pid belongs to a  *)
(* runner of this anima, as that of the asking root does; version 2         *)
(* identifies the child by pid, start time and job id.                      *)
LeaseLive(c) ==
    /\ lease[c] # NoLease
    /\ IF lease[c].version = 1 THEN lease[c].epoch = epoch ELSE body[c] = "running"

(* Recovery that puts the descriptor of a dead run back into pending/. *)
RecoverRetrying(c) ==
    /\ phase = "recovering" /\ telling = NoCmd /\ c \in todo
    /\ todo' = todo \ {c}
    /\ place' = IF LeaseLive(c) THEN place ELSE [place EXCEPT ![c] = "pending"]
    /\ lease' = IF LeaseLive(c) THEN lease ELSE [lease EXCEPT ![c] = NoLease]
    /\ UNCHANGED <<subVars, result, told, runVars, phase, epoch, isolated, stopAsked, telling, jobVars>>

(* One descriptor of _recover_processing(): left alone when its lease is    *)
(* live, else dropped and reported.                                         *)
RecoverProcessing(c) ==
    /\ phase = "recovering" /\ telling = NoCmd /\ c \in todo
    /\ todo' = todo \ {c}
    /\ IF LeaseLive(c)
       THEN UNCHANGED <<fileVars, telling>>
       ELSE /\ place' = [place EXCEPT ![c] = "none"]
            /\ lease' = [lease EXCEPT ![c] = NoLease]
            /\ telling' = c
    /\ UNCHANGED <<subVars, result, told, runVars, phase, epoch, isolated, stopAsked, jobVars>>

(* _return_task_to_pending(): the message is sent, or fails twice.          *)
RecoverTell ==
    /\ telling # NoCmd
    /\ telling' = NoCmd
    /\ \/ told' = [told EXCEPT ![telling] = @ \union {"interrupted"}]
       \/ UNCHANGED told
    /\ UNCHANGED <<subVars, fileVars, result, runVars, phase, epoch, isolated, stopAsked, todo, jobVars>>

LoopBegins ==
    /\ phase = "recovering" /\ telling = NoCmd /\ todo = {}
    /\ phase' = IF stopAsked THEN "exiting" ELSE "loop"
    /\ UNCHANGED <<subVars, fileVars, result, told, runVars, epoch, isolated, stopAsked, todo, telling, jobVars>>

-----------------------------------------------------------------------------
(* The watcher loop.  It is busy while it claims; an isolated command it    *)
(* waits for, any other goes on beside it.                                  *)

LoopFree ==
    /\ phase = "loop"
    /\ \A c \in Cmds : job[c] \in IF isolated THEN {"none"} ELSE JobStages \ {"renamed", "claimed"}

(* A descriptor that is no JSON is deleted. *)
DiscardInvalid(c) ==
    /\ LoopFree
    /\ place[c] = "empty"
    /\ place' = [place EXCEPT ![c] = "none"]
    /\ UNCHANGED <<subVars, lease, result, told, runVars, rootVars, jobVars>>

(* A claim deferred while anything at all is in processing/. *)
ClaimRenameAlone(c) ==
    /\ LoopFree
    /\ place[c] = "pending"
    /\ Processing = {}
    /\ place' = [place EXCEPT ![c] = "processing"]
    /\ job' = [job EXCEPT ![c] = "renamed"]
    /\ UNCHANGED <<subVars, lease, result, told, runVars, rootVars, active, out>>

(* _should_defer_claim() and the rename into processing/.                   *)
ClaimRename(c) ==
    /\ LoopFree
    /\ place[c] = "pending"
    /\ c \notin active
    /\ place' = [place EXCEPT ![c] = "processing"]
    /\ job' = [job EXCEPT ![c] = "renamed"]
    /\ UNCHANGED <<subVars, lease, result, told, runVars, rootVars, active, out>>

(* _claim_processing_task(): the lease is written and the id registered.    *)
ClaimLease(c) ==
    /\ job[c] = "renamed"
    /\ lease' = [lease EXCEPT ![c] = [version |-> 1, epoch |-> epoch]]
    /\ active' = active \union {c}
    /\ job' = [job EXCEPT ![c] = "claimed"]
    /\ UNCHANGED <<subVars, place, result, told, runVars, rootVars, out>>

(* The same when the lease cannot be written: the descriptor is dropped.    *)
ClaimLeaseFails(c) ==
    /\ job[c] = "renamed"
    /\ place' = [place EXCEPT ![c] = "none"]
    /\ job' = [job EXCEPT ![c] = "none"]
    /\ UNCHANGED <<subVars, lease, result, told, runVars, rootVars, active, out>>

(* Letting go of a command that forgets the id. *)
ReleaseKeepingId(c, p) ==
    /\ place' = [place EXCEPT ![c] = p]
    /\ lease' = [lease EXCEPT ![c] = NoLease]
    /\ active' = active
    /\ job' = [job EXCEPT ![c] = "none"]
    /\ UNCHANGED <<subVars, runVars, rootVars, out>>

(* The root lets go of a command: descriptor (now at p), lease and id.      *)
Release(c, p) ==
    /\ place' = [place EXCEPT ![c] = p]
    /\ lease' = [lease EXCEPT ![c] = NoLease]
    /\ active' = active \ {c}
    /\ job' = [job EXCEPT ![c] = "none"]
    /\ UNCHANGED <<subVars, runVars, rootVars, out>>

(* Handing over a BackgroundTask with the default status of its class. *)
ExecuteByDefault(c) ==
    /\ job[c] = "claimed"
    /\ job' = [job EXCEPT ![c] = "submitted"]
    /\ out' = [out EXCEPT ![c] = "pending"]
    /\ result' = [result EXCEPT ![c] = "pending"]
    /\ UNCHANGED <<subVars, fileVars, told, runVars, rootVars, active>>

(* execute_pending_task() hands the command to BackgroundTaskManager, which *)
(* saves the state file and schedules the coroutine.                        *)
Execute(c) ==
    /\ job[c] = "claimed"
    /\ job' = [job EXCEPT ![c] = "submitted"]
    /\ out' = [out EXCEPT ![c] = "running"]
    /\ result' = [result EXCEPT ![c] = "running"]
    /\ UNCHANGED <<subVars, fileVars, told, runVars, rootVars, active>>

(* There is no BackgroundTaskManager, or saving raises: the command is      *)
(* dropped with a line in the log.                                          *)
ExecuteRefused(c) ==
    /\ job[c] = "claimed"
    /\ Release(c, "none")
    /\ UNCHANGED <<result, told>>

-----------------------------------------------------------------------------
(* The coroutine of a command.                                              *)

(* The thread starts its subprocess, or the child is spawned.               *)
StartBody(c) ==
    /\ job[c] = "submitted"
    /\ body' = [body EXCEPT ![c] = "running"]
    /\ starts' = [starts EXCEPT ![c] = @ + 1]
    /\ job' = [job EXCEPT ![c] = IF isolated THEN "spawned" ELSE "watched"]
    /\ UNCHANGED <<subVars, fileVars, result, told, rootVars, active, out>>

(* The subprocess or child cannot be started.                               *)
StartFails(c) ==
    /\ job[c] = "submitted"
    /\ out' = [out EXCEPT ![c] = "failed"]
    /\ result' = [result EXCEPT ![c] = "failed"]
    /\ job' = [job EXCEPT ![c] = "saved"]
    /\ UNCHANGED <<subVars, fileVars, told, runVars, rootVars, active>>

(* _on_spawned(): the lease now names the child, unless it cannot be        *)
(* written.                                                                 *)
RegisterChild(c) ==
    /\ job[c] = "spawned"
    /\ job' = [job EXCEPT ![c] = "watched"]
    /\ \/ lease' = [lease EXCEPT ![c].version = 2]
       \/ UNCHANGED lease
    /\ UNCHANGED <<subVars, place, result, told, runVars, rootVars, active, out>>

(* The command ends, or is ended: by the 30 minutes a subprocess has, the   *)
(* hang watch, or, when the root is gone, the parent monitor of the child.  *)
BodyEnds(c) ==
    /\ body[c] = "running"
    /\ body' = [body EXCEPT ![c] = "over"]
    /\ UNCHANGED <<subVars, fileVars, result, told, starts, rootVars, jobVars>>

(* _run_task(), _run_task_async(): the outcome is saved.                    *)
JobReturns(c, s) ==
    /\ job[c] = "watched"
    /\ body[c] = "over"
    /\ out' = [out EXCEPT ![c] = s]
    /\ result' = [result EXCEPT ![c] = s]
    /\ job' = [job EXCEPT ![c] = "saved"]
    /\ UNCHANGED <<subVars, fileVars, told, runVars, rootVars, active>>

(* Saving raises in the finally block, after a start that failed or at the  *)
(* end: nobody is notified, and the watcher or the done callback lets go.   *)
JobSaveFails(c) ==
    /\ (job[c] = "submitted" \/ (job[c] = "watched" /\ body[c] = "over"))
    /\ Release(c, "none")
    /\ UNCHANGED <<result, told>>

(* _on_background_task_complete(): the subject says "failed" for a failed   *)
(* task and "completed" for any other; failures are logged.                 *)
Notify(c) ==
    /\ job[c] = "saved"
    /\ job' = [job EXCEPT ![c] = "notified"]
    /\ \/ told' = [told EXCEPT ![c] = @ \union {IF out[c] = "failed" THEN "failed" ELSE "completed"}]
       \/ UNCHANGED told
    /\ UNCHANGED <<subVars, fileVars, result, runVars, rootVars, active, out>>

(* The done callback, or the watcher after its await, lets go.  A watcher   *)
(* that was itself cancelled leaves the descriptor.                         *)
FinishClaim(c) ==
    /\ job[c] = "notified"
    /\ Release(c, IF isolated /\ phase = "exiting" THEN "processing" ELSE "none")
    /\ UNCHANGED <<result, told>>

(* Housekeeping deletes a state file that has said "running" for two days,  *)
(* longer than any command may take.                                        *)
CleanupRunning(c) ==
    /\ result[c] = "running"
    /\ job[c] = "none" /\ body[c] # "running"
    /\ result' = [result EXCEPT ![c] = "none"]
    /\ UNCHANGED <<subVars, fileVars, told, runVars, rootVars, jobVars>>

-----------------------------------------------------------------------------
(* The end of a root; the last one within the bound stays.                  *)

RootStop ==
    /\ phase \in {"recovering", "loop"}
    /\ ~stopAsked
    /\ epoch < MaxEpochs
    /\ stopAsked' = TRUE
    /\ UNCHANGED <<subVars, fileVars, result, told, runVars, phase, epoch, isolated, todo, telling, jobVars>>

(* The loop looks at the shutdown event between two rounds.                 *)
LoopExits ==
    /\ LoopFree
    /\ stopAsked
    /\ phase' = "exiting"
    /\ UNCHANGED <<subVars, fileVars, result, told, runVars, epoch, isolated, stopAsked, todo, telling, jobVars>>

(* SIGTERM unwinds the event loop wherever it waits.                        *)
RootTerminate ==
    /\ phase = "loop"
    /\ \A c \in Cmds : job[c] \notin {"renamed", "claimed"}
    /\ epoch < MaxEpochs
    /\ phase' = "exiting"
    /\ UNCHANGED <<subVars, fileVars, result, told, runVars, epoch, isolated, stopAsked, todo, telling, jobVars>>

(* asyncio.run() cancels what is left.  CancelledError is no Exception: the *)
(* finally block saves and notifies with the status as it is; a child is    *)
(* killed first.                                                            *)
CancelJob(c) ==
    /\ phase = "exiting"
    /\ job[c] \in Running
    /\ job' = [job EXCEPT ![c] = "saved"]
    /\ result' = [result EXCEPT ![c] = out[c]]
    /\ body' = [body EXCEPT ![c] = IF isolated /\ @ = "running" THEN "over" ELSE @]
    /\ UNCHANGED <<subVars, fileVars, told, starts, rootVars, active, out>>

RootExit ==
    /\ phase = "exiting"
    /\ \A c \in Cmds : job[c] = "none"
    /\ phase' = "down"
    /\ UNCHANGED <<subVars, fileVars, result, told, runVars, epoch, isolated, stopAsked, todo, telling, jobVars>>

(* The root is killed; a subprocess or child goes on without it.            *)
RootCrash ==
    /\ phase # "down"
    /\ epoch < MaxEpochs
    /\ phase' = "down"
    /\ todo' = {}
    /\ telling' = NoCmd
    /\ active' = {}
    /\ job' = [c \in Cmds |-> "none"]
    /\ UNCHANGED <<subVars, fileVars, result, told, runVars, epoch, isolated, stopAsked, out>>

-----------------------------------------------------------------------------
ClaimSteps(c) == ClaimLease(c) \/ ClaimLeaseFails(c) \/ Execute(c) \/ ExecuteRefused(c)

JobSteps(c) ==
    \/ StartBody(c) \/ StartFails(c) \/ RegisterChild(c)
    \/ \E s \in {"completed", "failed"} : JobReturns(c, s)
    \/ JobSaveFails(c) \/ Notify(c) \/ FinishClaim(c)

RecoverySteps == RecoverTell \/ LoopBegins \/ \E c \in Cmds : RecoverProcessing(c)

ExitSteps == LoopExits \/ RootExit \/ \E c \in Cmds : CancelJob(c)

Next ==
    \/ RootStart \/ RootStop \/ RootTerminate \/ RootCrash
    \/ RecoverySteps \/ ExitSteps
    \/ \E c \in Cmds :
          \/ SubmitCreate(c) \/ SubmitWrite(c)
          \/ DiscardInvalid(c) \/ ClaimRename(c) \/ ClaimSteps(c)
          \/ JobSteps(c) \/ BodyEnds(c) \/ CleanupRunning(c)

Spec == Init /\ [][Next]_vars

(* The supervisor restarts a root, a synchronous section and a coroutine    *)
(* that can go on do so, a command ends, and the loop, which other commands *)
(* keep busy in between, comes to every descriptor.                         *)
Fairness ==
    /\ WF_vars(RootStart) /\ WF_vars(RecoverySteps) /\ WF_vars(ExitSteps)
    /\ \A c \in Cmds : /\ WF_vars(SubmitWrite(c)) /\ WF_vars(BodyEnds(c))
                       /\ WF_vars(ClaimSteps(c)) /\ WF_vars(JobSteps(c))
                       /\ SF_vars(ClaimRename(c))

FairSpec == Spec /\ Fairness

-----------------------------------------------------------------------------
(* Properties.                                                              *)

(* Type invariant: files, the root and its bookkeeping are in one of the    *)
(* states the code gives them.                                              *)
TypeOK ==
    /\ submitter \in [Cmds -> {"idle", "writing", "returned"}]
    /\ place \in [Cmds -> {"none", "empty", "pending", "processing"}]
    /\ lease \in [Cmds -> Leases \union {NoLease}]
    /\ result \in [Cmds -> {"none", "running", "completed", "failed"}]
    /\ told \in [Cmds -> SUBSET {"interrupted", "completed", "failed"}]
    /\ body \in [Cmds -> {"none", "running", "over"}]
    /\ starts \in [Cmds -> Nat]
    /\ phase \in {"down", "recovering", "loop", "exiting"}
    /\ epoch \in 0 .. MaxEpochs
    /\ isolated \in BOOLEAN
    /\ stopAsked \in BOOLEAN
    /\ todo \in SUBSET Cmds
    /\ telling \in Cmds \union {NoCmd}
    /\ active \in SUBSET Cmds
    /\ job \in [Cmds -> JobStages]
    /\ out \in [Cmds -> {"running", "completed", "failed"}]

(* No command is started twice, whatever crashes and restarts come between: *)
(* recovery reports an interrupted command and never runs it again.         *)
StartedOnce == \A c \in Cmds : starts[c] <= 1

(* The ids a root keeps in memory are those of the descriptors that carry   *)
(* its lease: each way a claim can end clears both or neither, so no id    *)
(* stays behind to defer a descriptor for ever.                             *)
OwnClaims ==
    phase # "down" =>
        active = {c \in Processing : lease[c] # NoLease /\ lease[c].epoch = epoch}

(* A descriptor whose lease names a child leaves processing/ only when that *)
(* child has ended: neither a later root's recovery nor the end of a claim  *)
(* takes it away from a command that still runs.                            *)
ChildKeepsDescriptor ==
    [][\A c \in Processing \ Processing' :
          lease[c] # NoLease /\ lease[c].version = 2 => body[c] = "over"]_vars

(* Once a root has recovered, what is in processing/ is its own or belongs  *)
(* to a child of an earlier root: "Missing, malformed, dead, and PID-reused *)
(* leases return False" in is_processing_lease_live().                      *)
RecoveryComplete ==
    phase = "loop" =>
        \A c \in Processing :
            \/ job[c] # "none"
            \/ lease[c] # NoLease /\ lease[c].version = 2

(* When submit reports success its descriptor is in pending/, where "the    *)
(* runner's pending watcher will pick it up" (_handle_submit).              *)
SubmitLeavesDescriptor ==
    [][\A c \in Cmds : submitter'[c] = "returned" /\ submitter[c] # "returned" => place'[c] = "pending"]_vars

(* Nothing stays in processing/ for ever: a claim ends, or a later root     *)
(* recovers what the crashed one left.  The exception is a descriptor whose *)
(* child outlived its root: recovery skips it, and looks only once.         *)
ClaimsEnd ==
    \A c \in Cmds :
        place[c] = "processing"
          ~> \/ place[c] # "processing"
             \/ lease[c] # NoLease /\ lease[c].version = 2 /\ lease[c].epoch # epoch

(* Every descriptor is picked up in the end, though commands run before it, *)
(* one at a time when isolated, and roots come and go.                      *)
PickedUp == \A c \in Cmds : place[c] = "pending" ~> place[c] # "pending"
=============================================================================
