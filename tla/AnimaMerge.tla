------------------------------ MODULE AnimaMerge ------------------------------
(* `animaworks anima merge` and `merge-finalize`: a command line process    *)
(* folds one anima into another, phase by phase, and records every phase in *)
(* a journal file.  The process may be killed or fail anywhere; it is run   *)
(* again with --resume and goes on from the journal.  Meanwhile a server    *)
(* may start and stop, keep animas running, write its cached state back to  *)
(* disk, and other animas go on sending messages to the source.             *)
EXTENDS Naturals, Sequences, FiniteSets, FiniteSetsExt

CONSTANTS
    FileSeq,     \* files of the source's memory, in the order the merge visits them
    Generated,   \* the ones of them it writes itself: recovered journals, summaries, transcripts
    Date,        \* day prefix of an episode's name; NoDate elsewhere
    NoDate,
    Ref,         \* the source file a file cites (itself: none)
    Contested,   \* files whose plain name a running target may take meanwhile
    Holdings,    \* what the target may hold under those names: "none", "other", "same"
    Messages,    \* messages other animas send to the source
    MaxFaults    \* bound: kills and exceptions of the command, and nights after one

Files == {FileSeq[i] : i \in DOMAIN FileSeq}

ASSUME FilesAssumption ==
    /\ FileSeq \in Seq(Files) /\ Generated \subseteq Files
    /\ Files \cap {"absent", "torn", "target"} = {}
ASSUME RefAssumption == Ref \in [Files -> Files] /\ DOMAIN Date = Files
ASSUME HoldingsAssumption == Holdings \subseteq [Files -> {"none", "other", "same"}]
ASSUME BoundsAssumption == MaxFaults \in Nat

VARIABLES
    jr,         \* the two journal files
    cmd,        \* the command line process: the command it runs, or "idle"
    at,         \* the phase its run() has come to
    entered,    \* _run_phase has started that phase
    sub,        \* the substep it is in
    todo,       \* what is left to do of the phase or substep
    mem,        \* artifacts it has not journaled yet
    tgt,        \* the target's memory files
    own,        \* the target's memory when it was quiesced
    snap,       \* the snapshot's copy of them
    idx,        \* the memory each index was built from
    refs,       \* whom each reference surface on disk names
    cache,      \* whom the server's copy of a surface names
    server,     \* the server runs
    enabled,    \* status.json of the two animas
    alive,      \* their processes
    unsent,     \* messages not sent yet
    box,        \* shared/inbox of the two animas
    handled,    \* how often a message was taken out and handled
    dir,        \* where the source's directory is
    entry,      \* config.json registers the source
    over,       \* the rollback window has passed
    day,
    disturbed,  \* an anima ran between QUIESCE and the smoke check
    faults

cmdVars  == <<cmd, at, entered, sub, todo, mem>>
memVars  == <<tgt, own, snap, idx>>
refVars  == <<refs, cache>>
liveVars == <<server, enabled, alive, disturbed>>
mailVars == <<unsent, box, handled>>
endVars  == <<dir, entry, over>>
vars == <<jr, cmdVars, memVars, refVars, liveVars, mailVars, endVars, day, faults>>

(* Mutants: the snapshot after the merge; the indexes before the rewrites.   *)
MergePhasesSnapshotLate == <<"PREFLIGHT", "QUIESCE", "MERGE_MEMORY", "SNAPSHOT", "REWRITE_REFS",
                             "REBUILD_INDEXES", "VERIFY", "TOMBSTONE", "DONE">>
MergePhasesIndexFirst == <<"PREFLIGHT", "QUIESCE", "SNAPSHOT", "MERGE_MEMORY", "REBUILD_INDEXES",
                           "REWRITE_REFS", "VERIFY", "TOMBSTONE", "DONE">>

MergePhases == <<"PREFLIGHT", "QUIESCE", "SNAPSHOT", "MERGE_MEMORY", "REWRITE_REFS",
                 "REBUILD_INDEXES", "VERIFY", "TOMBSTONE", "DONE">>
FinalizePhases == <<"PREFLIGHT", "ARCHIVE_SOURCE", "REMOVE_CONFIG", "PURGE_NEO4J",
                    "PURGE_RESIDUALS", "VERIFY_REMOVAL", "DONE">>
Rewrites == <<"organization", "messaging", "memory_references", "inbox_mapping", "inbox",
              "task_id_mapping", "inbox_task_references", "task_references", "ancillary_state">>
Rebuilds == <<"vectordb", "entities", "bm25", "graph_cache", "neo4j">>
SetOf(s) == {s[i] : i \in DOMAIN s}
Phases(c) == IF c = "merge" THEN MergePhases ELSE FinalizePhases
Substeps(p) == IF p = "REWRITE_REFS" THEN Rewrites ELSE IF p = "REBUILD_INDEXES" THEN Rebuilds ELSE <<>>

Animas == {"source", "target"}
Surfaces == {"status", "org_config", "routing_config", "rooms", "tasks", "taskboard",
             "notification_map", "discord_map", "run_state"}
Scanned == {"status", "org_config", "routing_config", "notification_map", "discord_map", "taskboard"}
Cached == {"discord_map"}

(* A copy of source file f has one of the names <<f, 0>> (its own), <<f, 1>> *)
(* (with __from_<source>) and <<f, 2>>, ...; a generated one <<f, day>>.    *)
Names == Files \X (0 .. MaxFaults + 1)
Absent == [of |-> "absent", ref |-> <<>>]
Torn == [of |-> "torn", ref |-> <<>>]
Own == [of |-> "target", ref |-> <<>>]
Doc(f) == [of |-> f, ref |-> <<Ref[f], 0>>]

NewJournal == [status |-> "running",
               phase |-> [p \in SetOf(MergePhases) \cup SetOf(FinalizePhases) |-> "none"],
               step |-> [s \in SetOf(Rewrites) \cup SetOf(Rebuilds) |-> "none"],
               map |-> <<>>, plan |-> {}]
NoJournal == [NewJournal EXCEPT !.status = "absent"]
NoArtifacts == [map |-> <<>>, plan |-> {}, seen |-> {}]
Completed(c, p) == jr[c].phase[p] = "completed"
StepDone(s) == jr["merge"].step[s] = "completed"

Init ==
    /\ jr = [c \in {"merge", "finalize"} |-> NoJournal]
    /\ cmd = "idle" /\ at = "-" /\ entered = FALSE /\ sub = "-" /\ todo = <<>> /\ mem = NoArtifacts
    /\ \E h \in Holdings :
         own = [n \in Names |-> IF n[2] # 0 \/ h[n[1]] = "none" THEN Absent
                                ELSE IF h[n[1]] = "same" THEN Doc(n[1]) ELSE Own]
    /\ tgt = own
    /\ snap = [n \in Names |-> Absent]
    /\ idx = [s \in SetOf(Rebuilds) |-> <<>>]
    /\ refs = [s \in Surfaces |-> "source"]
    /\ cache = [s \in Cached |-> "source"]
    /\ server \in BOOLEAN
    /\ enabled = [n \in Animas |-> TRUE]
    /\ alive = [n \in Animas |-> server]
    /\ unsent = Messages
    /\ box = [n \in Animas |-> {}]
    /\ handled = [m \in Messages |-> 0]
    /\ dir = "animas" /\ entry = TRUE /\ over = FALSE
    /\ day = 0 /\ disturbed = FALSE /\ faults = 0

-----------------------------------------------------------------------------
(* MergeJournal: each record is one atomic write of the file.               *)

JStart(j, p) == [j EXCEPT !.phase[p] = "started", !.status = "running"]
JComplete(j, p, a) == [j EXCEPT !.phase[p] = "completed",
                                !.map = IF p = "MERGE_MEMORY" THEN a.map ELSE @]
JFail(j, p) == [j EXCEPT !.phase[p] = "failed", !.status = "failed"]
JStepStart(j, s) == [j EXCEPT !.step[s] = "started"]
JStepComplete(j, s, a) == [j EXCEPT !.step[s] = "completed",
                                    !.plan = IF s = "inbox_mapping" THEN a.plan ELSE @]
JStepFail(j, s) == IF s = "-" THEN j ELSE [j EXCEPT !.step[s] = "failed"]

(* _run_phase: a completed phase is not entered again.                      *)
NextPhase(c, j) ==
    LET open == {i \in DOMAIN Phases(c) : j.phase[Phases(c)[i]] # "completed"}
    IN  IF open = {} THEN "finish" ELSE Phases(c)[Min(open)]

(* run(): under the global lock; a merge only while both directories exist. *)
(* An unfinished journal is opened with --resume only, a finished one with  *)
(* or without.  (Bound: merge-finalize, which its _preflight stops before a *)
(* finished merge, is tried from the tombstone on.)                         *)
Run(c, resume) ==
    /\ cmd = "idle"
    /\ IF c = "merge" THEN dir = "animas" ELSE Completed("merge", "TOMBSTONE")
    /\ IF jr[c].status = "absent" THEN ~resume ELSE resume \/ jr[c].status = "done"
    /\ jr' = [jr EXCEPT ![c] = IF @.status = "absent" THEN NewJournal ELSE @]
    /\ cmd' = c
    /\ at' = NextPhase(c, jr'[c])
    /\ UNCHANGED <<entered, sub, todo, mem, memVars, refVars, liveVars, mailVars, endVars, day, faults>>

Stop == cmd' = "idle" /\ at' = "-" /\ entered' = FALSE /\ sub' = "-" /\ todo' = <<>> /\ mem' = NoArtifacts

(* The order of rewrite_organization's and rewrite_inbox's writes, and a    *)
(* mutant of the latter.                                                    *)
UnlinkFirst == <<"unlink", "copy">>
OrganizationWrites == <<"status", "org_config">>
InboxWrites == <<"copy", "unlink">>

(* What a phase or substep does, one durable write after the other.         *)
Writes == [
    QUIESCE |-> <<"disable", "release">>, SNAPSHOT |-> FileSeq, MERGE_MEMORY |-> FileSeq,
    organization |-> OrganizationWrites, messaging |-> <<"routing_config", "rooms">>,
    memory_references |-> FileSeq, inbox_mapping |-> <<"plan">>, inbox |-> InboxWrites,
    inbox_task_references |-> <<"read">>, task_references |-> <<"tasks", "taskboard">>,
    ancillary_state |-> <<"notification_map", "discord_map", "run_state", "sync">>,
    vectordb |-> <<"build">>, entities |-> <<"build">>, bm25 |-> <<"build">>,
    graph_cache |-> <<"build">>, neo4j |-> <<"build">>,
    VERIFY |-> <<"scan", "smoke">>, TOMBSTONE |-> <<"tombstone">>,
    ARCHIVE_SOURCE |-> <<"move">>, REMOVE_CONFIG |-> <<"unregister">>,
    PURGE_RESIDUALS |-> <<"purge">>, VERIFY_REMOVAL |-> <<"absent">>]
Work(u) == IF u \in DOMAIN Writes THEN Writes[u] ELSE <<>>

PhaseStart ==
    /\ cmd # "idle" /\ ~entered /\ at # "finish"
    /\ jr' = [jr EXCEPT ![cmd] = JStart(@, at)]
    /\ entered' = TRUE
    /\ todo' = IF cmd = "finalize" /\ at = "PREFLIGHT" THEN <<"ready">> ELSE Work(at)
    /\ UNCHANGED <<cmd, at, sub, mem, memVars, refVars, liveVars, mailVars, endVars, day, faults>>

(* _run_rewrite_substep, _run_rebuild_substep: in order, the completed ones *)
(* of an earlier run skipped.                                               *)
Open == {i \in DOMAIN Substeps(at) : ~StepDone(Substeps(at)[i])}

SubStart ==
    /\ cmd = "merge" /\ entered /\ sub = "-" /\ Open # {}
    /\ sub' = Substeps(at)[Min(Open)]
    /\ jr' = [jr EXCEPT !["merge"] = JStepStart(@, sub')]
    /\ todo' = Work(sub')
    /\ UNCHANGED <<cmd, at, entered, mem, memVars, refVars, liveVars, mailVars, endVars, day, faults>>

SubEnd ==
    /\ sub # "-" /\ todo = <<>>
    /\ jr' = [jr EXCEPT !["merge"] = JStepComplete(@, sub, mem)]
    /\ sub' = "-"
    /\ UNCHANGED <<cmd, at, entered, todo, mem, memVars, refVars, liveVars, mailVars, endVars, day, faults>>

PhaseEnd ==
    /\ entered /\ sub = "-" /\ todo = <<>> /\ Open = {}
    /\ jr' = [jr EXCEPT ![cmd] = JComplete(@, at, mem)]
    /\ entered' = FALSE
    /\ at' = NextPhase(cmd, jr'[cmd])
    /\ UNCHANGED <<cmd, sub, todo, mem, memVars, refVars, liveVars, mailVars, endVars, day, faults>>

Finish ==
    /\ at = "finish"
    /\ jr' = [jr EXCEPT ![cmd].status = "done"]
    /\ Stop
    /\ UNCHANGED <<memVars, refVars, liveVars, mailVars, endVars, day, faults>>

(* An exception leaves the substep and the phase failed; a kill leaves them *)
(* started.                                                                 *)
Failed == jr' = [jr EXCEPT ![cmd] = JFail(JStepFail(@, sub), at)] /\ Stop

Raise ==
    /\ entered /\ faults < MaxFaults
    /\ faults' = faults + 1
    /\ Failed
    /\ UNCHANGED <<memVars, refVars, liveVars, mailVars, endVars, day>>

Crash ==
    /\ cmd # "idle" /\ faults < MaxFaults
    /\ faults' = faults + 1
    /\ Stop
    /\ UNCHANGED <<jr, memVars, refVars, liveVars, mailVars, endVars, day>>

-----------------------------------------------------------------------------
(* The bodies of the phases.                                                *)

Doing(u, item) == entered /\ u = (IF sub = "-" THEN at ELSE sub) /\ todo # <<>> /\ Head(todo) = item
Advance == todo' = Tail(todo) /\ UNCHANGED <<cmd, at, entered, sub, jr>>

(* quiesce: a running server disables and stops both animas; either way     *)
(* none of them may be running then.                                        *)
QuiesceDisable ==
    /\ Doing("QUIESCE", "disable")
    /\ enabled' = IF server THEN [n \in Animas |-> FALSE] ELSE enabled
    /\ alive' = IF server THEN [n \in Animas |-> FALSE] ELSE alive
    /\ Advance
    /\ UNCHANGED <<mem, memVars, refVars, server, disturbed, mailVars, endVars, day, faults>>

(* Mutant: the release of the processes is not awaited.                      *)
QuiesceReleaseUnchecked ==
    /\ Doing("QUIESCE", "release")
    /\ Advance
    /\ UNCHANGED <<mem, memVars, refVars, liveVars, mailVars, endVars, day, faults>>

QuiesceRelease ==
    /\ Doing("QUIESCE", "release")
    /\ IF \E n \in Animas : alive[n] THEN Failed ELSE Advance /\ UNCHANGED mem
    /\ UNCHANGED <<memVars, refVars, liveVars, mailVars, endVars, day, faults>>

(* snapshot: the copies overwrite what an earlier try left in the same      *)
(* directory, whose name comes from the journal.                            *)
SnapshotFile(f) ==
    /\ Doing("SNAPSHOT", f)
    /\ snap' = [n \in Names |-> IF n[1] = f THEN tgt[n] ELSE snap[n]]
    /\ Advance
    /\ UNCHANGED <<mem, tgt, own, idx, refVars, liveVars, mailVars, endVars, day, faults>>

(* _merge_episodes: an episode whose day the target knows does not take its *)
(* plain name.                                                              *)
TargetDates == {Date[n[1]] : n \in {n \in Names : tgt[n] # Absent}} \ {NoDate}
First(f) == IF Date[f] \in TargetDates /\ tgt[<<f, 0>>] = Absent THEN 1 ELSE 0

(* _copy_collision_safe, _copy_skill_directory: the first name that is free *)
(* or already holds this very content.  _write_generated_episode: the name  *)
(* comes from the day and the content.                                      *)
(* Mutant: a file that is there is overwritten.                              *)
FitsAlways(n) == TRUE
Fits(n) == tgt[n] \in {Absent, Doc(n[1])}
Destination(f, n) ==
    IF f \in Generated THEN n = <<f, day>>
    ELSE /\ n[1] = f /\ n[2] >= First(f) /\ Fits(n)
         /\ \A k \in First(f) .. n[2] - 1 : ~Fits(<<f, k>>)
Copy(f, n) ==
    /\ tgt' = [tgt EXCEPT ![n] = Doc(f)]
    /\ mem' = [mem EXCEPT !.map = [g \in DOMAIN @ \cup {f} |-> IF g = f THEN n ELSE @[g]]]
    /\ Advance

(* Mutant: a file that is there already counts as copied.                    *)
MergeFileSkippingExisting(f) ==
    LET n == <<f, First(f)>>
    IN  /\ Doing("MERGE_MEMORY", f) /\ f \notin Generated
        /\ tgt' = [tgt EXCEPT ![n] = IF @ = Absent THEN Doc(f) ELSE @]
        /\ mem' = [mem EXCEPT !.map = [g \in DOMAIN @ \cup {f} |-> IF g = f THEN n ELSE @[g]]]
        /\ Advance
        /\ UNCHANGED <<own, snap, idx, refVars, liveVars, mailVars, endVars, day, faults>>

(* merge_memory: the episodes, documents, skills and attachments.           *)
MergeFile(f) ==
    /\ Doing("MERGE_MEMORY", f) /\ f \notin Generated
    /\ \E n \in Names : Destination(f, n) /\ Copy(f, n)
    /\ UNCHANGED <<own, snap, idx, refVars, liveVars, mailVars, endVars, day, faults>>

(* _recover_abandoned_memory, _merge_conversation_history: a file that has  *)
(* the name and another content is an error.                                *)
MergeGenerated(f) ==
    /\ Doing("MERGE_MEMORY", f) /\ f \in Generated
    /\ \E n \in Names : /\ Destination(f, n)
                         /\ IF Fits(n) THEN Copy(f, n) ELSE Failed /\ UNCHANGED tgt
    /\ UNCHANGED <<own, snap, idx, refVars, liveVars, mailVars, endVars, day, faults>>

(* copy2, copytree and write_text are not atomic.                           *)
CrashInCopy(f) ==
    /\ Doing("MERGE_MEMORY", f) /\ faults < MaxFaults
    /\ \E n \in Names : /\ Destination(f, n) /\ tgt[n] = Absent
                         /\ tgt' = [tgt EXCEPT ![n] = Torn]
    /\ faults' = faults + 1
    /\ Stop
    /\ UNCHANGED <<jr, own, snap, idx, refVars, liveVars, mailVars, endVars, day>>

(* Mutant: citations keep the plain names.                                   *)
RewriteDocumentByName(f) ==
    /\ Doing("memory_references", f)
    /\ Advance
    /\ UNCHANGED <<mem, memVars, refVars, liveVars, mailVars, endVars, day, faults>>

(* rewrite_memory_references, by the journaled mapping.                     *)
RewriteDocument(f) ==
    /\ Doing("memory_references", f)
    /\ LET map == jr["merge"].map
       IN  tgt' = IF f \in Generated \/ tgt[map[f]].of # f THEN tgt
                  ELSE [tgt EXCEPT ![map[f]].ref = map[Ref[f]]]
    /\ Advance
    /\ UNCHANGED <<mem, own, snap, idx, refVars, liveVars, mailVars, endVars, day, faults>>

(* One file or transaction of a rewrite at a time.                          *)
Retarget(u) ==
    /\ sub = u /\ todo # <<>> /\ Head(todo) \in Surfaces
    /\ refs' = [refs EXCEPT ![Head(todo)] = "target"]
    /\ Advance
    /\ UNCHANGED <<mem, memVars, cache, liveVars, mailVars, endVars, day, faults>>

RewriteOrganization == Retarget("organization")
RewriteMessaging == Retarget("messaging")
RewriteTasks == Doing("task_references", "tasks") /\ Retarget("task_references")
RewriteTaskboard == Doing("task_references", "taskboard") /\ Retarget("task_references")
RewriteAncillaryState == Retarget("ancillary_state")

(* Mutant: only the file is retargeted, not the server's copy.               *)
SyncLiveFileOnly ==
    /\ Doing("ancillary_state", "sync")
    /\ refs' = [s \in Surfaces |-> IF server /\ s \in Cached THEN "target" ELSE refs[s]]
    /\ Advance
    /\ UNCHANGED <<mem, memVars, cache, liveVars, mailVars, endVars, day, faults>>

(* _sync_live_reference_state: a running server retargets the maps it holds *)
(* in memory and saves them.                                                *)
SyncLive ==
    /\ Doing("ancillary_state", "sync")
    /\ refs' = [s \in Surfaces |-> IF server /\ s \in Cached /\ cache[s] = "source" THEN "target" ELSE refs[s]]
    /\ cache' = IF server THEN [s \in Cached |-> "target"] ELSE cache
    /\ Advance
    /\ UNCHANGED <<mem, memVars, liveVars, mailVars, endVars, day, faults>>

(* plan_inbox                                                               *)
PlanInbox ==
    /\ Doing("inbox_mapping", "plan")
    /\ mem' = [mem EXCEPT !.plan = box["source"]]
    /\ Advance
    /\ UNCHANGED <<memVars, refVars, liveVars, mailVars, endVars, day, faults>>

(* Mutant: a message an earlier run has moved already is an error.           *)
InboxCopyOriginalsOnly(m) ==
    /\ Doing("inbox", "copy") /\ m \in jr["merge"].plan \ mem.seen
    /\ IF m \in box["source"]
       THEN /\ box' = [box EXCEPT !["target"] = @ \cup {m}]
            /\ mem' = [mem EXCEPT !.seen = @ \cup {m}]
            /\ UNCHANGED <<cmd, at, entered, sub, todo, jr>>
       ELSE Failed /\ UNCHANGED box
    /\ UNCHANGED <<memVars, refVars, liveVars, unsent, handled, endVars, day, faults>>

(* rewrite_inbox: every copy is written before the first original is        *)
(* removed.  A planned message that is in neither inbox is an error.        *)
InboxCopy(m) ==
    /\ Doing("inbox", "copy") /\ m \in jr["merge"].plan \ mem.seen
    /\ IF m \in box["source"] \cup box["target"]
       THEN /\ box' = [box EXCEPT !["target"] = @ \cup {m}]
            /\ mem' = [mem EXCEPT !.seen = @ \cup {m}]
            /\ UNCHANGED <<cmd, at, entered, sub, todo, jr>>
       ELSE Failed /\ UNCHANGED box
    /\ UNCHANGED <<memVars, refVars, liveVars, unsent, handled, endVars, day, faults>>

InboxUnlink(m) ==
    /\ Doing("inbox", "unlink") /\ m \in jr["merge"].plan \ mem.seen
    /\ box' = [box EXCEPT !["source"] = @ \ {m}]
    /\ mem' = [mem EXCEPT !.seen = @ \cup {m}]
    /\ UNCHANGED <<cmd, at, entered, sub, todo, jr, memVars, refVars, liveVars, unsent, handled, endVars, day, faults>>

InboxNext ==
    /\ sub = "inbox" /\ todo # <<>> /\ mem.seen = jr["merge"].plan
    /\ mem' = [mem EXCEPT !.seen = {}]
    /\ Advance
    /\ UNCHANGED <<memVars, refVars, liveVars, mailVars, endVars, day, faults>>

(* rewrite_inbox_task_references opens every moved message.                 *)
InboxTaskReferences ==
    /\ Doing("inbox_task_references", "read")
    /\ IF jr["merge"].plan \subseteq box["target"] THEN Advance /\ UNCHANGED mem ELSE Failed
    /\ UNCHANGED <<memVars, refVars, liveVars, mailVars, endVars, day, faults>>

(* Every index is rebuilt from the target's files as they are.              *)
Memory == [n \in {n \in Names : tgt[n] # Absent} |-> tgt[n]]
Rebuild ==
    /\ sub \in SetOf(Rebuilds) /\ Doing(sub, "build")
    /\ idx' = [idx EXCEPT ![sub] = Memory]
    /\ Advance
    /\ UNCHANGED <<mem, tgt, own, snap, refVars, liveVars, mailVars, endVars, day, faults>>

(* verify: probes into the index, then the scan for references to the       *)
(* source, in its inbox too.                                                *)
ProbeHits(f) == LET n == jr["merge"].map[f] IN n \in DOMAIN idx["vectordb"] /\ idx["vectordb"][n].of = f
Residual == (\E s \in Scanned : refs[s] = "source") \/ box["source"] # {}

VerifyScan ==
    /\ Doing("VERIFY", "scan")
    /\ IF (\E f \in Files : ~ProbeHits(f)) \/ Residual THEN Failed ELSE Advance /\ UNCHANGED mem
    /\ UNCHANGED <<memVars, refVars, liveVars, mailVars, endVars, day, faults>>

(* _smoke_check_target: a running server enables and starts the target.     *)
SmokeCheck ==
    /\ Doing("VERIFY", "smoke")
    /\ enabled' = [enabled EXCEPT !["target"] = @ \/ server]
    /\ alive' = [alive EXCEPT !["target"] = @ \/ server]
    /\ Advance
    /\ UNCHANGED <<mem, memVars, refVars, server, disturbed, mailVars, endVars, day, faults>>

Tombstone ==
    /\ Doing("TOMBSTONE", "tombstone")
    /\ enabled' = [enabled EXCEPT !["source"] = FALSE]
    /\ Advance
    /\ UNCHANGED <<mem, memVars, refVars, server, alive, disturbed, mailVars, endVars, day, faults>>

(* Mutant: the rollback window is not looked at.                             *)
FinalizeReadyEarly ==
    /\ Doing("PREFLIGHT", "ready")
    /\ IF dir = "animas" => ~enabled["source"] THEN Advance /\ UNCHANGED mem ELSE Failed
    /\ UNCHANGED <<memVars, refVars, liveVars, mailVars, endVars, day, faults>>

(* _preflight of merge-finalize                                             *)
FinalizeReady ==
    /\ Doing("PREFLIGHT", "ready")
    /\ IF /\ jr["merge"].status = "done" /\ Completed("merge", "DONE") /\ Completed("merge", "TOMBSTONE")
          /\ over
          /\ dir = "animas" => ~enabled["source"]
       THEN Advance /\ UNCHANGED mem
       ELSE Failed
    /\ UNCHANGED <<memVars, refVars, liveVars, mailVars, endVars, day, faults>>

(* _archive_source: one rename; a second try finds the archive.             *)
ArchiveSource ==
    /\ Doing("ARCHIVE_SOURCE", "move")
    /\ dir' = "archive"
    /\ Advance
    /\ UNCHANGED <<mem, memVars, refVars, liveVars, mailVars, entry, over, day, faults>>

RemoveSourceConfig ==
    /\ Doing("REMOVE_CONFIG", "unregister")
    /\ entry' = FALSE
    /\ Advance
    /\ UNCHANGED <<mem, memVars, refVars, liveVars, mailVars, dir, over, day, faults>>

(* _purge_residuals drops routing entries that still name the source.       *)
PurgeResiduals ==
    /\ Doing("PURGE_RESIDUALS", "purge")
    /\ refs' = [s \in Surfaces |-> IF s \in {"notification_map", "discord_map"} THEN "target" ELSE refs[s]]
    /\ Advance
    /\ UNCHANGED <<mem, memVars, cache, liveVars, mailVars, endVars, day, faults>>

VerifyRemoval ==
    /\ Doing("VERIFY_REMOVAL", "absent")
    /\ IF dir = "archive" /\ ~entry THEN Advance /\ UNCHANGED mem ELSE Failed
    /\ UNCHANGED <<memVars, refVars, liveVars, mailVars, endVars, day, faults>>

-----------------------------------------------------------------------------
(* The server, the animas it keeps running, and their peers.                *)

Merging ==
    /\ Completed("merge", "QUIESCE") \/ (cmd = "merge" /\ at = "QUIESCE" /\ entered /\ todo = <<>>)
    /\ ~Completed("merge", "VERIFY")

ServerStart ==
    /\ ~server
    /\ server' = TRUE
    /\ cache' = [s \in Cached |-> refs[s]]
    /\ UNCHANGED <<jr, cmdVars, memVars, refs, enabled, alive, disturbed, mailVars, endVars, day, faults>>

ServerStop ==
    /\ server
    /\ server' = FALSE
    /\ alive' = [n \in Animas |-> FALSE]
    /\ UNCHANGED <<jr, cmdVars, memVars, refVars, enabled, disturbed, mailVars, endVars, day, faults>>

(* The supervisor's reconciliation follows status.json.                     *)
AnimaStart(n) ==
    /\ server /\ enabled[n] /\ ~alive[n]
    /\ n = "source" => dir = "animas"
    /\ alive' = [alive EXCEPT ![n] = TRUE]
    /\ disturbed' = (disturbed \/ Merging)
    /\ UNCHANGED <<jr, cmdVars, memVars, refVars, server, enabled, mailVars, endVars, day, faults>>

AnimaStop(n) ==
    /\ server /\ ~enabled[n] /\ alive[n]
    /\ alive' = [alive EXCEPT ![n] = FALSE]
    /\ UNCHANGED <<jr, cmdVars, memVars, refVars, server, enabled, disturbed, mailVars, endVars, day, faults>>

(* POST /animas/{name}/enable: the source is called back from its tombstone. *)
CallBack ==
    /\ server /\ Completed("merge", "TOMBSTONE") /\ ~enabled["source"] /\ dir = "animas"
    /\ enabled' = [enabled EXCEPT !["source"] = TRUE]
    /\ alive' = [alive EXCEPT !["source"] = TRUE]
    /\ UNCHANGED <<jr, cmdVars, memVars, refVars, server, disturbed, mailVars, endVars, day, faults>>

(* The server writes a file back from its memory.                           *)
ServerSave(s) ==
    /\ server /\ refs[s] # cache[s]
    /\ refs' = [refs EXCEPT ![s] = cache[s]]
    /\ UNCHANGED <<jr, cmdVars, memVars, cache, liveVars, mailVars, endVars, day, faults>>

Deliver(m) ==
    /\ m \in unsent
    /\ unsent' = unsent \ {m}
    /\ box' = [box EXCEPT !["source"] = @ \cup {m}]
    /\ UNCHANGED <<jr, cmdVars, memVars, refVars, liveVars, handled, endVars, day, faults>>

Handle(n, m) ==
    /\ alive[n] /\ m \in box[n]
    /\ box' = [box EXCEPT ![n] = @ \ {m}]
    /\ handled' = [handled EXCEPT ![m] = @ + 1]
    /\ UNCHANGED <<jr, cmdVars, memVars, refVars, liveVars, unsent, endVars, day, faults>>

(* A running target writes a memory file under a name the merge may want.   *)
TargetWrite(f) ==
    /\ alive["target"] /\ f \in Contested \ Generated /\ tgt[<<f, 0>>] = Absent
    /\ tgt' = [tgt EXCEPT ![<<f, 0>>] = Own]
    /\ own' = IF Completed("merge", "QUIESCE") THEN own ELSE tgt'
    /\ UNCHANGED <<jr, cmdVars, snap, idx, refVars, liveVars, mailVars, endVars, day, faults>>

WindowPasses ==
    /\ Completed("merge", "TOMBSTONE") /\ ~over
    /\ over' = TRUE
    /\ UNCHANGED <<jr, cmdVars, memVars, refVars, liveVars, mailVars, dir, entry, day, faults>>

NewDay ==
    /\ day < faults /\ ~Completed("merge", "MERGE_MEMORY")
    /\ day' = day + 1
    /\ UNCHANGED <<jr, cmdVars, memVars, refVars, liveVars, mailVars, endVars, faults>>

Control == PhaseStart \/ SubStart \/ SubEnd \/ PhaseEnd \/ Finish

Body ==
    \/ QuiesceDisable \/ QuiesceRelease
    \/ \E f \in Files : SnapshotFile(f) \/ MergeGenerated(f) \/ MergeFile(f) \/ RewriteDocument(f)
    \/ RewriteOrganization \/ RewriteMessaging \/ RewriteTasks \/ RewriteTaskboard \/ RewriteAncillaryState
    \/ SyncLive \/ PlanInbox \/ InboxNext \/ InboxTaskReferences
    \/ \E m \in Messages : InboxCopy(m) \/ InboxUnlink(m)
    \/ Rebuild \/ VerifyScan \/ SmokeCheck \/ Tombstone
    \/ FinalizeReady \/ ArchiveSource \/ RemoveSourceConfig \/ PurgeResiduals \/ VerifyRemoval

Step == cmd # "idle" /\ (Control \/ (todo # <<>> /\ Body))

Fault == Raise \/ Crash \/ \E f \in Files : CrashInCopy(f)

Outside ==
    \/ ServerStart \/ ServerStop \/ CallBack \/ WindowPasses
    \/ \E n \in Animas : AnimaStart(n) \/ AnimaStop(n)
    \/ \E s \in Cached : ServerSave(s)
    \/ \E m \in Messages : Deliver(m) \/ \E n \in Animas : Handle(n, m)
    \/ \E f \in Files : TargetWrite(f)

Merge == \E r \in BOOLEAN : Run("merge", r)
Finalize == \E r \in BOOLEAN : Run("finalize", r)
Next == Merge \/ Finalize \/ Step \/ Fault \/ Outside \/ NewDay

Spec == Init /\ [][Next]_vars
(* The process runs, the operator runs an unfinished merge again, and days  *)
(* pass.                                                                    *)
FairSpec == Spec /\ WF_vars(Step) /\ SF_vars(Merge) /\ WF_vars(NewDay)

-----------------------------------------------------------------------------
(* The values the journals, the lists of work and the files range over.     *)
Cmds == {"merge", "finalize"}
AllPhases == SetOf(MergePhases) \cup SetOf(FinalizePhases)
AllSteps == SetOf(Rewrites) \cup SetOf(Rebuilds)
Items == Files \cup Surfaces \cup
         {"disable", "release", "plan", "copy", "unlink", "read", "sync", "build", "scan", "smoke", "tombstone",
          "ready", "move", "unregister", "purge", "absent"}
Marks == {"none", "started", "completed", "failed"}
Maps == {m \in UNION {[D -> Names] : D \in SUBSET Files} : \A f \in DOMAIN m : m[f][1] = f}
Journal == [status : {"absent", "running", "failed", "done"}, phase : [AllPhases -> Marks],
            step : [AllSteps -> Marks], map : Maps, plan : SUBSET Messages]
Content == [of : Files \cup {"absent", "torn", "target"}, ref : Names \cup {<<>>}]

(* Every file and every field of the two processes keeps its type; a        *)
(* mapping gives a source file one of the names made from its own.          *)
TypeOK ==
    /\ jr \in [Cmds -> Journal]
    /\ cmd \in Cmds \cup {"idle"} /\ at \in AllPhases \cup {"-", "finish"} /\ sub \in AllSteps \cup {"-"}
    /\ entered \in BOOLEAN /\ todo \in Seq(Items)
    /\ mem \in [map : Maps, plan : SUBSET Messages, seen : SUBSET Messages]
    /\ tgt \in [Names -> Content] /\ own \in [Names -> Content] /\ snap \in [Names -> Content]
    /\ idx \in [SetOf(Rebuilds) -> UNION {[D -> Content] : D \in SUBSET Names}]
    /\ refs \in [Surfaces -> Animas] /\ cache \in [Cached -> Animas]
    /\ server \in BOOLEAN /\ enabled \in [Animas -> BOOLEAN] /\ alive \in [Animas -> BOOLEAN]
    /\ unsent \in SUBSET Messages /\ box \in [Animas -> SUBSET Messages] /\ handled \in [Messages -> Nat]
    /\ dir \in {"animas", "archive"} /\ entry \in BOOLEAN /\ over \in BOOLEAN
    /\ disturbed \in BOOLEAN /\ faults \in 0 .. MaxFaults /\ day \in 0 .. faults

(* Before the target's memory is changed for the first time the snapshot    *)
(* holds all of it as it was, and no later run of the merge touches it: the *)
(* rollback the snapshot is for stays possible (service.py snapshot,        *)
(* _run_phase), unless an anima was let run in between.                     *)
SnapshotFirst == (tgt # own /\ ~disturbed) => snap = own

(* Once MERGE_MEMORY is journaled every source file is whole in the target  *)
(* under the name the journaled mapping gives, whatever was torn, repeated  *)
(* or written by the target in between.                                     *)
NothingLost ==
    Completed("merge", "MERGE_MEMORY") =>
        \A f \in Files : f \in DOMAIN jr["merge"].map /\ tgt[jr["merge"].map[f]].of = f

(* Once the memory references are rewritten each copied document cites the  *)
(* copy of the document it cited in the source, and not a file of the       *)
(* target that happens to have its old name.                                *)
CitationsFollow ==
    StepDone("memory_references") =>
        \A f \in Files \ Generated :
            LET map == jr["merge"].map IN tgt[map[f]].ref = map[Ref[f]] /\ tgt[map[Ref[f]]].of = Ref[f]

(* No step replaces or removes a file that is the target's own.             *)
OwnFilesKept == [][\A n \in Names : tgt[n] = Own => tgt'[n] = Own]_vars

(* A message sent to the source is in an inbox or was handled: no kill      *)
(* between the copies and the unlinks loses it.                             *)
MailKept == \A m \in Messages \ unsent : m \in box["source"] \cup box["target"] \/ handled[m] > 0

(* If no anima ran meanwhile, a message that is moved is handled once: not  *)
(* from the original and from the copy.                                     *)
MailOnce == ~disturbed => \A m \in Messages : handled[m] <= 1

(* Once VERIFY has passed, the files it scanned name the target for good:   *)
(* the maps a running server holds in memory were retargeted too, so no     *)
(* late save of the server brings the source back.                          *)
ReferencesStay == Completed("merge", "VERIFY") => \A s \in Scanned : refs[s] = "target"

(* When the indexes are journaled as rebuilt they were built from the       *)
(* memory as the merge leaves it, citations rewritten.                      *)
IndexesFresh ==
    (Completed("merge", "REBUILD_INDEXES") /\ jr["merge"].phase["VERIFY"] = "none" /\ ~disturbed)
        => \A s \in SetOf(Rebuilds) : idx[s] = Memory

(* The source's directory is archived, and its registration removed, only   *)
(* after a finished merge and the rollback window.                          *)
WindowKept ==
    (dir = "archive" \/ ~entry) => over /\ jr["merge"].status = "done"

(* A merge that is resumed as often as it fails comes to its end, if the    *)
(* server stays up or stays down in the end, unless what only a person can  *)
(* clear away stands in the way of VERIFY: an anima was let run in between, *)
(* a message reached the source after its inbox was planned, or a server    *)
(* saved its old map over the rewritten one and stopped before the sync.    *)
Stranded ==
    \/ StepDone("inbox_mapping") /\ ~(box["source"] \subseteq jr["merge"].plan)
    \/ StepDone("ancillary_state") /\ \E s \in Scanned : refs[s] = "source"
MergeEnds == (<>[]server \/ <>[]~server) => <>(jr["merge"].status = "done" \/ disturbed \/ Stranded)
=============================================================================
