------------------------ MODULE AnimaMergeFlowProofs ------------------------
(* Proofs about AnimaMerge, first part: the inductive invariant, and that   *)
(* the two commands go through their phases, substeps and items in order,   *)
(* whatever kills, exceptions and resumptions happen.                       *)
EXTENDS AnimaMerge, TLAPS

(* Zenon takes the leaves; those with arithmetic, sequences or records cite *)
(* SMT.                                                                     *)
USE Zenon

-----------------------------------------------------------------------------
(* The inductive invariant.  Most of what the merge guarantees has the same *)
(* form: once an item of a phase or a substep has been worked on, a fact    *)
(* about the files holds, from then on and when the journal says completed. *)

Start(c, p) == IF c = "finalize" /\ p = "PREFLIGHT" THEN <<"ready">> ELSE Work(p)
Pending(x) == \E i \in DOMAIN todo : todo[i] = x
Did(c, p, x) == Completed(c, p) \/ (cmd = c /\ entered /\ sub = "-" /\ at = p /\ ~Pending(x))
StepDid(s, x) == StepDone(s) \/ (sub = s /\ ~Pending(x))

(* What the process is at follows from the journal.                         *)
Reached(c) ==
    \/ at = "finish" /\ \A i \in DOMAIN Phases(c) : Completed(c, Phases(c)[i])
    \/ \E k \in DOMAIN Phases(c) :
          /\ at = Phases(c)[k] /\ ~Completed(c, at)
          /\ \A i \in 1 .. k - 1 : Completed(c, Phases(c)[i])

InStep ==
    /\ cmd = "merge" /\ entered
    /\ \E k \in DOMAIN Substeps(at) :
          /\ sub = Substeps(at)[k] /\ ~StepDone(sub)
          /\ \A i \in 1 .. k - 1 : StepDone(Substeps(at)[i])

FlowInv ==
    /\ \A c \in Cmds : jr[c].status = "absent" => jr[c] = NoJournal
    /\ cmd = "idle" => at = "-" /\ ~entered
    /\ cmd # "idle" => Reached(cmd)
    /\ ~entered => sub = "-" /\ todo = <<>>
    /\ entered => at \in SetOf(Phases(cmd)) /\ jr[cmd].phase[at] = "started"
    /\ sub # "-" => InStep
    /\ sub # "inbox" \/ todo = <<>> => mem.seen = {}

(* The last item of some lists, which has to come last.                     *)
EndsWith(x) == todo # <<>> => todo[Len(todo)] = x
EndInv ==
    /\ at = "QUIESCE" => EndsWith("release")
    /\ sub = "inbox" => todo \in {<<"copy", "unlink">>, <<"unlink">>, <<>>}
    /\ sub = "ancillary_state" => EndsWith("sync")

(* A phase or substep is touched only when all before it are completed.     *)
PhaseOrder ==
    \A c \in Cmds : \A i, j \in DOMAIN Phases(c) :
        i < j /\ jr[c].phase[Phases(c)[j]] # "none" => Completed(c, Phases(c)[i])
StepOrder ==
    /\ \A i, j \in DOMAIN Rewrites :
          i < j /\ jr["merge"].step[Rewrites[j]] # "none" => StepDone(Rewrites[i])
    /\ \A p \in {"REWRITE_REFS", "REBUILD_INDEXES"} : \A i \in DOMAIN Substeps(p) :
          /\ jr["merge"].step[Substeps(p)[i]] # "none" => jr["merge"].phase[p] # "none"
          /\ Completed("merge", p) => StepDone(Substeps(p)[i])

(* Nobody runs between QUIESCE and the smoke check, unless disturbed.       *)
QuietInv ==
    Did("merge", "QUIESCE", "release") /\ ~disturbed /\ jr["merge"].phase["VERIFY"] = "none"
        => \A n \in Animas : ~alive[n]

SnapInv ==
    ~disturbed =>
        /\ ~Completed("merge", "SNAPSHOT") => tgt = own
        /\ \A f \in Files : Did("merge", "SNAPSHOT", f) => \A n \in Names : n[1] = f => snap[n] = own[n]

(* Until the memory is merged a name with a number is free, torn or has the *)
(* file, and there are no more torn names than faults: one more is left.    *)
NameInv ==
    ~Completed("merge", "MERGE_MEMORY") =>
        \A n \in Names : /\ n[2] # 0 => tgt[n] \in {Absent, Torn, Doc(n[1])}
                         /\ tgt[n] = Torn => n[2] <= faults

Mapping == IF Completed("merge", "MERGE_MEMORY") THEN jr["merge"].map ELSE mem.map
MapInv == \A f \in Files : Did("merge", "MERGE_MEMORY", f) => f \in DOMAIN Mapping /\ tgt[Mapping[f]].of = f

CiteInv ==
    \A f \in Files \ Generated :
        StepDid("memory_references", f) => tgt[jr["merge"].map[f]].ref = jr["merge"].map[Ref[f]]

IndexInv ==
    ~disturbed /\ jr["merge"].phase["VERIFY"] = "none" =>
        \A s \in SetOf(Rebuilds) : StepDid(s, "build") => idx[s] = Memory

(* After the sync a running server has nothing else to save than what is    *)
(* on disk or the target.                                                   *)
RefInv ==
    /\ StepDid("ancillary_state", "sync") /\ server => \A s \in Cached : cache[s] \in {refs[s], "target"}
    /\ Did("merge", "VERIFY", "scan") => \A s \in Scanned : refs[s] = "target"

Both == box["source"] \cap box["target"]
Moved(m) == m \in box["target"] \/ handled[m] > 0
At(x) == sub = "inbox" /\ todo # <<>> /\ Head(todo) = x
MailInv ==
    /\ \A m \in unsent : m \notin box["source"] \cup box["target"]
    /\ At("copy") => \A m \in mem.seen : Moved(m)
    /\ At("unlink") => /\ \A m \in jr["merge"].plan : Moved(m)
                       /\ Both \cap mem.seen = {}
    /\ Both # {} => StepDone("inbox_mapping") /\ Both \subseteq jr["merge"].plan
    /\ StepDid("inbox", "unlink") => Both = {}
OnceInv ==
    ~disturbed => \A m \in Messages : m \in unsent \cup box["source"] \cup box["target"] => handled[m] = 0

WindowInv ==
    /\ jr["merge"].status = "done" => \A i \in DOMAIN MergePhases : Completed("merge", MergePhases[i])
    /\ Did("finalize", "PREFLIGHT", "ready") => over /\ jr["merge"].status = "done"
    /\ dir = "archive" \/ ~entry => Completed("finalize", "PREFLIGHT")

IInv ==
    /\ TypeOK /\ FlowInv /\ EndInv /\ PhaseOrder /\ StepOrder
    /\ QuietInv /\ SnapInv /\ NameInv /\ MapInv /\ CiteInv /\ IndexInv /\ RefInv
    /\ MailInv /\ MailKept /\ OnceInv /\ MailOnce /\ WindowInv

-----------------------------------------------------------------------------
(* Lists of phases, substeps and items.                                     *)

(* The smallest number of a set of list positions exists.                   *)
LEMMA Least ==
    ASSUME NEW S, S \subseteq 1 .. 9, S # {}
    PROVE  Min(S) \in S /\ \A k \in S : Min(S) <= k
<1>1. \A k \in S : k \in {1, 2, 3, 4, 5, 6, 7, 8, 9}
  BY SMT
<1>2. \/ \E m \in {1, 2, 3} : m \in S /\ \A k \in S : m <= k
      \/ \A k \in S : k \in {4, 5, 6, 7, 8, 9}
  BY <1>1, SMT
<1>3. \/ \E m \in 1 .. 6 : m \in S /\ \A k \in S : m <= k
      \/ \A k \in S : k \in {7, 8, 9}
  BY <1>2, SMT
<1>4. \E m \in 1 .. 9 : m \in S /\ \A k \in S : m <= k
  <2>1. PICK x : x \in S
    OBVIOUS
  <2>2. 7 \in S \/ 8 \in S \/ 9 \in S \/ x \notin {7, 8, 9}
    BY <2>1
  <2> QED BY <1>3, <2>1, <2>2, SMT
<1> QED BY <1>4 DEF Min

(* The phases of both commands ...                                          *)
LEMMA PhaseLists ==
    /\ DOMAIN MergePhases = 1 .. 9
    /\ MergePhases[1] = "PREFLIGHT" /\ MergePhases[2] = "QUIESCE" /\ MergePhases[3] = "SNAPSHOT"
    /\ MergePhases[4] = "MERGE_MEMORY" /\ MergePhases[5] = "REWRITE_REFS" /\ MergePhases[6] = "REBUILD_INDEXES"
    /\ MergePhases[7] = "VERIFY" /\ MergePhases[8] = "TOMBSTONE" /\ MergePhases[9] = "DONE"
    /\ DOMAIN FinalizePhases = 1 .. 7
    /\ FinalizePhases[1] = "PREFLIGHT" /\ FinalizePhases[2] = "ARCHIVE_SOURCE" /\ FinalizePhases[3] = "REMOVE_CONFIG"
    /\ FinalizePhases[4] = "PURGE_NEO4J" /\ FinalizePhases[5] = "PURGE_RESIDUALS"
    /\ FinalizePhases[6] = "VERIFY_REMOVAL" /\ FinalizePhases[7] = "DONE"
  BY SMT DEF MergePhases, FinalizePhases

(* ... and the substeps of the two phases that have them, by position.      *)
LEMMA StepLists ==
    /\ DOMAIN Rewrites = 1 .. 9
    /\ Rewrites[1] = "organization" /\ Rewrites[2] = "messaging" /\ Rewrites[3] = "memory_references"
    /\ Rewrites[4] = "inbox_mapping" /\ Rewrites[5] = "inbox" /\ Rewrites[6] = "task_id_mapping"
    /\ Rewrites[7] = "inbox_task_references" /\ Rewrites[8] = "task_references" /\ Rewrites[9] = "ancillary_state"
    /\ DOMAIN Rebuilds = 1 .. 5
    /\ Rebuilds[1] = "vectordb" /\ Rebuilds[2] = "entities" /\ Rebuilds[3] = "bm25"
    /\ Rebuilds[4] = "graph_cache" /\ Rebuilds[5] = "neo4j"
  BY SMT DEF Rewrites, Rebuilds

(* No phase and no substep occurs twice.                                    *)
LEMMA Distinct ==
    /\ \A c \in Cmds : \A i, j \in DOMAIN Phases(c) : Phases(c)[i] = Phases(c)[j] => i = j
    /\ \A i, j \in DOMAIN Rewrites : Rewrites[i] = Rewrites[j] => i = j
    /\ \A i, j \in DOMAIN Rebuilds : Rebuilds[i] = Rebuilds[j] => i = j
    /\ \A i \in DOMAIN Rewrites, j \in DOMAIN Rebuilds : Rewrites[i] # Rebuilds[j]
  BY PhaseLists, StepLists, SMT DEF Phases, Cmds

(* Every phase and substep is among those a journal can mark; the labels    *)
(* for no substep and for the end are not.                                  *)
LEMMA Known ==
    /\ \A c \in Cmds : \A i \in DOMAIN Phases(c) : Phases(c)[i] \in AllPhases
    /\ \A i \in DOMAIN Rewrites : Rewrites[i] \in AllSteps
    /\ \A i \in DOMAIN Rebuilds : Rebuilds[i] \in AllSteps
    /\ "-" \notin AllSteps \cup AllPhases /\ "finish" \notin AllPhases
  BY PhaseLists, StepLists, SMT DEF Phases, Cmds, AllPhases, AllSteps, SetOf

(* The items of each unit of work, in order.                                *)
LEMMA WorkLists ==
    /\ Work("QUIESCE") = <<"disable", "release">>
    /\ Work("SNAPSHOT") = FileSeq /\ Work("MERGE_MEMORY") = FileSeq /\ Work("memory_references") = FileSeq
    /\ Work("inbox") = <<"copy", "unlink">>
    /\ Work("ancillary_state") = <<"notification_map", "discord_map", "run_state", "sync">>
    /\ \A s \in SetOf(Rebuilds) : Work(s) = <<"build">>
    /\ Work("VERIFY") = <<"scan", "smoke">>
    /\ Work("REWRITE_REFS") = <<>> /\ Work("REBUILD_INDEXES") = <<>>
<1>1. \A u \in DOMAIN Writes : Work(u) = Writes[u]
  BY DEF Work
<1> QED BY <1>1, StepLists, SMT DEF Writes, Work, SetOf, InboxWrites

(* Whatever the unit, its items are a list of known items.                  *)
LEMMA WorkType == \A u : Work(u) \in Seq(Items)
<1>1. FileSeq \in Seq(Items)
  BY FilesAssumption, SMT DEF Items
<1>2. /\ OrganizationWrites \in Seq(Items) /\ InboxWrites \in Seq(Items)
      /\ <<"disable", "release">> \in Seq(Items) /\ <<"routing_config", "rooms">> \in Seq(Items)
      /\ <<"tasks", "taskboard">> \in Seq(Items) /\ <<"scan", "smoke">> \in Seq(Items)
  BY SMT DEF OrganizationWrites, InboxWrites, Items, Surfaces
<1>3. <<"notification_map", "discord_map", "run_state", "sync">> \in Seq(Items)
  BY SMT DEF Items, Surfaces
<1>4. \A x \in {"plan", "read", "build", "tombstone", "move", "unregister", "purge", "absent"} : <<x>> \in Seq(Items)
  BY SMT DEF Items
<1>5. DOMAIN Writes = {"QUIESCE", "SNAPSHOT", "MERGE_MEMORY", "organization", "messaging",
                         "memory_references", "inbox_mapping", "inbox", "inbox_task_references",
                         "task_references", "ancillary_state", "vectordb", "entities", "bm25", "graph_cache",
                         "neo4j", "VERIFY", "TOMBSTONE", "ARCHIVE_SOURCE", "REMOVE_CONFIG",
                         "PURGE_RESIDUALS", "VERIFY_REMOVAL"}
  BY DEF Writes
<1>6. /\ Writes["QUIESCE"] \in Seq(Items) /\ Writes["SNAPSHOT"] \in Seq(Items)
      /\ Writes["MERGE_MEMORY"] \in Seq(Items) /\ Writes["organization"] \in Seq(Items)
      /\ Writes["messaging"] \in Seq(Items) /\ Writes["memory_references"] \in Seq(Items)
      /\ Writes["inbox_mapping"] \in Seq(Items) /\ Writes["inbox"] \in Seq(Items)
      /\ Writes["inbox_task_references"] \in Seq(Items) /\ Writes["task_references"] \in Seq(Items)
      /\ Writes["ancillary_state"] \in Seq(Items) /\ Writes["vectordb"] \in Seq(Items)
      /\ Writes["entities"] \in Seq(Items) /\ Writes["bm25"] \in Seq(Items)
      /\ Writes["graph_cache"] \in Seq(Items) /\ Writes["neo4j"] \in Seq(Items)
      /\ Writes["VERIFY"] \in Seq(Items) /\ Writes["TOMBSTONE"] \in Seq(Items)
      /\ Writes["ARCHIVE_SOURCE"] \in Seq(Items) /\ Writes["REMOVE_CONFIG"] \in Seq(Items)
      /\ Writes["PURGE_RESIDUALS"] \in Seq(Items) /\ Writes["VERIFY_REMOVAL"] \in Seq(Items)
  BY <1>1, <1>2, <1>3, <1>4 DEF Writes
<1>7. \A u \in DOMAIN Writes : Writes[u] \in Seq(Items)
  BY <1>5, <1>6
<1> QED BY <1>7, SMT DEF Work

-----------------------------------------------------------------------------
(* What a step does to the journals and to the process, whatever it does to *)
(* the files.                                                               *)
Opens(c) ==
    /\ cmd = "idle" /\ cmd' = c
    /\ jr' = [jr EXCEPT ![c] = IF @.status = "absent" THEN NewJournal ELSE @]
    /\ at' = NextPhase(c, jr'[c])
    /\ UNCHANGED <<entered, sub, todo, mem>>
Fails == cmd # "idle" /\ entered /\ Failed
Dies == cmd # "idle" /\ Stop /\ UNCHANGED jr
Works == /\ cmd # "idle" /\ entered /\ todo # <<>> /\ Advance
         /\ mem'.seen = IF sub = "inbox" THEN {} ELSE mem.seen
Stays == UNCHANGED <<jr, cmd, at, entered, sub, todo>> /\ (UNCHANGED mem \/ (sub = "inbox" /\ todo # <<>>))
Controls ==
    \/ \E c \in Cmds : Opens(c)
    \/ cmd # "idle" /\ (PhaseStart \/ SubStart \/ SubEnd \/ PhaseEnd \/ Finish)
    \/ Fails \/ Dies \/ Works \/ Stays

(* Each action is one of them.                                              *)
LEMMA BodyControls ==
    ASSUME TypeOK, FlowInv, cmd # "idle", Body
    PROVE  Fails \/ Works \/ Stays
<1> USE DEF Doing
<1>0. mem.seen = [mem EXCEPT !.plan = box["source"]].seen /\ \A v : mem.seen = [mem EXCEPT !.map = v].seen
  BY DEF TypeOK
<1>1. CASE QuiesceDisable \/ SmokeCheck \/ Tombstone \/ SyncLive
  BY <1>1 DEF QuiesceDisable, SmokeCheck, Tombstone, SyncLive, Works
<1>2. CASE ArchiveSource \/ RemoveSourceConfig \/ PurgeResiduals
  BY <1>2 DEF ArchiveSource, RemoveSourceConfig, PurgeResiduals, Works
<1>3. CASE QuiesceRelease \/ InboxTaskReferences \/ VerifyScan \/ FinalizeReady \/ VerifyRemoval
  BY <1>3 DEF QuiesceRelease, InboxTaskReferences, VerifyScan, FinalizeReady, VerifyRemoval, Works, Fails
<1>4. CASE PlanInbox \/ InboxNext
  <2>1. CASE PlanInbox
    BY <1>0, <2>1 DEF PlanInbox, Works
  <2>2. CASE InboxNext
    <3>1. entered
      BY <2>2 DEF InboxNext, FlowInv
    <3>2. mem'.seen = {}
      BY <2>2 DEF InboxNext, TypeOK
    <3> QED BY <2>2, <3>1, <3>2 DEF InboxNext, Works
  <2> QED BY <1>4, <2>1, <2>2
<1>5. ASSUME NEW f \in Files, SnapshotFile(f) \/ MergeGenerated(f) \/ MergeFile(f) \/ RewriteDocument(f)
      PROVE  Fails \/ Works
  <2>1. CASE SnapshotFile(f) \/ RewriteDocument(f)
    BY <2>1 DEF SnapshotFile, RewriteDocument, Works
  <2>2. ASSUME NEW n, Copy(f, n), Doing("MERGE_MEMORY", f) PROVE Works
    BY <1>0, <2>2 DEF Copy, Works
  <2>3. CASE MergeFile(f)
    BY <2>2, <2>3 DEF MergeFile
  <2>4. CASE MergeGenerated(f)
    BY <2>2, <2>4 DEF MergeGenerated, Fails
  <2> QED BY <1>5, <2>1, <2>3, <2>4
<1>6. ASSUME NEW u \in {"organization", "messaging", "task_references", "ancillary_state"}, Retarget(u)
      PROVE  Works
  <2>1. entered
    BY <1>6 DEF Retarget, FlowInv
  <2> QED BY <1>6, <2>1 DEF Retarget, Works
<1>7. CASE RewriteOrganization \/ RewriteMessaging \/ RewriteTasks \/ RewriteTaskboard \/ RewriteAncillaryState
  BY <1>6, <1>7 DEF RewriteOrganization, RewriteMessaging, RewriteTasks, RewriteTaskboard, RewriteAncillaryState
<1>8. ASSUME NEW m \in Messages, InboxCopy(m) \/ InboxUnlink(m)
      PROVE  Fails \/ Stays
  <2>1. at # "inbox"
    BY PhaseLists, SMT DEF TypeOK, AllPhases, SetOf
  <2>2. CASE InboxCopy(m)
    BY <2>1, <2>2 DEF InboxCopy, Fails, Stays
  <2>3. CASE InboxUnlink(m)
    BY <2>1, <2>3 DEF InboxUnlink, Stays
  <2> QED BY <1>8, <2>2, <2>3
<1>9. CASE Rebuild
  BY <1>9, StepLists, SMT DEF Rebuild, Works, SetOf
<1> QED BY <1>1, <1>2, <1>3, <1>4, <1>5, <1>7, <1>8, <1>9 DEF Body

(* Every step is of one of the kinds above.                                 *)
LEMMA ControlStep ==
    ASSUME TypeOK, FlowInv, [Next]_vars
    PROVE  Controls
<1>1. CASE Merge \/ Finalize
  BY <1>1 DEF Merge, Finalize, Run, Opens, Controls, Cmds
<1>2. CASE Step
  BY <1>2, BodyControls DEF Step, Control, Controls
<1>3. CASE Fault
  <2>1. entered => cmd # "idle"
    BY DEF FlowInv
  <2> QED BY <1>3, <2>1 DEF Fault, Raise, Crash, CrashInCopy, Doing, Fails, Dies, Controls
<1>4. CASE Outside \/ NewDay \/ UNCHANGED vars
  <2>1. UNCHANGED <<jr, cmdVars>>
    BY <1>4 DEF Outside, ServerStart, ServerStop, CallBack, WindowPasses, AnimaStart, AnimaStop, ServerSave, Deliver,
       Handle, TargetWrite, NewDay, vars
  <2> QED BY <2>1 DEF cmdVars, Stays, Controls
<1> QED BY <1>1, <1>2, <1>3, <1>4 DEF Next

USE DEF Completed, StepDone

(* Phases and substeps have different names, and most phases belong to one  *)
(* command.                                                                 *)
LEMMA Apart ==
    /\ \A s \in AllSteps : s \notin AllPhases
    /\ \A p \in {"QUIESCE", "SNAPSHOT", "MERGE_MEMORY", "VERIFY"} : p \in AllPhases /\ \A c \in Cmds : p \in SetOf(Phases(c)) => c = "merge"
    /\ \A p \in {"ARCHIVE_SOURCE", "REMOVE_CONFIG", "PURGE_RESIDUALS"} :
          p \in AllPhases /\ \A c \in Cmds : p \in SetOf(Phases(c)) => c = "finalize"
    /\ "PREFLIGHT" \in AllPhases
  BY PhaseLists, StepLists, SMT DEF AllSteps, AllPhases, SetOf, Phases, Cmds

(* Each unit has the items the invariant speaks of.                         *)
LEMMA PhaseItems ==
    /\ "release" \in SetOf(Start("merge", "QUIESCE"))
    /\ SetOf(Start("merge", "SNAPSHOT")) = Files /\ SetOf(Start("merge", "MERGE_MEMORY")) = Files
    /\ "scan" \in SetOf(Start("merge", "VERIFY")) /\ "ready" \in SetOf(Start("finalize", "PREFLIGHT"))
    /\ SetOf(Work("memory_references")) = Files
    /\ \A s \in SetOf(Rebuilds) : s \in AllSteps /\ "build" \in SetOf(Work(s))
    /\ "sync" \in SetOf(Work("ancillary_state")) /\ "unlink" \in SetOf(Work("inbox"))
    /\ {"memory_references", "ancillary_state", "inbox", "inbox_mapping"} \subseteq SetOf(Rewrites)
    /\ SetOf(Rewrites) \subseteq AllSteps /\ "merge" \in Cmds /\ "finalize" \in Cmds
<1>1. SetOf(FileSeq) = Files
  BY DEF SetOf, Files
<1>2. /\ Start("merge", "QUIESCE") = <<"disable", "release">> /\ Start("merge", "VERIFY") = <<"scan", "smoke">>
      /\ Start("merge", "SNAPSHOT") = FileSeq /\ Start("merge", "MERGE_MEMORY") = FileSeq
      /\ Start("finalize", "PREFLIGHT") = <<"ready">>
  BY WorkLists DEF Start
<1>3. /\ "release" \in SetOf(<<"disable", "release">>) /\ "scan" \in SetOf(<<"scan", "smoke">>) /\ "ready" \in SetOf(<<"ready">>)
      /\ "build" \in SetOf(<<"build">>) /\ "unlink" \in SetOf(<<"copy", "unlink">>)
  BY SMT DEF SetOf
<1>4. "sync" \in SetOf(<<"notification_map", "discord_map", "run_state", "sync">>)
  BY SMT DEF SetOf
<1>5. {"memory_references", "ancillary_state", "inbox", "inbox_mapping"} \subseteq SetOf(Rewrites)
  BY StepLists, SMT DEF SetOf
<1>6. (\A s \in SetOf(Rebuilds) : s \in AllSteps) /\ SetOf(Rewrites) \subseteq AllSteps /\ "merge" \in Cmds /\ "finalize" \in Cmds
  BY DEF AllSteps, Cmds
<1>7. \A s \in SetOf(Rebuilds) : "build" \in SetOf(Work(s))
  BY <1>3, WorkLists
<1>8. "sync" \in SetOf(Work("ancillary_state")) /\ "unlink" \in SetOf(Work("inbox")) /\ SetOf(Work("memory_references")) = Files
  BY <1>1, <1>3, <1>4, WorkLists
<1> QED BY <1>1, <1>2, <1>3, <1>5, <1>6, <1>7, <1>8

(* What the order of phases and substeps gives.                             *)
Mark(p) == jr["merge"].phase[p]

(* PhaseOrder spelled out: a phase that was started has the earlier ones    *)
(* completed, whichever runs did that.                                      *)
LEMMA MergeOrder ==
    ASSUME PhaseOrder
    PROVE  /\ Mark("SNAPSHOT") # "none" => Completed("merge", "QUIESCE")
           /\ \A p \in {"MERGE_MEMORY", "REWRITE_REFS", "REBUILD_INDEXES", "VERIFY"} : Mark(p) # "none" =>
                 Completed("merge", "QUIESCE") /\ Completed("merge", "SNAPSHOT")
           /\ \A p \in {"REWRITE_REFS", "REBUILD_INDEXES", "VERIFY"} : Mark(p) # "none" => Completed("merge", "MERGE_MEMORY")
           /\ \A p \in {"REBUILD_INDEXES", "VERIFY"} : Mark(p) # "none" => Completed("merge", "REWRITE_REFS")
           /\ Mark("VERIFY") # "none" => Completed("merge", "REBUILD_INDEXES")
           /\ Mark("TOMBSTONE") # "none" => Completed("merge", "VERIFY")
           /\ \A p \in {"ARCHIVE_SOURCE", "REMOVE_CONFIG", "PURGE_RESIDUALS"} :
                 jr["finalize"].phase[p] # "none" => Completed("finalize", "PREFLIGHT")
<1>1. \A i, j \in 1 .. 9 : i < j /\ Mark(MergePhases[j]) # "none" => Completed("merge", MergePhases[i])
  BY PhaseLists DEF PhaseOrder, Phases, Cmds, Mark
<1>2. \A i, j \in 1 .. 7 : i < j /\ jr["finalize"].phase[FinalizePhases[j]] # "none" => Completed("finalize", FinalizePhases[i])
  BY PhaseLists DEF PhaseOrder, Phases, Cmds
<1>3. \A j \in 3 .. 9 : Mark(MergePhases[j]) # "none" => Completed("merge", "QUIESCE")
  BY <1>1, PhaseLists, SMT
<1>4. \A j \in 4 .. 9 : Mark(MergePhases[j]) # "none" => Completed("merge", "SNAPSHOT")
  BY <1>1, PhaseLists, SMT
<1>5. \A j \in 5 .. 9 : Mark(MergePhases[j]) # "none" => Completed("merge", "MERGE_MEMORY")
  BY <1>1, PhaseLists, SMT
<1>6. \A j \in 6 .. 9 : Mark(MergePhases[j]) # "none" => Completed("merge", "REWRITE_REFS")
  BY <1>1, PhaseLists, SMT
<1>7. \A j \in 7 .. 9 : Mark(MergePhases[j]) # "none" => Completed("merge", "REBUILD_INDEXES")
  BY <1>1, PhaseLists, SMT
<1>8. \A j \in 8 .. 9 : Mark(MergePhases[j]) # "none" => Completed("merge", "VERIFY")
  BY <1>1, PhaseLists, SMT
<1>9. \A j \in 2 .. 7 : jr["finalize"].phase[FinalizePhases[j]] # "none" => Completed("finalize", "PREFLIGHT")
  BY <1>2, PhaseLists, SMT
<1> QED BY <1>3, <1>4, <1>5, <1>6, <1>7, <1>8, <1>9, PhaseLists, SMT

(* The same for substeps.                                                   *)
LEMMA RewriteOrder ==
    ASSUME StepOrder
    PROVE  /\ \A s \in SetOf(Rewrites) : jr["merge"].step[s] # "none" => Mark("REWRITE_REFS") # "none"
           /\ \A s \in SetOf(Rebuilds) : jr["merge"].step[s] # "none" => Mark("REBUILD_INDEXES") # "none"
           /\ Completed("merge", "REWRITE_REFS") => \A s \in SetOf(Rewrites) : StepDone(s)
           /\ Completed("merge", "REBUILD_INDEXES") => \A s \in SetOf(Rebuilds) : StepDone(s)
           /\ StepDone("ancillary_state") => \A s \in SetOf(Rewrites) : StepDone(s)
<1>1. Substeps("REWRITE_REFS") = Rewrites /\ Substeps("REBUILD_INDEXES") = Rebuilds
  BY DEF Substeps
<1>2. /\ \A i \in DOMAIN Rewrites : /\ jr["merge"].step[Rewrites[i]] # "none" => Mark("REWRITE_REFS") # "none"
                                    /\ Completed("merge", "REWRITE_REFS") => StepDone(Rewrites[i])
      /\ \A i \in DOMAIN Rebuilds : /\ jr["merge"].step[Rebuilds[i]] # "none" => Mark("REBUILD_INDEXES") # "none"
                                    /\ Completed("merge", "REBUILD_INDEXES") => StepDone(Rebuilds[i])
  BY <1>1 DEF StepOrder, Mark
<1>3. \A i \in 1 .. 8 : jr["merge"].step[Rewrites[9]] # "none" => StepDone(Rewrites[i])
  BY StepLists, SMT DEF StepOrder
<1>4. \A i \in DOMAIN Rewrites : StepDone("ancillary_state") => StepDone(Rewrites[i])
  BY <1>3, StepLists, SMT
<1> QED BY <1>2, <1>4 DEF SetOf

-----------------------------------------------------------------------------
(* The invariant holds at first.                                            *)
Artifacts == [map : Maps, plan : SUBSET Messages, seen : SUBSET Messages]

(* What a name can hold; the cases exclude each other.                      *)
LEMMA ContentTypes ==
    /\ Absent \in Content /\ Torn \in Content /\ Own \in Content
    /\ \A f \in Files : /\ Doc(f) \in Content /\ <<f, 0>> \in Names /\ Doc(f).of = f
                        /\ Doc(f) # Absent /\ Doc(f) # Own /\ Doc(f) # Torn
    /\ Own # Absent /\ Torn # Absent /\ Own # Torn
    /\ \A n \in Names : n[1] \in Files
<1>1. MaxFaults \in Nat
  BY BoundsAssumption
<1>2. \A f \in Files : <<f, 0>> \in Names /\ <<Ref[f], 0>> \in Names
  BY <1>1, RefAssumption, SMT DEF Names
<1>3. \A f \in Files : f # "absent" /\ f # "torn" /\ f # "target"
  BY FilesAssumption
<1> QED BY <1>2, <1>3 DEF Absent, Torn, Own, Doc, Content, Names

(* A new process has no artifacts.                                          *)
LEMMA NoArtifactsType == NoArtifacts \in Artifacts /\ NoArtifacts.seen = {}
<1>1. <<>> \in [{} -> Names] /\ DOMAIN <<>> = {}
  BY SMT
<1>2. <<>> \in UNION {[D -> Names] : D \in SUBSET Files}
  BY <1>1
<1>3. <<>> \in Maps
  BY <1>1, <1>2 DEF Maps
<1> QED BY <1>3 DEF NoArtifacts, Artifacts

(* The initial state is well typed ...                                      *)
LEMMA InitTypes ==
    ASSUME Init
    PROVE  TypeOK
<1>1. NoArtifacts \in Artifacts /\ <<>> \in Maps
  <2>1. NoArtifacts \in Artifacts /\ NoArtifacts.map = <<>>
    BY NoArtifactsType DEF NoArtifacts
  <2> QED BY <2>1 DEF Artifacts
<1>2. NoJournal \in Journal
  <2>1. [p \in AllPhases |-> "none"] \in [AllPhases -> Marks] /\ [s \in AllSteps |-> "none"] \in [AllSteps -> Marks]
    BY DEF Marks
  <2>2. NewJournal = [status |-> "running", phase |-> [p \in AllPhases |-> "none"], step |-> [s \in AllSteps |-> "none"],
                      map |-> <<>>, plan |-> {}]
    BY DEF NewJournal, AllPhases, AllSteps
  <2>3. NewJournal \in Journal
    BY <1>1, <2>1, <2>2 DEF Journal
  <2> QED BY <2>3 DEF NoJournal, Journal
<1>3. jr \in [Cmds -> Journal]
  BY <1>2 DEF Init, Cmds
<1>4. tgt \in [Names -> Content] /\ own \in [Names -> Content] /\ snap \in [Names -> Content]
  <2>1. PICK h : own = [n \in Names |-> IF n[2] # 0 \/ h[n[1]] = "none" THEN Absent
                                        ELSE IF h[n[1]] = "same" THEN Doc(n[1]) ELSE Own]
    BY DEF Init
  <2>2. own \in [Names -> Content]
    BY <2>1, ContentTypes
  <2>3. tgt = own /\ snap = [n \in Names |-> Absent]
    BY DEF Init
  <2> QED BY <2>2, <2>3, ContentTypes
<1>5. idx \in [SetOf(Rebuilds) -> UNION {[D -> Content] : D \in SUBSET Names}]
  <2>1. <<>> \in [{} -> Content]
    BY SMT
  <2>2. <<>> \in UNION {[D -> Content] : D \in SUBSET Names}
    BY <2>1
  <2> QED BY <2>2 DEF Init
<1>6. <<>> \in Seq(Items)
  BY SMT
<1>7. 0 \in 0 .. MaxFaults /\ 0 \in 0 .. 0
  BY BoundsAssumption, SMT
<1>8. /\ refs \in [Surfaces -> Animas] /\ cache \in [Cached -> Animas] /\ enabled \in [Animas -> BOOLEAN] /\ alive \in [Animas -> BOOLEAN]
      /\ unsent \in SUBSET Messages /\ box \in [Animas -> SUBSET Messages] /\ handled \in [Messages -> Nat]
  BY DEF Init, Animas
<1> QED BY <1>1, <1>3, <1>4, <1>5, <1>6, <1>7, <1>8 DEF Init, TypeOK, Artifacts

(* ... and satisfies the invariant: no journal, so nothing is claimed done. *)
LEMMA InitInv ==
    ASSUME Init
    PROVE  IInv
<1>1. TypeOK
  BY InitTypes
<1>2. /\ \A c \in Cmds : jr[c] = NoJournal /\ jr[c].status = "absent" /\ \A p \in AllPhases : jr[c].phase[p] = "none"
      /\ \A s \in AllSteps : jr["merge"].step[s] = "none"
      /\ "merge" \in Cmds /\ "finalize" \in Cmds
  BY DEF Init, Cmds, NoJournal, NewJournal, AllPhases, AllSteps
<1>3. cmd = "idle" /\ at = "-" /\ entered = FALSE /\ sub = "-" /\ todo = <<>> /\ mem.seen = {}
  BY DEF Init, NoArtifacts
<1>4. \A c \in Cmds, p \in AllPhases : \A x : ~Completed(c, p) /\ ~Did(c, p, x)
  BY <1>2, <1>3 DEF Did
<1>5. \A s \in AllSteps : \A x : ~StepDone(s) /\ ~StepDid(s, x)
  BY <1>2, <1>3, Known DEF StepDid
<1>6. SetOf(Rewrites) \subseteq AllSteps /\ SetOf(Rebuilds) \subseteq AllSteps
  BY DEF AllSteps
<1>7. \A c \in Cmds : \A i \in DOMAIN Phases(c) : Phases(c)[i] \in AllPhases
  BY Known
<1>8. FlowInv /\ EndInv
  BY <1>2, <1>3 DEF FlowInv, EndInv, EndsWith
<1>9. PhaseOrder
  BY <1>2, <1>7 DEF PhaseOrder
<1>10. StepOrder
  <2>1. \A p \in {"REWRITE_REFS", "REBUILD_INDEXES"} : p \in AllPhases /\ \A i \in DOMAIN Substeps(p) : Substeps(p)[i] \in AllSteps
    BY Known, PhaseLists, SMT DEF Substeps, AllPhases, SetOf
  <2> QED BY <1>2, <1>4, <2>1, Known DEF StepOrder
<1>11. QuietInv /\ SnapInv /\ MapInv /\ RefInv
  BY <1>2, <1>4, <1>5, Apart, PhaseItems DEF QuietInv, SnapInv, MapInv, RefInv, Init
<1>12. NameInv
  BY ContentTypes, SMT DEF NameInv, Init
<1>13. CiteInv /\ IndexInv
  BY <1>5, <1>6, PhaseItems DEF CiteInv, IndexInv
<1>14. MailInv /\ MailKept /\ OnceInv /\ MailOnce
  <2>1. box["source"] = {} /\ box["target"] = {} /\ unsent = Messages /\ \A m \in Messages : handled[m] = 0
    BY DEF Init, Animas
  <2>2. Both = {} /\ ~At("copy") /\ ~At("unlink")
    BY <1>3, <2>1 DEF Both, At
  <2> QED BY <2>1, <2>2, SMT DEF MailInv, MailKept, OnceInv, MailOnce
<1>15. WindowInv
  BY <1>2, <1>4, Apart DEF WindowInv, Init
<1> QED BY <1>1, <1>8, <1>9, <1>10, <1>11, <1>12, <1>13, <1>14, <1>15 DEF IInv

-----------------------------------------------------------------------------
(* The journal after a record is written.                                   *)
Others(c) == \A d \in Cmds \ {c} : jr'[d] = jr[d]
Marked(c, p, m) ==
    /\ \A q \in AllPhases : jr'[c].phase[q] = IF q = p THEN m ELSE jr[c].phase[q]
    /\ jr'[c].plan = jr[c].plan
StepMarked(s, m) ==
    /\ \A q \in AllSteps : jr'["merge"].step[q] = IF q = s THEN m ELSE jr["merge"].step[q]
    /\ jr'["merge"].map = jr["merge"].map

(* Writing one journal leaves the other alone.                              *)
LEMMA JournalWritten ==
    ASSUME TypeOK, NEW c \in Cmds, NEW j \in Journal, jr' = [jr EXCEPT ![c] = j]
    PROVE  jr' \in [Cmds -> Journal] /\ Others(c) /\ jr'[c] = j
<1>1. jr \in [Cmds -> Journal]
  BY DEF TypeOK
<1> QED BY <1>1 DEF Others

(* Reading back what start_phase wrote, ...                                 *)
LEMMA StartWritten ==
    ASSUME TypeOK, NEW c \in Cmds, NEW p \in AllPhases, jr' = [jr EXCEPT ![c] = JStart(@, p)]
    PROVE  /\ jr' \in [Cmds -> Journal] /\ Others(c) /\ Marked(c, p, "started")
           /\ jr'[c].status = "running" /\ jr'[c].step = jr[c].step /\ jr'[c].map = jr[c].map
<1> DEFINE j == JStart(jr[c], p)
<1>1. jr[c] \in Journal
  BY DEF TypeOK
<1>2. /\ j \in Journal /\ j.status = "running" /\ j.step = jr[c].step /\ j.map = jr[c].map /\ j.plan = jr[c].plan
      /\ \A q \in AllPhases : j.phase[q] = IF q = p THEN "started" ELSE jr[c].phase[q]
  BY <1>1 DEF Journal, Marks, JStart
<1> QED BY <1>2, JournalWritten DEF Marked

(* ... complete_phase, which also stores the artifacts, ...                 *)
LEMMA CompleteWritten ==
    ASSUME TypeOK, NEW c \in Cmds, NEW p \in AllPhases, jr' = [jr EXCEPT ![c] = JComplete(@, p, mem)]
    PROVE  /\ jr' \in [Cmds -> Journal] /\ Others(c) /\ Marked(c, p, "completed")
           /\ jr'[c].status = jr[c].status /\ jr'[c].step = jr[c].step
           /\ jr'[c].map = IF p = "MERGE_MEMORY" THEN mem.map ELSE jr[c].map
<1> DEFINE j == JComplete(jr[c], p, mem)
<1>1. jr[c] \in Journal /\ mem.map \in Maps
  BY DEF TypeOK
<1>2. /\ j \in Journal /\ j.status = jr[c].status /\ j.step = jr[c].step /\ j.plan = jr[c].plan
      /\ j.map = IF p = "MERGE_MEMORY" THEN mem.map ELSE jr[c].map
      /\ \A q \in AllPhases : j.phase[q] = IF q = p THEN "completed" ELSE jr[c].phase[q]
  BY <1>1 DEF Journal, Marks, JComplete
<1> QED BY <1>2, JournalWritten DEF Marked

(* ... the start of a substep, ...                                          *)
LEMMA StepStartWritten ==
    ASSUME TypeOK, NEW s \in AllSteps, jr' = [jr EXCEPT !["merge"] = JStepStart(@, s)]
    PROVE  /\ jr' \in [Cmds -> Journal] /\ Others("merge") /\ StepMarked(s, "started")
           /\ jr'["merge"].status = jr["merge"].status /\ jr'["merge"].phase = jr["merge"].phase
           /\ jr'["merge"].plan = jr["merge"].plan
<1> DEFINE j == JStepStart(jr["merge"], s)
<1>1. jr["merge"] \in Journal /\ "merge" \in Cmds
  BY DEF TypeOK, Cmds
<1>2. /\ j \in Journal /\ j.status = jr["merge"].status /\ j.phase = jr["merge"].phase
      /\ j.plan = jr["merge"].plan /\ j.map = jr["merge"].map
      /\ \A q \in AllSteps : j.step[q] = IF q = s THEN "started" ELSE jr["merge"].step[q]
  BY <1>1 DEF Journal, Marks, JStepStart
<1> QED BY <1>1, <1>2, JournalWritten DEF StepMarked

(* ... its completion, ...                                                  *)
LEMMA StepCompleteWritten ==
    ASSUME TypeOK, NEW s \in AllSteps, jr' = [jr EXCEPT !["merge"] = JStepComplete(@, s, mem)]
    PROVE  /\ jr' \in [Cmds -> Journal] /\ Others("merge") /\ StepMarked(s, "completed")
           /\ jr'["merge"].status = jr["merge"].status /\ jr'["merge"].phase = jr["merge"].phase
           /\ jr'["merge"].plan = IF s = "inbox_mapping" THEN mem.plan ELSE jr["merge"].plan
<1> DEFINE j == JStepComplete(jr["merge"], s, mem)
<1>1. jr["merge"] \in Journal /\ mem.plan \in SUBSET Messages /\ "merge" \in Cmds
  BY DEF TypeOK, Cmds
<1>2. /\ j \in Journal /\ j.status = jr["merge"].status /\ j.phase = jr["merge"].phase
      /\ j.plan = (IF s = "inbox_mapping" THEN mem.plan ELSE jr["merge"].plan) /\ j.map = jr["merge"].map
      /\ \A q \in AllSteps : j.step[q] = IF q = s THEN "completed" ELSE jr["merge"].step[q]
  BY <1>1 DEF Journal, Marks, JStepComplete
<1> QED BY <1>1, <1>2, JournalWritten DEF StepMarked

FailMarked(c, p, s) ==
    /\ jr' \in [Cmds -> Journal] /\ Others(c) /\ Marked(c, p, "failed")
    /\ jr'[c].status = "failed" /\ jr'[c].map = jr[c].map
    /\ \A q \in AllSteps : jr'[c].step[q] = IF q = s THEN "failed" ELSE jr[c].step[q]

(* ... and the failure of a phase, with that of its substep.                *)
LEMMA FailWritten ==
    ASSUME TypeOK, NEW c \in Cmds, NEW p \in AllPhases, NEW s \in AllSteps \cup {"-"},
           jr' = [jr EXCEPT ![c] = JFail(JStepFail(@, s), p)]
    PROVE  FailMarked(c, p, s)
<1> DEFINE j == JFail(JStepFail(jr[c], s), p)
<1>1. jr[c] \in Journal
  BY DEF TypeOK
<1>2. /\ JStepFail(jr[c], s) \in Journal /\ JStepFail(jr[c], s).phase = jr[c].phase
      /\ JStepFail(jr[c], s).map = jr[c].map /\ JStepFail(jr[c], s).plan = jr[c].plan
      /\ \A q \in AllSteps : JStepFail(jr[c], s).step[q] = IF q = s THEN "failed" ELSE jr[c].step[q]
  <2>1. CASE s = "-"
    BY <1>1, <2>1, Known DEF JStepFail
  <2>2. CASE s # "-"
    BY <1>1, <2>2 DEF JStepFail, Journal, Marks
  <2> QED BY <2>1, <2>2
<1>3. /\ j \in Journal /\ j.status = "failed" /\ j.map = jr[c].map /\ j.plan = jr[c].plan
      /\ \A q \in AllPhases : j.phase[q] = IF q = p THEN "failed" ELSE jr[c].phase[q]
      /\ \A q \in AllSteps : j.step[q] = IF q = s THEN "failed" ELSE jr[c].step[q]
  BY <1>2 DEF JFail, Journal, Marks
<1> QED BY <1>3, JournalWritten DEF FailMarked, Marked

(* What every step keeps: marks never go back, the mapping and the plan     *)
(* stay once they are journaled.  An item is newly worked on only in Works. *)
(* A merge is done when its run comes to the end, and stays done.           *)
ControlTypes ==
    /\ jr \in [Cmds -> Journal] /\ cmd \in Cmds \cup {"idle"} /\ at \in AllPhases \cup {"-", "finish"}
    /\ sub \in AllSteps \cup {"-"} /\ entered \in BOOLEAN /\ todo \in Seq(Items)
Kept ==
    /\ \A c \in Cmds, p \in AllPhases :
          /\ Completed(c, p) => Completed(c, p)'
          /\ jr'[c].phase[p] = "none" => jr[c].phase[p] = "none"
    /\ \A s \in AllSteps : StepDone(s) => StepDone(s)'
    /\ Completed("merge", "MERGE_MEMORY")' => jr'["merge"].map = Mapping
    /\ StepDone("inbox_mapping") => jr'["merge"].plan = jr["merge"].plan
Grows ==
    /\ \A c \in Cmds, p \in AllPhases : \A x \in SetOf(Start(c, p)) :
          Did(c, p, x)' => Did(c, p, x) \/ (Works /\ cmd = c /\ sub = "-" /\ at = p /\ Head(todo) = x)
    /\ \A s \in AllSteps : \A x \in SetOf(Work(s)) :
          StepDid(s, x)' => StepDid(s, x) \/ (Works /\ sub = s /\ Head(todo) = x)
Lasts ==
    /\ jr["merge"].status = "done" => jr'["merge"].status = "done"
    /\ jr'["merge"].status = "done" =>
          jr["merge"].status = "done" \/ \A i \in DOMAIN MergePhases : Completed("merge", MergePhases[i])
Progress == ControlTypes' /\ FlowInv' /\ EndInv' /\ PhaseOrder' /\ StepOrder' /\ Kept /\ Grows /\ Lasts

(* Where the process is in the lists.                                       *)
LEMMA PhasePlace ==
    ASSUME TypeOK, FlowInv, cmd # "idle", at # "finish"
    PROVE  /\ cmd \in Cmds /\ at \in AllPhases /\ at \in SetOf(Phases(cmd)) /\ ~Completed(cmd, at)
           /\ \A j \in DOMAIN Phases(cmd) : Phases(cmd)[j] = at =>
                 \A i \in DOMAIN Phases(cmd) : i < j => Completed(cmd, Phases(cmd)[i])
<1>1. cmd \in Cmds
  BY DEF TypeOK
<1>2. PICK k \in DOMAIN Phases(cmd) : /\ at = Phases(cmd)[k] /\ ~Completed(cmd, at)
                                      /\ \A i \in 1 .. k - 1 : Completed(cmd, Phases(cmd)[i])
  BY DEF FlowInv, Reached
<1>3. DOMAIN Phases(cmd) \in {1 .. 9, 1 .. 7}
  BY PhaseLists DEF Phases
<1>4. \A j \in DOMAIN Phases(cmd) : Phases(cmd)[j] = at => j = k
  BY <1>1, <1>2, Distinct
<1>5. \A i \in DOMAIN Phases(cmd) : i < k => i \in 1 .. k - 1
  BY <1>3, SMT
<1> QED BY <1>1, <1>2, <1>4, <1>5, Known DEF SetOf

(* The same for a substep.                                                  *)
LEMMA StepPlace ==
    ASSUME TypeOK, FlowInv, sub # "-"
    PROVE  /\ cmd = "merge" /\ entered /\ at \in {"REWRITE_REFS", "REBUILD_INDEXES"}
           /\ sub \in AllSteps /\ sub \in SetOf(Substeps(at)) /\ ~StepDone(sub)
           /\ \A j \in DOMAIN Substeps(at) : Substeps(at)[j] = sub =>
                 \A i \in DOMAIN Substeps(at) : i < j => StepDone(Substeps(at)[i])
<1>1. PICK k \in DOMAIN Substeps(at) : /\ sub = Substeps(at)[k] /\ ~StepDone(sub)
                                       /\ \A i \in 1 .. k - 1 : StepDone(Substeps(at)[i])
  BY DEF FlowInv, InStep
<1>2. at \in {"REWRITE_REFS", "REBUILD_INDEXES"}
  BY <1>1, SMT DEF Substeps
<1>3. DOMAIN Substeps(at) \in {1 .. 9, 1 .. 5} /\ \A j \in DOMAIN Substeps(at) : Substeps(at)[j] = sub => j = k
  BY <1>1, <1>2, StepLists, Distinct DEF Substeps
<1>4. \A i \in DOMAIN Substeps(at) : i < k => i \in 1 .. k - 1
  BY <1>3, SMT
<1>5. cmd = "merge" /\ entered /\ sub \in AllSteps
  BY DEF FlowInv, InStep, TypeOK
<1> QED BY <1>1, <1>2, <1>3, <1>4, <1>5 DEF SetOf

(* Marking the phase that is reached keeps the order of phases.             *)
LEMMA MarksInOrder ==
    ASSUME PhaseOrder,
           \A j \in DOMAIN Phases(cmd) : Phases(cmd)[j] = at =>
               \A i \in DOMAIN Phases(cmd) : i < j => Completed(cmd, Phases(cmd)[i]),
           \A c \in Cmds, p \in AllPhases :
               /\ Completed(c, p) => Completed(c, p)'
               /\ jr'[c].phase[p] # "none" => jr[c].phase[p] # "none" \/ (c = cmd /\ p = at)
    PROVE  PhaseOrder'
<1> SUFFICES ASSUME NEW c \in Cmds, NEW i \in DOMAIN Phases(c), NEW j \in DOMAIN Phases(c), i < j,
                    jr'[c].phase[Phases(c)[j]] # "none"
             PROVE  Completed(c, Phases(c)[i])'
  BY DEF PhaseOrder
<1>1. Phases(c)[i] \in AllPhases /\ Phases(c)[j] \in AllPhases
  BY Known
<1>2. CASE c = cmd /\ Phases(c)[j] = at
  BY <1>1, <1>2
<1>3. CASE ~(c = cmd /\ Phases(c)[j] = at)
  <2>1. Completed(c, Phases(c)[i])
    BY <1>1, <1>3 DEF PhaseOrder
  <2> QED BY <1>1, <2>1
<1> QED BY <1>2, <1>3

(* Steps that mark no substep and complete no phase keep the order of       *)
(* substeps.                                                                *)
LEMMA SameSteps ==
    ASSUME StepOrder, \A t \in AllSteps : jr'["merge"].step[t] = jr["merge"].step[t],
           \A q \in AllPhases : /\ Completed("merge", q)' => Completed("merge", q)
                                /\ jr["merge"].phase[q] # "none" => jr'["merge"].phase[q] # "none"
    PROVE  StepOrder'
<1>1. \A q \in {"REWRITE_REFS", "REBUILD_INDEXES"} : q \in AllPhases /\ \A i \in DOMAIN Substeps(q) : Substeps(q)[i] \in AllSteps
  BY Known, PhaseLists, SMT DEF Substeps, AllPhases, SetOf
<1> QED BY <1>1, Known DEF StepOrder

(* So does marking a substep that has all before it completed.              *)
LEMMA StepsInOrder ==
    ASSUME StepOrder, NEW s, NEW p \in {"REWRITE_REFS", "REBUILD_INDEXES"}, s \in SetOf(Substeps(p)),
           \A j \in DOMAIN Substeps(p) : Substeps(p)[j] = s => \A i \in DOMAIN Substeps(p) : i < j => StepDone(Substeps(p)[i]),
           \A t \in AllSteps : /\ StepDone(t) => StepDone(t)'
                               /\ t # s /\ jr'["merge"].step[t] # "none" => jr["merge"].step[t] # "none",
           \A q \in AllPhases : /\ Completed("merge", q)' => Completed("merge", q)
                                /\ jr["merge"].phase[q] # "none" => jr'["merge"].phase[q] # "none",
           jr'["merge"].phase[p] # "none"
    PROVE  StepOrder'
<1>1. \A q \in {"REWRITE_REFS", "REBUILD_INDEXES"} : q \in AllPhases /\ \A i \in DOMAIN Substeps(q) : Substeps(q)[i] \in AllSteps
  BY Known, PhaseLists, SMT DEF Substeps, AllPhases, SetOf
<1>2. Substeps("REWRITE_REFS") = Rewrites /\ Substeps("REBUILD_INDEXES") = Rebuilds
  BY DEF Substeps
<1>3. \A q \in {"REWRITE_REFS", "REBUILD_INDEXES"} : \A i \in DOMAIN Substeps(q) : Substeps(q)[i] = s => q = p
  BY <1>2, Distinct, SMT DEF SetOf
<1>4. ASSUME NEW i \in DOMAIN Rewrites, NEW j \in DOMAIN Rewrites, i < j, jr'["merge"].step[Rewrites[j]] # "none"
      PROVE  StepDone(Rewrites[i])'
  <2>1. Rewrites[i] \in AllSteps /\ Rewrites[j] \in AllSteps
    BY Known
  <2>2. CASE Rewrites[j] = s
    BY <1>2, <1>3, <1>4, <2>1, <2>2
  <2>3. CASE Rewrites[j] # s
    BY <1>4, <2>1, <2>3 DEF StepOrder
  <2> QED BY <2>2, <2>3
<1>5. ASSUME NEW q \in {"REWRITE_REFS", "REBUILD_INDEXES"}, NEW i \in DOMAIN Substeps(q)
      PROVE  /\ jr'["merge"].step[Substeps(q)[i]] # "none" => jr'["merge"].phase[q] # "none"
             /\ Completed("merge", q)' => StepDone(Substeps(q)[i])'
  <2>1. q \in AllPhases /\ Substeps(q)[i] \in AllSteps
    BY <1>1, <1>5
  <2>2. jr["merge"].step[Substeps(q)[i]] # "none" => jr["merge"].phase[q] # "none"
    BY <1>5 DEF StepOrder
  <2>3. Completed("merge", q) => StepDone(Substeps(q)[i])
    BY <1>5 DEF StepOrder
  <2> QED BY <1>3, <1>5, <2>1, <2>2, <2>3
<1> QED BY <1>4, <1>5 DEF StepOrder

(* Where a process is depends only on the completed phases.                 *)
LEMMA ReachedKept ==
    ASSUME NEW c \in Cmds, Reached(c), UNCHANGED at, \A p \in AllPhases : Completed(c, p) <=> Completed(c, p)'
    PROVE  Reached(c)'
<1>1. \A i \in DOMAIN Phases(c) : Completed(c, Phases(c)[i]) <=> Completed(c, Phases(c)[i])'
  BY Known
<1>2. DOMAIN Phases(c) \in {1 .. 9, 1 .. 7}
  BY PhaseLists DEF Phases
<1>3. \A k \in DOMAIN Phases(c) : \A i \in 1 .. k - 1 : i \in DOMAIN Phases(c)
  BY <1>2, SMT
<1> QED BY <1>1, <1>3 DEF Reached

(* A merge whose process is in a phase is not done.                         *)
LEMMA NotDone ==
    ASSUME WindowInv, at \in SetOf(Phases(cmd)), ~Completed(cmd, at)
    PROVE  cmd = "merge" => jr["merge"].status # "done"
<1>1. cmd = "merge" => Phases(cmd) = MergePhases
  BY DEF Phases
<1> QED BY <1>1 DEF WindowInv, SetOf

(* The control invariants, one kind of step after the other.                *)
LEMMA StartProgress ==
    ASSUME IInv, cmd # "idle", PhaseStart
    PROVE  Progress
<1> USE DEF IInv
<1>0. at # "finish" /\ ~entered /\ sub = "-" /\ todo = <<>> /\ mem.seen = {} /\ UNCHANGED <<cmd, at, sub, mem>> /\ entered'
  BY DEF PhaseStart, FlowInv
<1>1. /\ cmd \in Cmds /\ at \in AllPhases /\ at \in SetOf(Phases(cmd)) /\ ~Completed(cmd, at)
      /\ \A j \in DOMAIN Phases(cmd) : Phases(cmd)[j] = at =>
            \A i \in DOMAIN Phases(cmd) : i < j => Completed(cmd, Phases(cmd)[i])
  BY <1>0, PhasePlace
<1>2. /\ jr' \in [Cmds -> Journal] /\ Others(cmd) /\ Marked(cmd, at, "started")
      /\ jr'[cmd].status = "running" /\ jr'[cmd].step = jr[cmd].step /\ jr'[cmd].map = jr[cmd].map
  BY <1>1, StartWritten DEF PhaseStart
<1>3. /\ \A c \in Cmds, p \in AllPhases :
            /\ Completed(c, p) <=> Completed(c, p)'
            /\ jr'[c].phase[p] = "none" => jr[c].phase[p] = "none"
      /\ \A s \in AllSteps : jr'["merge"].step[s] = jr["merge"].step[s]
      /\ jr'["merge"].map = jr["merge"].map /\ jr'["merge"].plan = jr["merge"].plan
  BY <1>1, <1>2 DEF Others, Marked, Completed, Cmds
<1>4. todo' = Start(cmd, at)
  BY DEF PhaseStart, Start
<1>5. ControlTypes'
  <2>1. Start(cmd, at) \in Seq(Items)
    <3>1. <<"ready">> \in Seq(Items)
      BY SMT DEF Items
    <3> QED BY <3>1, WorkType DEF Start
  <2> QED BY <1>0, <1>2, <1>4, <2>1 DEF ControlTypes, TypeOK
<1>6. FlowInv'
  <2>1. Reached(cmd)'
    BY <1>0, <1>1, <1>3, ReachedKept DEF FlowInv
  <2>2. \A c \in Cmds : jr'[c].status = "absent" => jr'[c] = NoJournal
    BY <1>2 DEF FlowInv, Others
  <2>3. jr'[cmd].phase[at] = "started"
    BY <1>1, <1>2 DEF Marked
  <2> QED BY <1>0, <1>1, <2>1, <2>2, <2>3 DEF FlowInv
<1>7. EndInv'
  BY <1>0, <1>4, WorkLists, SMT DEF EndInv, EndsWith, Start
<1>8. PhaseOrder' /\ StepOrder'
  <2>1. \A c \in Cmds, p \in AllPhases :
            /\ Completed(c, p) => Completed(c, p)'
            /\ jr'[c].phase[p] # "none" => jr[c].phase[p] # "none" \/ (c = cmd /\ p = at)
    <3>1. \A c \in Cmds, p \in AllPhases : jr'[c].phase[p] # "none" => jr[c].phase[p] # "none" \/ (c = cmd /\ p = at)
      BY <1>2 DEF Others, Marked
    <3>2. \A c \in Cmds, p \in AllPhases : Completed(c, p) => Completed(c, p)'
      BY <1>3
    <3> QED BY <3>1, <3>2
  <2>2. PhaseOrder'
    BY <1>1, <2>1, MarksInOrder
  <2>3. StepOrder'
    BY <1>3, SameSteps DEF Cmds
  <2> QED BY <2>2, <2>3
<1>9. Kept
  BY <1>3, PhaseLists, SMT DEF Kept, StepDone, Mapping, Cmds, AllPhases, SetOf
<1>10. Grows
  <2>1. ASSUME NEW c \in Cmds, NEW p \in AllPhases, NEW x \in SetOf(Start(c, p)), Did(c, p, x)'
        PROVE  Completed(c, p)
    <3>1. CASE cmd = c /\ at = p
      <4>1. Pending(x)'
        BY <1>4, <2>1, <3>1 DEF Pending, SetOf
      <4> QED BY <1>3, <2>1, <4>1 DEF Did, Pending
    <3> QED BY <1>0, <1>3, <2>1, <3>1 DEF Did, Pending
  <2> QED BY <1>0, <1>3, <2>1, Known DEF Grows, Did, StepDid, Pending
<1>11. Lasts
  <2>1. cmd = "merge" => jr["merge"].status # "done"
    BY <1>1, NotDone
  <2> QED BY <1>2, <2>1 DEF Lasts, Others, Cmds
<1> QED BY <1>5, <1>6, <1>7, <1>8, <1>9, <1>10, <1>11 DEF Progress

(* next_phase returns the first phase that is not completed.                *)
LEMMA NextReached ==
    ASSUME NEW c \in Cmds, at' = NextPhase(c, jr'[c])
    PROVE  Reached(c)' /\ at' \in AllPhases \cup {"finish"}
<1> DEFINE open == {i \in DOMAIN Phases(c) : jr'[c].phase[Phases(c)[i]] # "completed"}
<1>1. at' = IF open = {} THEN "finish" ELSE Phases(c)[Min(open)]
  BY DEF NextPhase
<1>2. DOMAIN Phases(c) \in {1 .. 9, 1 .. 7}
  BY PhaseLists DEF Phases
<1>3. CASE open = {}
  <2>1. \A i \in DOMAIN Phases(c) : Completed(c, Phases(c)[i])'
    BY <1>3
  <2> QED BY <1>1, <1>3, <2>1 DEF Reached
<1>4. CASE open # {}
  <2>1. open \subseteq 1 .. 9
    BY <1>2, SMT
  <2> DEFINE k == Min(open)
  <2>2. k \in open /\ \A i \in open : k <= i
    BY <1>4, <2>1, Least
  <2> HIDE DEF k
  <2>3. k \in DOMAIN Phases(c) /\ jr'[c].phase[Phases(c)[k]] # "completed" /\ at' = Phases(c)[k]
    <3>1. k \in DOMAIN Phases(c) /\ jr'[c].phase[Phases(c)[k]] # "completed"
      BY <2>2
    <3> QED BY <1>1, <1>4, <3>1 DEF k
  <2>4. \A i \in 1 .. k - 1 : i \in DOMAIN Phases(c) /\ i \notin open
    BY <1>2, <2>2, <2>3, SMT
  <2>5. \A i \in 1 .. k - 1 : Completed(c, Phases(c)[i])'
    BY <2>4
  <2>6. ~Completed(c, at)'
    BY <2>3
  <2>7. at' \in AllPhases
    BY <2>3, Known
  <2> QED BY <2>3, <2>5, <2>6, <2>7 DEF Reached
<1> QED BY <1>3, <1>4

(* Steps that change no mark.                                               *)
SameMarks ==
    /\ \A c \in Cmds : jr'[c].phase = jr[c].phase
    /\ jr'["merge"].step = jr["merge"].step /\ jr'["merge"].map = jr["merge"].map
    /\ jr'["merge"].plan = jr["merge"].plan

(* A step that changes no mark keeps both orders.                           *)
LEMMA SameOrder ==
    ASSUME PhaseOrder, StepOrder, SameMarks
    PROVE  PhaseOrder' /\ StepOrder' /\ Kept
<1>1. PhaseOrder'
  BY DEF SameMarks, PhaseOrder
<1>2. StepOrder'
  <2>1. jr'["merge"].phase = jr["merge"].phase /\ jr'["merge"].step = jr["merge"].step
    BY DEF SameMarks, Cmds
  <2> QED BY <2>1 DEF StepOrder
<1>3. Kept
  BY DEF Kept, SameMarks, Mapping, Cmds
<1> QED BY <1>1, <1>2, <1>3

(* mark_done is reached with all phases completed.                          *)
LEMMA FinishProgress ==
    ASSUME IInv, cmd # "idle", Finish
    PROVE  Progress
<1> USE DEF IInv
<1>1. /\ jr' \in [Cmds -> Journal] /\ SameMarks
      /\ \A c \in Cmds : /\ jr'[c].status = "absent" => jr'[c] = jr[c] /\ jr[c].status = "absent"
                         /\ jr'[c].status = IF c = cmd THEN "done" ELSE jr[c].status
  <2> DEFINE j == [jr[cmd] EXCEPT !.status = "done"]
  <2>1. cmd \in Cmds /\ jr[cmd] \in Journal /\ jr' = [jr EXCEPT ![cmd] = j]
    BY DEF Finish, TypeOK, Cmds
  <2>2. j \in Journal /\ j.status = "done" /\ j.phase = jr[cmd].phase /\ j.step = jr[cmd].step /\ j.map = jr[cmd].map /\ j.plan = jr[cmd].plan
    BY <2>1 DEF Journal
  <2> HIDE DEF j
  <2>3. jr' \in [Cmds -> Journal] /\ Others(cmd) /\ jr'[cmd] = j
    BY <2>1, <2>2, JournalWritten
  <2> QED BY <2>1, <2>2, <2>3 DEF SameMarks, Others, Cmds
<1>2. PhaseOrder' /\ StepOrder' /\ Kept
  BY <1>1, SameOrder
<1>3. cmd' = "idle" /\ at' = "-" /\ entered' = FALSE /\ sub' = "-" /\ todo' = <<>> /\ mem'.seen = {}
  BY DEF Finish, Stop, NoArtifacts
<1>4. FlowInv' /\ EndInv' /\ ControlTypes'
  <2>1. FlowInv'
    BY <1>1, <1>3 DEF FlowInv
  <2>2. EndInv'
    BY <1>3 DEF EndInv, EndsWith
  <2>3. <<>> \in Seq(Items)
    BY SMT
  <2>4. ControlTypes'
    BY <1>1, <1>3, <2>3 DEF ControlTypes
  <2> QED BY <2>1, <2>2, <2>4
<1>5. Grows
  BY <1>1, <1>3, Known DEF Grows, Did, StepDid, SameMarks
<1>6. Lasts
  <2>1. cmd = "merge" => \A i \in DOMAIN MergePhases : Completed("merge", MergePhases[i])
    <3>1. Reached(cmd) /\ at = "finish"
      BY DEF FlowInv, Finish
    <3>2. \A c \in Cmds : \A k \in DOMAIN Phases(c) : Phases(c)[k] # at
      BY <3>1, Known
    <3> QED BY <3>1, <3>2 DEF Reached, Cmds, Phases
  <2>2. "merge" \in Cmds
    BY DEF Cmds
  <2> QED BY <1>1, <2>1, <2>2 DEF Lasts
<1> QED BY <1>2, <1>4, <1>5, <1>6 DEF Progress

(* A kill changes no journal; the process is gone.                          *)
LEMMA DiesProgress ==
    ASSUME IInv, Dies
    PROVE  Progress
<1> USE DEF IInv
<1>1. jr' = jr /\ SameMarks
  BY DEF Dies, SameMarks
<1>2. PhaseOrder' /\ StepOrder' /\ Kept
  BY <1>1, SameOrder
<1>3. cmd' = "idle" /\ at' = "-" /\ entered' = FALSE /\ sub' = "-" /\ todo' = <<>> /\ mem'.seen = {}
  BY DEF Dies, Stop, NoArtifacts
<1>4. FlowInv' /\ EndInv' /\ ControlTypes'
  <2>1. FlowInv'
    BY <1>1, <1>3 DEF FlowInv
  <2>2. EndInv'
    BY <1>3 DEF EndInv, EndsWith
  <2>3. <<>> \in Seq(Items)
    BY SMT
  <2>4. ControlTypes'
    BY <1>1, <1>3, <2>3 DEF ControlTypes, TypeOK
  <2> QED BY <2>1, <2>2, <2>4
<1>5. Grows
  BY <1>1, <1>3, Known DEF Grows, Did, StepDid, SameMarks
<1>6. Lasts
  BY <1>1 DEF Lasts
<1> QED BY <1>2, <1>4, <1>5, <1>6 DEF Progress

(* A step of others, or one write of many, leaves the control as it is.     *)
LEMMA StaysProgress ==
    ASSUME IInv, Stays
    PROVE  Progress
<1> USE DEF IInv
<1>1. UNCHANGED <<jr, cmd, at, entered, sub, todo>> /\ SameMarks
  BY DEF Stays, SameMarks
<1>2. PhaseOrder' /\ StepOrder' /\ Kept
  BY <1>1, SameOrder
<1>3. EndInv' /\ ControlTypes'
  BY <1>1 DEF EndInv, EndsWith, ControlTypes, TypeOK
<1>4. FlowInv'
  <2>1. sub' # "inbox" \/ todo' = <<>> => mem'.seen = {}
    BY DEF Stays, FlowInv
  <2>2. (Reached(cmd) => Reached(cmd)') /\ (InStep => InStep')
    BY <1>1 DEF Reached, InStep
  <2> QED BY <1>1, <2>1, <2>2 DEF FlowInv
<1>5. Grows
  BY <1>1 DEF Grows, Did, StepDid, Pending
<1>6. Lasts
  BY <1>1 DEF Lasts
<1> QED BY <1>2, <1>3, <1>4, <1>5, <1>6 DEF Progress

(* A new or resumed command begins at the first phase not completed.        *)
LEMMA OpensProgress ==
    ASSUME IInv, NEW c \in Cmds, Opens(c)
    PROVE  Progress
<1> USE DEF IInv
<1>0. /\ cmd' = c /\ UNCHANGED <<entered, sub, todo, mem>> /\ ~entered /\ sub = "-" /\ todo = <<>> /\ mem.seen = {}
      /\ at' = NextPhase(c, jr'[c])
  BY DEF Opens, FlowInv
<1>1. /\ jr' \in [Cmds -> Journal] /\ SameMarks
      /\ \A d \in Cmds : /\ jr'[d].status = "absent" => jr'[d] = jr[d] /\ jr[d].status = "absent"
                         /\ jr'[d].status = "done" <=> jr[d].status = "done"
  <2>1. CASE jr[c].status # "absent"
    <3>1. jr' = jr
      BY <2>1 DEF Opens, TypeOK
    <3> QED BY <3>1 DEF SameMarks, TypeOK
  <2>2. CASE jr[c].status = "absent"
    <3>1. jr[c] = NoJournal /\ jr[c] \in Journal
      BY <2>2 DEF FlowInv, TypeOK
    <3>2. /\ NewJournal.status = "running" /\ NewJournal \in Journal
          /\ NewJournal.phase = jr[c].phase /\ NewJournal.step = jr[c].step
          /\ NewJournal.map = jr[c].map /\ NewJournal.plan = jr[c].plan
      <4>1. /\ NewJournal.status = "running" /\ NewJournal.phase = NoJournal.phase /\ NewJournal.step = NoJournal.step
            /\ NewJournal.map = NoJournal.map /\ NewJournal.plan = NoJournal.plan
        BY DEF NoJournal, NewJournal
      <4>2. NewJournal = [status |-> "running", phase |-> NewJournal.phase, step |-> NewJournal.step,
                          map |-> NewJournal.map, plan |-> NewJournal.plan]
        BY DEF NewJournal
      <4>3. NewJournal \in Journal
        BY <3>1, <4>1, <4>2 DEF Journal
      <4> QED BY <3>1, <4>1, <4>3
    <3>3. \A d \in Cmds : jr'[d] = IF d = c THEN NewJournal ELSE jr[d]
      BY <2>2 DEF Opens, TypeOK
    <3>4. jr' \in [Cmds -> Journal]
      BY <2>2, <3>2 DEF Opens, TypeOK
    <3>5. SameMarks
      BY <3>2, <3>3 DEF SameMarks, Cmds
    <3> QED BY <2>2, <3>2, <3>3, <3>4, <3>5
  <2> QED BY <2>1, <2>2
<1>2. PhaseOrder' /\ StepOrder' /\ Kept
  BY <1>1, SameOrder
<1>3. Reached(c)' /\ at' \in AllPhases \cup {"finish"}
  BY <1>0, NextReached
<1>4. FlowInv' /\ EndInv' /\ ControlTypes'
  <2>1. c # "idle"
    BY DEF Cmds
  <2>2. FlowInv'
    BY <1>0, <1>1, <1>3, <2>1 DEF FlowInv
  <2>3. EndInv' /\ ControlTypes'
    BY <1>0, <1>1, <1>3 DEF EndInv, EndsWith, ControlTypes, TypeOK
  <2> QED BY <2>2, <2>3
<1>5. Grows
  BY <1>0, <1>1, Known DEF Grows, Did, StepDid, SameMarks
<1>6. Lasts
  BY <1>1 DEF Lasts, Cmds
<1> QED BY <1>2, <1>4, <1>5, <1>6 DEF Progress

(* An item is worked on and leaves the list.                                *)
LEMMA WorksProgress ==
    ASSUME IInv, Works
    PROVE  Progress
<1> USE DEF IInv
<1>1. UNCHANGED <<jr, cmd, at, entered, sub>> /\ SameMarks /\ todo' = Tail(todo) /\ todo # <<>>
  BY DEF Works, Advance, SameMarks
<1>2. PhaseOrder' /\ StepOrder' /\ Kept
  BY <1>1, SameOrder
<1>3. todo \in Seq(Items) /\ Tail(todo) \in Seq(Items)
  BY <1>1, SMT DEF TypeOK
<1>4. EndInv' /\ ControlTypes'
  <2>1. ASSUME NEW x, EndsWith(x) PROVE EndsWith(x)'
    BY <1>1, <1>3, <2>1, SMT DEF EndsWith
  <2>2. sub = "inbox" => Tail(todo) \in {<<"unlink">>, <<>>}
    <3>1. Tail(<<"copy", "unlink">>) = <<"unlink">> /\ Tail(<<"unlink">>) = <<>>
      BY SMT
    <3> QED BY <1>1, <3>1 DEF EndInv
  <2>3. EndInv'
    BY <1>1, <2>1, <2>2 DEF EndInv
  <2> QED BY <1>1, <1>3, <2>3 DEF ControlTypes, TypeOK
<1>5. FlowInv'
  <2>1. mem'.seen = {}
    BY DEF Works, FlowInv
  <2>2. (Reached(cmd) => Reached(cmd)') /\ (InStep => InStep')
    BY <1>1 DEF Reached, InStep
  <2>3. entered
    BY DEF Works
  <2> QED BY <1>1, <2>1, <2>2, <2>3 DEF FlowInv
<1>6. Grows
  <2>1. \A x : ~Pending(x)' => ~Pending(x) \/ Head(todo) = x
    <3>1. ASSUME NEW i \in DOMAIN todo, i # 1 PROVE i - 1 \in DOMAIN Tail(todo) /\ Tail(todo)[i - 1] = todo[i]
      BY <1>1, <1>3, <3>1, SMT
    <3>2. \A i \in DOMAIN todo : todo[i] = Head(todo) \/ \E j \in DOMAIN Tail(todo) : Tail(todo)[j] = todo[i]
      <4>1. todo[1] = Head(todo)
        BY <1>1, <1>3, SMT
      <4> QED BY <3>1, <4>1
    <3> QED BY <1>1, <3>2 DEF Pending
  <2> QED BY <1>1, <2>1 DEF Grows, Did, StepDid
<1>7. Lasts
  BY <1>1 DEF Lasts
<1> QED BY <1>2, <1>4, <1>5, <1>6, <1>7 DEF Progress

(* An exception marks the phase, and the substep, as failed; neither was    *)
(* completed.                                                               *)
LEMMA FailsProgress ==
    ASSUME IInv, Fails
    PROVE  Progress
<1> USE DEF IInv
<1>0. entered /\ cmd # "idle" /\ at # "finish" /\ cmd' = "idle" /\ at' = "-" /\ entered' = FALSE /\ sub' = "-" /\ todo' = <<>> /\ mem'.seen = {}
  <2>1. at # "finish"
    BY Known, SMT DEF Fails, FlowInv, TypeOK, SetOf
  <2> QED BY <2>1 DEF Fails, Failed, Stop, NoArtifacts
<1>1. /\ cmd \in Cmds /\ at \in AllPhases /\ at \in SetOf(Phases(cmd)) /\ ~Completed(cmd, at)
      /\ \A j \in DOMAIN Phases(cmd) : Phases(cmd)[j] = at =>
            \A i \in DOMAIN Phases(cmd) : i < j => Completed(cmd, Phases(cmd)[i])
  BY <1>0, PhasePlace
<1>2. FailMarked(cmd, at, sub)
  <2>1. sub \in AllSteps \cup {"-"}
    BY DEF TypeOK
  <2>2. jr' = [jr EXCEPT ![cmd] = JFail(JStepFail(@, sub), at)]
    BY DEF Fails, Failed
  <2> QED BY <1>1, <2>1, <2>2, FailWritten
<1> USE DEF FailMarked
<1>3. \A c \in Cmds, p \in AllPhases : jr'[c].phase[p] = IF c = cmd /\ p = at THEN "failed" ELSE jr[c].phase[p]
  BY <1>2 DEF Others, Marked
<1>4. \A s \in AllSteps : jr'["merge"].step[s] = IF s = sub THEN "failed" ELSE jr["merge"].step[s]
  <2>1. CASE cmd = "merge"
    BY <1>2, <2>1
  <2>2. CASE cmd # "merge"
    <3>1. jr'["merge"] = jr["merge"]
      BY <1>2, <2>2 DEF Others, Cmds
    <3>2. sub = "-"
      BY <2>2 DEF FlowInv, InStep
    <3> QED BY <3>1, <3>2, Known
  <2> QED BY <2>1, <2>2
<1>5. jr'["merge"].map = jr["merge"].map /\ jr'["merge"].plan = jr["merge"].plan
  BY <1>1, <1>2 DEF Others, Marked, Cmds
<1>6. sub # "-" => /\ cmd = "merge" /\ at \in {"REWRITE_REFS", "REBUILD_INDEXES"} /\ ~StepDone(sub)
                   /\ sub \in SetOf(Substeps(at))
                   /\ \A j \in DOMAIN Substeps(at) : Substeps(at)[j] = sub =>
                         \A i \in DOMAIN Substeps(at) : i < j => StepDone(Substeps(at)[i])
  BY StepPlace
<1>7. (\A c \in Cmds, p \in AllPhases : Completed(c, p)' <=> Completed(c, p)) /\ \A s \in AllSteps : StepDone(s)' <=> StepDone(s)
  <2>1. \A s \in AllSteps : s = sub => ~StepDone(s)
    BY <1>6, Known
  <2> QED BY <1>1, <1>3, <1>4, <2>1
<1>8. PhaseOrder'
  BY <1>1, <1>3, <1>7, MarksInOrder
<1>9. StepOrder'
  <2>0. "merge" \in Cmds
    BY DEF Cmds
  <2>1. CASE sub # "-"
    BY <1>1, <1>3, <1>4, <1>6, <1>7, <2>0, <2>1, StepsInOrder, SMT
  <2>2. CASE sub = "-"
    <3>1. \A s \in AllSteps : jr'["merge"].step[s] = jr["merge"].step[s]
      BY <1>4, <2>2, Known
    <3> QED BY <1>3, <1>7, <2>0, <3>1, SameSteps
  <2> QED BY <2>1, <2>2
<1>10. FlowInv' /\ EndInv' /\ ControlTypes'
  <2>1. \A c \in Cmds : jr'[c].status = "absent" => jr'[c] = NoJournal
    BY <1>1, <1>2 DEF FlowInv, Others
  <2>2. FlowInv'
    BY <1>0, <2>1 DEF FlowInv
  <2>3. EndInv'
    BY <1>0 DEF EndInv, EndsWith
  <2>4. <<>> \in Seq(Items)
    BY SMT
  <2>5. ControlTypes'
    BY <1>0, <1>2, <2>4 DEF ControlTypes
  <2> QED BY <2>2, <2>3, <2>5
<1>11. Kept
  BY <1>3, <1>5, <1>7, PhaseLists, SMT DEF Kept, Mapping, Cmds, AllPhases, SetOf
<1>12. Grows
  BY <1>0, <1>7, Known DEF Grows, Did, StepDid
<1>13. Lasts
  <2>1. cmd = "merge" => jr["merge"].status # "done"
    BY <1>1, NotDone
  <2> QED BY <1>2, <2>1 DEF Lasts, Others, Cmds
<1> QED BY <1>8, <1>9, <1>10, <1>11, <1>12, <1>13 DEF Progress

(* The next substep is the first that is not completed.                     *)
LEMMA NextStep ==
    ASSUME Open # {}
    PROVE  \E k \in DOMAIN Substeps(at) :
              /\ Substeps(at)[Min(Open)] = Substeps(at)[k] /\ ~StepDone(Substeps(at)[k])
              /\ at \in {"REWRITE_REFS", "REBUILD_INDEXES"}
              /\ \A i \in 1 .. k - 1 : StepDone(Substeps(at)[i])
<1>1. at \in {"REWRITE_REFS", "REBUILD_INDEXES"}
  BY SMT DEF Open, Substeps
<1>2. DOMAIN Substeps(at) \in {1 .. 9, 1 .. 5}
  BY <1>1, StepLists DEF Substeps
<1>3. Open \subseteq 1 .. 9
  BY <1>2, SMT DEF Open
<1> DEFINE k == Min(Open)
<1>4. k \in Open /\ \A i \in Open : k <= i
  BY <1>3, Least
<1> HIDE DEF k
<1>5. k \in DOMAIN Substeps(at) /\ ~StepDone(Substeps(at)[k])
  BY <1>4 DEF Open
<1>6. \A i \in 1 .. k - 1 : i \in DOMAIN Substeps(at) /\ i \notin Open
  BY <1>2, <1>4, <1>5, SMT
<1>7. \A i \in 1 .. k - 1 : StepDone(Substeps(at)[i])
  BY <1>6 DEF Open
<1> QED BY <1>1, <1>5, <1>7 DEF k

(* A substep is entered, with its items.                                    *)
LEMMA SubStartProgress ==
    ASSUME IInv, SubStart
    PROVE  Progress
<1> USE DEF IInv
<1>0. /\ cmd = "merge" /\ entered /\ sub = "-" /\ mem.seen = {} /\ UNCHANGED <<cmd, at, entered, mem>>
      /\ jr["merge"].phase[at] = "started" /\ at \in AllPhases
  <2>1. cmd = "merge" /\ entered /\ sub = "-" /\ UNCHANGED <<cmd, at, entered, mem>>
    BY DEF SubStart
  <2>2. mem.seen = {} /\ jr["merge"].phase[at] = "started" /\ at \in SetOf(Phases("merge"))
    BY <2>1 DEF FlowInv
  <2> QED BY <2>1, <2>2, Known DEF SetOf, Cmds
<1>1. PICK k \in DOMAIN Substeps(at) : /\ sub' = Substeps(at)[k] /\ ~StepDone(Substeps(at)[k])
                                       /\ at \in {"REWRITE_REFS", "REBUILD_INDEXES"}
                                       /\ \A i \in 1 .. k - 1 : StepDone(Substeps(at)[i])
  BY NextStep DEF SubStart
<1>2. /\ sub' \in AllSteps /\ sub' \in SetOf(Substeps(at)) /\ DOMAIN Substeps(at) \in {1 .. 9, 1 .. 5}
      /\ \A j \in DOMAIN Substeps(at) : Substeps(at)[j] = sub' => j = k
  <2>1. /\ \A i \in DOMAIN Substeps(at) : Substeps(at)[i] \in AllSteps
        /\ \A i, j \in DOMAIN Substeps(at) : Substeps(at)[j] = Substeps(at)[i] => j = i
        /\ DOMAIN Substeps(at) \in {1 .. 9, 1 .. 5}
    BY <1>1, StepLists, Distinct, Known DEF Substeps
  <2> QED BY <1>1, <2>1 DEF SetOf
<1>3. /\ jr' \in [Cmds -> Journal] /\ Others("merge") /\ StepMarked(sub', "started")
      /\ jr'["merge"].status = jr["merge"].status /\ jr'["merge"].phase = jr["merge"].phase
      /\ jr'["merge"].plan = jr["merge"].plan
  <2>1. jr' = [jr EXCEPT !["merge"] = JStepStart(@, sub')]
    BY DEF SubStart
  <2> QED BY <1>2, <2>1, StepStartWritten
<1>4. \A c \in Cmds : jr'[c].phase = jr[c].phase
  BY <1>3 DEF Others, Cmds
<1>5. \A s \in AllSteps : StepDone(s)' <=> StepDone(s)
  BY <1>1, <1>3 DEF StepMarked
<1>6. ControlTypes'
  BY <1>0, <1>2, <1>3, WorkType DEF ControlTypes, TypeOK, SubStart
<1>7. FlowInv'
  <2>1. Reached(cmd)'
    BY <1>0, <1>4, ReachedKept DEF FlowInv, Cmds
  <2>2. \A c \in Cmds : jr'[c].status = "absent" => jr'[c] = NoJournal
    <3>1. jr["merge"].status # "absent"
      <4>1. jr["merge"].status = "absent" => jr["merge"].phase[at] = "none"
        BY <1>0 DEF FlowInv, NoJournal, NewJournal, AllPhases, Cmds
      <4> QED BY <1>0, <4>1
    <3> QED BY <1>3, <3>1 DEF FlowInv, Others, Cmds
  <2>3. InStep'
    <3>1. \A i \in 1 .. k - 1 : Substeps(at)[i] \in AllSteps
      BY <1>1, <1>2, StepLists, Known, SMT DEF Substeps
    <3>2. \A i \in 1 .. k - 1 : jr'["merge"].step[Substeps(at)[i]] = "completed"
      BY <1>1, <1>5, <3>1
    <3> QED BY <1>0, <1>1, <1>2, <1>5, <3>2 DEF InStep
  <2>4. at' \in SetOf(Phases(cmd')) /\ jr'[cmd'].phase[at'] = "started"
    BY <1>0, <1>4 DEF FlowInv, Cmds
  <2> QED BY <1>0, <2>1, <2>2, <2>3, <2>4 DEF FlowInv
<1>8. EndInv'
  <2>1. at' # "QUIESCE" /\ todo' = Work(sub')
    BY <1>0, <1>1 DEF SubStart
  <2>2. /\ sub' = "inbox" => todo' = <<"copy", "unlink">>
        /\ sub' = "ancillary_state" => todo' = <<"notification_map", "discord_map", "run_state", "sync">>
    BY <2>1, WorkLists
  <2>3. sub' = "ancillary_state" => EndsWith("sync")'
    <3> DEFINE t == <<"notification_map", "discord_map", "run_state", "sync">>
    <3>1. t[Len(t)] = "sync"
      OBVIOUS
    <3> QED BY <2>2, <3>1 DEF EndsWith
  <2> QED BY <2>1, <2>2, <2>3 DEF EndInv
<1>9. PhaseOrder' /\ StepOrder'
  <2>1. PhaseOrder'
    BY <1>4 DEF PhaseOrder
  <2>2. \A j \in DOMAIN Substeps(at) : Substeps(at)[j] = sub' => \A i \in DOMAIN Substeps(at) : i < j => StepDone(Substeps(at)[i])
    <3>1. \A i \in DOMAIN Substeps(at) : i < k => i \in 1 .. k - 1
      BY <1>2, SMT
    <3> QED BY <1>1, <1>2, <3>1
  <2>3. \A t \in AllSteps : /\ StepDone(t) => StepDone(t)'
                            /\ t # sub' /\ jr'["merge"].step[t] # "none" => jr["merge"].step[t] # "none"
    BY <1>3, <1>5 DEF StepMarked
  <2>4. jr'["merge"].phase[at] # "none"
    BY <1>0, <1>3
  <2>5. \A q \in AllPhases : /\ Completed("merge", q)' => Completed("merge", q)
                             /\ jr["merge"].phase[q] # "none" => jr'["merge"].phase[q] # "none"
    BY <1>3
  <2>6. StepOrder'
    BY <1>1, <1>2, <2>2, <2>3, <2>4, <2>5, StepsInOrder, SMT
  <2> QED BY <2>1, <2>6
<1>10. Kept
  <2>1. jr'["merge"].map = jr["merge"].map
    BY <1>3 DEF StepMarked
  <2> QED BY <1>3, <1>4, <1>5, <2>1 DEF Kept, Mapping, Cmds
<1>11. Grows
  <2>1. ASSUME NEW c \in Cmds, NEW p \in AllPhases, NEW x, Did(c, p, x)' PROVE Did(c, p, x)
    BY <1>2, <1>4, <2>1, Known DEF Did
  <2>2. ASSUME NEW s \in AllSteps, NEW x \in SetOf(Work(s)), StepDid(s, x)' PROVE StepDid(s, x)
    <3>1. sub' = s => Pending(x)'
      BY DEF SubStart, Pending, SetOf
    <3> QED BY <1>5, <2>2, <3>1 DEF StepDid
  <2> QED BY <2>1, <2>2 DEF Grows
<1>12. Lasts
  BY <1>3 DEF Lasts
<1> QED BY <1>6, <1>7, <1>8, <1>9, <1>10, <1>11, <1>12 DEF Progress

(* A substep without items left is completed.                               *)
LEMMA SubEndProgress ==
    ASSUME IInv, SubEnd
    PROVE  Progress
<1> USE DEF IInv
<1>0. sub # "-" /\ sub' = "-" /\ todo = <<>> /\ mem.seen = {} /\ UNCHANGED <<cmd, at, entered, todo, mem>>
  BY DEF SubEnd, FlowInv
<1>1. /\ cmd = "merge" /\ entered /\ at \in {"REWRITE_REFS", "REBUILD_INDEXES"}
      /\ sub \in AllSteps /\ sub \in SetOf(Substeps(at)) /\ ~StepDone(sub)
      /\ \A j \in DOMAIN Substeps(at) : Substeps(at)[j] = sub =>
            \A i \in DOMAIN Substeps(at) : i < j => StepDone(Substeps(at)[i])
  BY <1>0, StepPlace
<1>2. jr["merge"].phase[at] = "started" /\ at \in SetOf(Phases(cmd)) /\ at \in AllPhases
  <2>1. jr["merge"].phase[at] = "started" /\ at \in SetOf(Phases(cmd))
    BY <1>1 DEF FlowInv
  <2> QED BY <1>1, <2>1, Known DEF SetOf, Cmds
<1>3. /\ jr' \in [Cmds -> Journal] /\ Others("merge") /\ StepMarked(sub, "completed")
      /\ jr'["merge"].status = jr["merge"].status /\ jr'["merge"].phase = jr["merge"].phase
      /\ jr'["merge"].plan = IF sub = "inbox_mapping" THEN mem.plan ELSE jr["merge"].plan
  <2>1. jr' = [jr EXCEPT !["merge"] = JStepComplete(@, sub, mem)]
    BY DEF SubEnd
  <2> QED BY <1>1, <2>1, StepCompleteWritten
<1>4. \A c \in Cmds : jr'[c].phase = jr[c].phase
  BY <1>3 DEF Others, Cmds
<1>5. \A s \in AllSteps : StepDone(s)' <=> StepDone(s) \/ s = sub
  BY <1>3 DEF StepMarked
<1>6. ControlTypes' /\ EndInv'
  BY <1>0, <1>3 DEF ControlTypes, EndInv, EndsWith, TypeOK
<1>7. FlowInv'
  <2>1. Reached(cmd)'
    BY <1>0, <1>1, <1>4, ReachedKept DEF FlowInv, Cmds
  <2>2. \A c \in Cmds : jr'[c].status = "absent" => jr'[c] = NoJournal
    <3>1. jr["merge"].status = "absent" => jr["merge"].phase[at] = "none"
      BY <1>2 DEF FlowInv, NoJournal, NewJournal, AllPhases, Cmds
    <3> QED BY <1>2, <1>3, <3>1 DEF FlowInv, Others, Cmds
  <2>3. at' \in SetOf(Phases(cmd')) /\ jr'[cmd'].phase[at'] = "started"
    BY <1>0, <1>1, <1>2, <1>3
  <2> QED BY <1>0, <1>1, <2>1, <2>2, <2>3 DEF FlowInv
<1>8. PhaseOrder' /\ StepOrder'
  <2>1. PhaseOrder'
    BY <1>4 DEF PhaseOrder
  <2>2. \A t \in AllSteps : /\ StepDone(t) => StepDone(t)'
                            /\ t # sub /\ jr'["merge"].step[t] # "none" => jr["merge"].step[t] # "none"
    BY <1>3, <1>5 DEF StepMarked
  <2>3. jr'["merge"].phase[at] # "none"
    BY <1>2, <1>3
  <2>4. \A q \in AllPhases : /\ Completed("merge", q)' => Completed("merge", q)
                             /\ jr["merge"].phase[q] # "none" => jr'["merge"].phase[q] # "none"
    BY <1>3
  <2>5. StepOrder'
    BY <1>1, <2>2, <2>3, <2>4, StepsInOrder, SMT
  <2> QED BY <2>1, <2>5
<1>9. Kept
  <2>1. jr'["merge"].map = jr["merge"].map /\ (StepDone("inbox_mapping") => jr'["merge"].plan = jr["merge"].plan)
    BY <1>1, <1>3 DEF StepMarked
  <2> QED BY <1>4, <1>5, <2>1 DEF Kept, Mapping, Cmds
<1>10. Grows
  <2>1. ASSUME NEW c \in Cmds, NEW p \in AllPhases, NEW x \in SetOf(Start(c, p)), Did(c, p, x)'
        PROVE  Did(c, p, x)
    <3>1. cmd = c /\ at = p => Start(c, p) = <<>>
      BY <1>1, WorkLists DEF Start
    <3>2. ~(cmd = c /\ at = p)
      BY <2>1, <3>1, SMT DEF SetOf
    <3> QED BY <1>0, <1>4, <2>1, <3>2 DEF Did
  <2>2. ASSUME NEW s \in AllSteps, NEW x \in SetOf(Work(s)), StepDid(s, x)' PROVE StepDid(s, x)
    <3>1. ~Pending(x)
      BY <1>0, SMT DEF Pending
    <3> QED BY <1>0, <1>5, <2>2, <3>1, Known DEF StepDid
  <2> QED BY <2>1, <2>2 DEF Grows
<1>11. Lasts
  BY <1>3 DEF Lasts
<1> QED BY <1>6, <1>7, <1>8, <1>9, <1>10, <1>11 DEF Progress

(* A phase without items and open substeps is completed.                    *)
LEMMA PhaseEndProgress ==
    ASSUME IInv, cmd # "idle", PhaseEnd
    PROVE  Progress
<1> USE DEF IInv
<1>0. /\ at # "finish" /\ entered /\ entered' = FALSE /\ sub = "-" /\ todo = <<>> /\ Open = {} /\ mem.seen = {}
      /\ UNCHANGED <<cmd, sub, todo, mem>> /\ at' = NextPhase(cmd, jr'[cmd])
  <2>1. entered /\ entered' = FALSE /\ sub = "-" /\ todo = <<>> /\ Open = {} /\ UNCHANGED <<cmd, sub, todo, mem>> /\ at' = NextPhase(cmd, jr'[cmd])
    BY DEF PhaseEnd
  <2>2. at \in SetOf(Phases(cmd)) /\ mem.seen = {} /\ cmd \in Cmds
    BY <2>1 DEF FlowInv, TypeOK
  <2> QED BY <2>1, <2>2, Known DEF SetOf
<1>1. /\ cmd \in Cmds /\ at \in AllPhases /\ at \in SetOf(Phases(cmd)) /\ ~Completed(cmd, at)
      /\ \A j \in DOMAIN Phases(cmd) : Phases(cmd)[j] = at =>
            \A i \in DOMAIN Phases(cmd) : i < j => Completed(cmd, Phases(cmd)[i])
  BY <1>0, PhasePlace
<1>2. /\ jr' \in [Cmds -> Journal] /\ Others(cmd) /\ Marked(cmd, at, "completed")
      /\ jr'[cmd].status = jr[cmd].status /\ jr'[cmd].step = jr[cmd].step
      /\ jr'[cmd].map = IF at = "MERGE_MEMORY" THEN mem.map ELSE jr[cmd].map
  <2>1. jr' = [jr EXCEPT ![cmd] = JComplete(@, at, mem)]
    BY DEF PhaseEnd
  <2> QED BY <1>1, <2>1, CompleteWritten
<1>3. \A c \in Cmds, p \in AllPhases : jr'[c].phase[p] = IF c = cmd /\ p = at THEN "completed" ELSE jr[c].phase[p]
  BY <1>2 DEF Others, Marked
<1>4. jr'["merge"].step = jr["merge"].step /\ jr'["merge"].plan = jr["merge"].plan
  BY <1>1, <1>2 DEF Others, Marked, Cmds
<1>5. Reached(cmd)' /\ at' \in AllPhases \cup {"finish"}
  BY <1>0, <1>1, NextReached
<1>6. ControlTypes' /\ EndInv'
  BY <1>0, <1>2, <1>5 DEF ControlTypes, EndInv, EndsWith, TypeOK
<1>7. FlowInv'
  <2>1. \A c \in Cmds : jr'[c].status = "absent" => jr'[c] = NoJournal
    <3>1. jr[cmd].status = "absent" => jr[cmd].phase[at] = "none"
      BY <1>1, SMT DEF FlowInv, NoJournal, NewJournal, AllPhases
    <3>2. jr[cmd].phase[at] = "started"
      BY <1>0 DEF FlowInv
    <3> QED BY <1>2, <3>1, <3>2 DEF FlowInv, Others
  <2> QED BY <1>0, <1>5, <2>1 DEF FlowInv
<1>8. PhaseOrder'
  BY <1>1, <1>3, MarksInOrder
<1>9. StepOrder'
  <2>1. \A i, j \in DOMAIN Rewrites : i < j /\ jr'["merge"].step[Rewrites[j]] # "none" => jr'["merge"].step[Rewrites[i]] = "completed"
    BY <1>4 DEF StepOrder
  <2>2. ASSUME NEW p \in {"REWRITE_REFS", "REBUILD_INDEXES"}, NEW i \in DOMAIN Substeps(p)
        PROVE  /\ jr'["merge"].step[Substeps(p)[i]] # "none" => jr'["merge"].phase[p] # "none"
               /\ jr'["merge"].phase[p] = "completed" => jr'["merge"].step[Substeps(p)[i]] = "completed"
    <3>1. p \in AllPhases /\ "merge" \in Cmds
      BY PhaseLists, SMT DEF AllPhases, SetOf, Cmds
    <3>2. /\ jr["merge"].step[Substeps(p)[i]] # "none" => jr["merge"].phase[p] # "none"
          /\ jr["merge"].phase[p] = "completed" => jr["merge"].step[Substeps(p)[i]] = "completed"
      BY <2>2 DEF StepOrder
    <3>3. at = p => jr["merge"].step[Substeps(p)[i]] = "completed"
      BY <1>0, <2>2 DEF Open
    <3> QED BY <1>3, <1>4, <3>1, <3>2, <3>3
  <2> QED BY <2>1, <2>2 DEF StepOrder
<1>10. Kept
  <2>1. jr'["merge"].phase["MERGE_MEMORY"] = "completed" => jr'["merge"].map = Mapping
    <3>1. "MERGE_MEMORY" \in AllPhases /\ "merge" \in Cmds
      BY PhaseLists, SMT DEF AllPhases, SetOf, Cmds
    <3>2. cmd # "merge" => jr'["merge"].map = jr["merge"].map
      BY <1>2, <3>1 DEF Others
    <3> QED BY <1>1, <1>2, <1>3, <3>1, <3>2 DEF Mapping
  <2> QED BY <1>3, <1>4, <2>1 DEF Kept
<1>11. Grows
  <2>1. ASSUME NEW c \in Cmds, NEW p \in AllPhases, NEW x, Did(c, p, x)' PROVE Did(c, p, x)
    <3>1. ~Pending(x)
      BY <1>0, SMT DEF Pending
    <3> QED BY <1>0, <1>3, <2>1, <3>1 DEF Did
  <2>2. ASSUME NEW s \in AllSteps, NEW x, StepDid(s, x)' PROVE StepDid(s, x)
    BY <1>0, <1>4, <2>2, Known DEF StepDid
  <2> QED BY <2>1, <2>2 DEF Grows
<1>12. Lasts
  BY <1>2 DEF Lasts, Others, Cmds
<1> QED BY <1>6, <1>7, <1>8, <1>9, <1>10, <1>11, <1>12 DEF Progress

(* Every step of the system.                                                *)
LEMMA StepProgress ==
    ASSUME IInv, [Next]_vars
    PROVE  Controls /\ Progress
<1>1. Controls
  BY ControlStep DEF IInv
<1> QED BY <1>1, OpensProgress, StartProgress, SubStartProgress, SubEndProgress, PhaseEndProgress, FinishProgress,
           FailsProgress, DiesProgress, WorksProgress, StaysProgress DEF Controls

(* So no step takes a completed mark back or changes what came with it.     *)
LEMMA MarksKept ==
    ASSUME IInv, [Next]_vars
    PROVE  Kept
BY StepProgress DEF Progress
=============================================================================
