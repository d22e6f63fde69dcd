----------------------- MODULE AnimaMergeMemoryProofs -----------------------
(* Proofs about AnimaMerge, second part: what a step does to the memory, to *)
(* what the process keeps of it and to the files it shares with others.     *)
EXTENDS AnimaMergeFlowProofs

(* Zenon takes the leaves; those with arithmetic, sequences or records cite *)
(* SMT.                                                                     *)
USE Zenon DEF Completed, StepDone

(* Where the process is while it works on an item.                          *)
Unit == IF sub = "-" THEN at ELSE sub
InPhase(p) == sub = "-" /\ at = p /\ entered /\ cmd \in Cmds /\ p \in SetOf(Phases(cmd)) /\ jr[cmd].phase[p] = "started"

(* A process whose unit is a phase is inside that phase, which the journal  *)
(* marks as started.                                                        *)
LEMMA UnitPhase ==
    ASSUME IInv, entered, Unit \in AllPhases
    PROVE  InPhase(Unit)
<1> USE DEF IInv
<1>1. sub = "-" /\ Unit = at
  BY Apart DEF Unit, TypeOK
<1>2. at \in SetOf(Phases(cmd)) /\ jr[cmd].phase[at] = "started"
  BY DEF FlowInv
<1>3. cmd \in Cmds
  <2>1. cmd # "idle"
    BY DEF FlowInv
  <2> QED BY <2>1 DEF TypeOK
<1> QED BY <1>1, <1>2, <1>3 DEF InPhase

(* A process inside a substep is inside its phase.                          *)
LEMMA UnitStep ==
    ASSUME IInv, sub \in AllSteps
    PROVE  /\ cmd = "merge" /\ entered /\ ~StepDone(sub)
           /\ sub \in SetOf(Rewrites) => at = "REWRITE_REFS" /\ Mark("REWRITE_REFS") = "started"
           /\ sub \in SetOf(Rebuilds) => at = "REBUILD_INDEXES" /\ Mark("REBUILD_INDEXES") = "started"
<1> USE DEF IInv
<1>1. sub # "-"
  BY Known
<1>2. cmd = "merge" /\ entered /\ at \in {"REWRITE_REFS", "REBUILD_INDEXES"} /\ sub \in SetOf(Substeps(at)) /\ ~StepDone(sub)
  BY <1>1, StepPlace
<1>3. jr["merge"].phase[at] = "started"
  BY <1>2 DEF FlowInv
<1>4. /\ sub \in SetOf(Rewrites) => at = "REWRITE_REFS"
      /\ sub \in SetOf(Rebuilds) => at = "REBUILD_INDEXES"
  BY <1>2, Distinct DEF SetOf, Substeps
<1> QED BY <1>2, <1>3, <1>4 DEF Mark

(* Which action works on an item.                                           *)
LEMMA BodyUnit ==
    ASSUME IInv, Body
    PROVE  /\ Unit = "QUIESCE" => QuiesceDisable \/ QuiesceRelease
           /\ Unit = "SNAPSHOT" => \E f \in Files : SnapshotFile(f)
           /\ Unit = "MERGE_MEMORY" => \E f \in Files : MergeGenerated(f) \/ MergeFile(f)
           /\ Unit = "memory_references" => \E f \in Files : RewriteDocument(f)
           /\ Unit = "inbox" => InboxNext \/ \E m \in Messages : InboxCopy(m) \/ InboxUnlink(m)
           /\ Unit = "ancillary_state" => RewriteAncillaryState \/ SyncLive
           /\ Unit \in SetOf(Rebuilds) => Rebuild
           /\ Unit = "VERIFY" => VerifyScan \/ SmokeCheck
           /\ Unit = "PREFLIGHT" => FinalizeReady
<1>0. \A s \in SetOf(Rebuilds) : s \in {"vectordb", "entities", "bm25", "graph_cache", "neo4j"}
  BY StepLists, SMT DEF SetOf
<1>1. ASSUME NEW u, NEW x, Doing(u, x) PROVE Unit = u
  BY <1>1 DEF Doing, Unit
<1>2. (QuiesceDisable \/ QuiesceRelease) => Unit = "QUIESCE"
  BY <1>1 DEF QuiesceDisable, QuiesceRelease
<1>3. \A f \in Files : /\ SnapshotFile(f) => Unit = "SNAPSHOT"
                       /\ MergeGenerated(f) \/ MergeFile(f) => Unit = "MERGE_MEMORY"
                       /\ RewriteDocument(f) => Unit = "memory_references"
  BY <1>1 DEF SnapshotFile, MergeGenerated, MergeFile, RewriteDocument
<1>4. ASSUME NEW u, u # "-", Retarget(u) PROVE Unit = u
  BY <1>4 DEF Retarget, Unit
<1>5. /\ RewriteOrganization => Unit = "organization"
      /\ RewriteMessaging => Unit = "messaging"
      /\ RewriteTasks \/ RewriteTaskboard => Unit = "task_references"
      /\ RewriteAncillaryState \/ SyncLive => Unit = "ancillary_state"
  BY <1>1, <1>4 DEF RewriteOrganization, RewriteMessaging, RewriteTasks, RewriteTaskboard, RewriteAncillaryState, SyncLive
<1>6. /\ PlanInbox => Unit = "inbox_mapping"
      /\ InboxNext => Unit = "inbox"
      /\ \A m \in Messages : InboxCopy(m) \/ InboxUnlink(m) => Unit = "inbox"
      /\ InboxTaskReferences => Unit = "inbox_task_references"
  <2>1. InboxNext => Unit = "inbox"
    BY DEF InboxNext, Unit
  <2> QED BY <1>1, <2>1 DEF PlanInbox, InboxCopy, InboxUnlink, InboxTaskReferences
<1>7. Rebuild => Unit \in {"vectordb", "entities", "bm25", "graph_cache", "neo4j"}
  BY <1>0, <1>1 DEF Rebuild
<1>8. /\ VerifyScan \/ SmokeCheck => Unit = "VERIFY"
      /\ Tombstone => Unit = "TOMBSTONE"
      /\ FinalizeReady => Unit = "PREFLIGHT"
  BY <1>1 DEF VerifyScan, SmokeCheck, Tombstone, FinalizeReady
<1>9. /\ ArchiveSource => Unit = "ARCHIVE_SOURCE"
      /\ RemoveSourceConfig => Unit = "REMOVE_CONFIG"
      /\ PurgeResiduals => Unit = "PURGE_RESIDUALS"
      /\ VerifyRemoval => Unit = "VERIFY_REMOVAL"
  BY <1>1 DEF ArchiveSource, RemoveSourceConfig, PurgeResiduals, VerifyRemoval
<1>10. CASE Unit \notin {"vectordb", "entities", "bm25", "graph_cache", "neo4j"}
  BY <1>0, <1>2, <1>3, <1>5, <1>6, <1>7, <1>8, <1>9, <1>10 DEF Body
<1>11. CASE Unit \in {"vectordb", "entities", "bm25", "graph_cache", "neo4j"}
  BY <1>2, <1>3, <1>5, <1>6, <1>8, <1>9, <1>11 DEF Body
<1> QED BY <1>10, <1>11

(* Only the body of a phase works on items.                                 *)
LEMMA WorksBody ==
    ASSUME IInv, [Next]_vars, Works
    PROVE  Body
<1> USE DEF IInv
<1>1. cmd # "idle" /\ cmd' = cmd /\ entered /\ todo # <<>> /\ todo' = Tail(todo) /\ sub' = sub /\ todo \in Seq(Items)
  BY DEF Works, Advance, TypeOK
<1>2. todo' # todo
  BY <1>1, SMT
<1>3. CASE Outside \/ NewDay \/ UNCHANGED vars
  <2>1. UNCHANGED <<jr, cmdVars>>
    BY <1>3 DEF Outside, ServerStart, ServerStop, CallBack, WindowPasses, AnimaStart, AnimaStop, ServerSave, Deliver,
       Handle, TargetWrite, NewDay, vars
  <2> QED BY <1>2, <2>1 DEF cmdVars
<1>4. CASE Merge \/ Finalize \/ Fault
  BY <1>1, <1>4 DEF Merge, Finalize, Run, Fault, Raise, Failed, Crash, CrashInCopy, Stop
<1>5. CASE Control
  <2>1. ~SubStart
    <3>1. SubStart => sub = "-" /\ sub' \in AllSteps
      BY NextStep, Known DEF SubStart, Substeps
    <3> QED BY <1>1, <3>1, Known
  <2>2. ~Finish
    BY <1>1 DEF Finish, Stop
  <2> QED BY <1>1, <1>5, <2>1, <2>2 DEF Control, PhaseStart, SubEnd, PhaseEnd
<1> QED BY <1>3, <1>4, <1>5 DEF Next, Step

(* Which actions change the files, apart from the journals.                 *)
MemoryActs ==
    \/ \E f \in Files : \/ SnapshotFile(f) \/ MergeGenerated(f) \/ MergeFile(f) \/ RewriteDocument(f)
                        \/ CrashInCopy(f) \/ TargetWrite(f)
    \/ Rebuild
Retargets == \E u \in {"organization", "messaging", "task_references", "ancillary_state"} : Retarget(u)
RefActs == Retargets \/ SyncLive \/ PurgeResiduals \/ \E s \in Cached : ServerSave(s)
LiveActs ==
    \/ QuiesceDisable \/ SmokeCheck \/ Tombstone \/ ServerStart \/ ServerStop \/ CallBack
    \/ \E n \in Animas : AnimaStart(n) \/ AnimaStop(n)
MailActs == \E m \in Messages : InboxCopy(m) \/ InboxUnlink(m) \/ Deliver(m) \/ \E n \in Animas : Handle(n, m)
EndActs == ArchiveSource \/ RemoveSourceConfig \/ WindowPasses
Change ==
    \/ UNCHANGED <<memVars, refVars, liveVars, mailVars, endVars>>
    \/ MemoryActs /\ UNCHANGED <<refVars, liveVars, mailVars, endVars>>
    \/ RefActs /\ UNCHANGED <<memVars, liveVars, mailVars, endVars>>
    \/ LiveActs /\ UNCHANGED <<memVars, refs, mailVars, endVars>> /\ (ServerStart \/ UNCHANGED cache)
    \/ MailActs /\ UNCHANGED <<memVars, refVars, liveVars, endVars>>
    \/ EndActs /\ UNCHANGED <<memVars, refVars, liveVars, mailVars>>

(* Which variables each step leaves alone.                                  *)
LEMMA StepChange ==
    ASSUME [Next]_vars
    PROVE  Change
<1>1. CASE Merge \/ Finalize \/ NewDay \/ Raise \/ Crash \/ UNCHANGED vars
  BY <1>1 DEF Merge, Finalize, Run, NewDay, Raise, Crash, vars, Change
<1>2. CASE Control
  BY <1>2 DEF Control, PhaseStart, SubStart, SubEnd, PhaseEnd, Finish, Change
<1>3. CASE QuiesceRelease \/ VerifyScan \/ FinalizeReady \/ VerifyRemoval \/ InboxTaskReferences \/ PlanInbox \/ InboxNext
  BY <1>3 DEF QuiesceRelease, VerifyScan, FinalizeReady, VerifyRemoval, InboxTaskReferences, PlanInbox, InboxNext, Change
<1>4. ASSUME NEW f \in Files, SnapshotFile(f) \/ MergeGenerated(f) \/ MergeFile(f) \/ RewriteDocument(f) \/ CrashInCopy(f) \/ TargetWrite(f)
      PROVE  Change
  <2>1. UNCHANGED <<refVars, liveVars, mailVars, endVars>>
    BY <1>4 DEF SnapshotFile, MergeGenerated, MergeFile, RewriteDocument, CrashInCopy, TargetWrite
  <2> QED BY <1>4, <2>1 DEF Change, MemoryActs
<1>5. CASE Rebuild
  BY <1>5 DEF Rebuild, Change, MemoryActs
<1>6. CASE RewriteOrganization \/ RewriteMessaging \/ RewriteTasks \/ RewriteTaskboard \/ RewriteAncillaryState
  <2>1. PICK u \in {"organization", "messaging", "task_references", "ancillary_state"} : Retarget(u)
    BY <1>6 DEF RewriteOrganization, RewriteMessaging, RewriteTasks, RewriteTaskboard, RewriteAncillaryState
  <2>2. UNCHANGED <<memVars, liveVars, mailVars, endVars>>
    BY <2>1 DEF Retarget
  <2> QED BY <2>1, <2>2 DEF Change, RefActs, Retargets
<1>7. CASE SyncLive \/ PurgeResiduals \/ \E s \in Cached : ServerSave(s)
  <2>1. UNCHANGED <<memVars, liveVars, mailVars, endVars>>
    BY <1>7 DEF SyncLive, PurgeResiduals, ServerSave
  <2> QED BY <1>7, <2>1 DEF Change, RefActs
<1>8. CASE QuiesceDisable \/ SmokeCheck \/ Tombstone \/ ServerStop \/ CallBack \/ \E n \in Animas : AnimaStart(n) \/ AnimaStop(n)
  <2>1. UNCHANGED <<memVars, refVars, mailVars, endVars>>
    BY <1>8 DEF QuiesceDisable, SmokeCheck, Tombstone, ServerStop, CallBack, AnimaStart, AnimaStop
  <2> QED BY <1>8, <2>1 DEF Change, LiveActs, refVars
<1>9. CASE ServerStart
  BY <1>9 DEF ServerStart, Change, LiveActs
<1>10. ASSUME NEW m \in Messages, InboxCopy(m) \/ InboxUnlink(m) \/ Deliver(m) \/ \E n \in Animas : Handle(n, m)
       PROVE  Change
  <2>1. UNCHANGED <<memVars, refVars, liveVars, endVars>>
    BY <1>10 DEF InboxCopy, InboxUnlink, Deliver, Handle
  <2> QED BY <1>10, <2>1 DEF Change, MailActs
<1>11. CASE ArchiveSource \/ RemoveSourceConfig \/ WindowPasses
  BY <1>11 DEF ArchiveSource, RemoveSourceConfig, WindowPasses, Change, EndActs
<1>12. CASE Body
  BY <1>3, <1>4, <1>5, <1>6, <1>7, <1>8, <1>10, <1>11, <1>12 DEF Body
<1>13. CASE Outside \/ Fault
  BY <1>1, <1>4, <1>7, <1>8, <1>9, <1>10, <1>11, <1>13 DEF Outside, Fault
<1> QED BY <1>1, <1>2, <1>12, <1>13 DEF Next, Step

-----------------------------------------------------------------------------
(* The target's memory.                                                     *)
AtMemory ==
    /\ cmd = "merge" /\ entered /\ sub = "-" /\ at = "MERGE_MEMORY" /\ ~Completed("merge", "MERGE_MEMORY")
    /\ Completed("merge", "QUIESCE") /\ Completed("merge", "SNAPSHOT")
AtCitations ==
    /\ cmd = "merge" /\ sub = "memory_references" /\ Mark("REWRITE_REFS") = "started" /\ Completed("merge", "MERGE_MEMORY")
    /\ Completed("merge", "QUIESCE") /\ Completed("merge", "SNAPSHOT")

(* Files are copied only in MERGE_MEMORY ...                                *)
LEMMA MergesMemory ==
    ASSUME IInv, NEW f, Doing("MERGE_MEMORY", f)
    PROVE  AtMemory
<1>1. InPhase("MERGE_MEMORY")
  BY UnitPhase, Apart DEF Doing, Unit
<1>2. cmd = "merge" /\ Mark("MERGE_MEMORY") = "started"
  BY <1>1, Apart DEF InPhase, Mark
<1>3. PhaseOrder
  BY DEF IInv
<1> QED BY <1>1, <1>2, <1>3, MergeOrder DEF InPhase, AtMemory, Mark

(* ... and rewritten only in REWRITE_REFS, after it.                        *)
LEMMA RewritesCitations ==
    ASSUME IInv, NEW f, Doing("memory_references", f)
    PROVE  AtCitations
<1>1. "memory_references" \in SetOf(Rewrites) /\ "memory_references" \in AllSteps /\ "memory_references" \notin AllPhases
  BY StepLists, Apart, SMT DEF SetOf, AllSteps
<1>2. sub = "memory_references"
  <2>1. Unit = "memory_references" /\ entered
    BY DEF Doing, Unit
  <2>2. at \in SetOf(Phases(cmd)) /\ cmd \in Cmds
    BY <2>1 DEF IInv, FlowInv, TypeOK
  <2>3. at \in AllPhases
    BY <2>2, Known DEF SetOf
  <2> QED BY <1>1, <2>1, <2>3 DEF Unit
<1>3. cmd = "merge" /\ Mark("REWRITE_REFS") = "started"
  BY <1>1, <1>2, UnitStep
<1>4. PhaseOrder
  BY DEF IInv
<1> QED BY <1>2, <1>3, <1>4, MergeOrder DEF AtCitations

(* The copies always find a name: one number more than there were faults.   *)
LEMMA FreeName ==
    ASSUME IInv, NEW f \in Files, Doing("MERGE_MEMORY", f)
    PROVE  <<f, faults + 1>> \in Names /\ Fits(<<f, faults + 1>>)
<1> USE DEF IInv
<1>1. faults \in Nat /\ faults <= MaxFaults /\ MaxFaults \in Nat
  BY BoundsAssumption, SMT DEF TypeOK
<1>2. <<f, faults + 1>> \in Names
  BY <1>1, SMT DEF Names
<1>3. ~Completed("merge", "MERGE_MEMORY")
  BY MergesMemory DEF AtMemory
<1>4. <<f, faults + 1>>[1] = f /\ <<f, faults + 1>>[2] # 0 /\ ~(<<f, faults + 1>>[2] <= faults)
  BY <1>1, SMT
<1>5. tgt[<<f, faults + 1>>] \in {Absent, Torn, Doc(f)} /\ tgt[<<f, faults + 1>>] # Torn
  BY <1>2, <1>3, <1>4 DEF NameInv
<1> QED BY <1>2, <1>5 DEF Fits

(* The name _copy_collision_safe chooses is one of the file's own, and not  *)
(* beyond the free one.                                                     *)
LEMMA NameTaken ==
    ASSUME IInv, NEW f \in Files, Doing("MERGE_MEMORY", f), NEW n \in Names, Destination(f, n)
    PROVE  n[1] = f /\ n[2] <= faults + 1 /\ (f \notin Generated => Fits(n))
<1>1. faults \in Nat /\ day \in Nat /\ day <= faults /\ n[2] \in Nat /\ First(f) \in {0, 1}
  BY BoundsAssumption, SMT DEF IInv, TypeOK, Names, First
<1>2. CASE f \in Generated
  BY <1>1, <1>2, SMT DEF Destination
<1>3. CASE f \notin Generated
  <2>1. n[1] = f /\ Fits(n) /\ \A k \in First(f) .. n[2] - 1 : ~Fits(<<f, k>>)
    BY <1>3 DEF Destination
  <2>2. Fits(<<f, faults + 1>>)
    BY FreeName
  <2>3. ~(faults + 1 \in First(f) .. n[2] - 1)
    BY <2>1, <2>2
  <2> QED BY <1>1, <2>1, <2>3, SMT
<1> QED BY <1>2, <1>3

(* What a step writes into it.                                              *)
Puts(n, v) ==
    /\ n \in Names /\ tgt' \in [Names -> Content] /\ tgt'[n] = v
    /\ \A k \in Names \ {n} : tgt'[k] = tgt[k]
Copies(f, n) ==
    /\ AtMemory /\ n[1] = f /\ Fits(n) /\ Puts(n, Doc(f)) /\ UNCHANGED <<jr, own, snap, idx, faults, day>>
    /\ mem' \in [map : Maps, plan : SUBSET Messages, seen : SUBSET Messages]
    /\ f \in DOMAIN mem'.map /\ mem'.map[f] = n /\ mem'.seen = mem.seen
    /\ \A g \in DOMAIN mem.map : g \in DOMAIN mem'.map /\ (g # f => mem'.map[g] = mem.map[g])
Tears(f, n) ==
    /\ AtMemory /\ n[1] = f /\ n[2] <= faults + 1 /\ tgt[n] = Absent /\ Puts(n, Torn)
    /\ faults' = faults + 1 /\ faults < MaxFaults /\ cmd' = "idle" /\ mem' = NoArtifacts /\ UNCHANGED <<jr, own, snap, idx, day>>
Cites(f) ==
    LET map == jr["merge"].map
    IN  /\ AtCitations /\ Head(todo) = f /\ UNCHANGED <<jr, mem, own, snap, idx, faults, day>>
        /\ map \in Maps /\ (\A g \in Files : g \in DOMAIN map /\ tgt[map[g]].of = g)
        /\ \/ f \in Generated /\ UNCHANGED tgt
           \/ Puts(map[f], [of |-> f, ref |-> map[Ref[f]]])
Takes(f) ==
    LET n == <<f, 0>>
    IN  /\ alive["target"] /\ tgt[n] = Absent /\ Puts(n, Own)
        /\ own' = IF Completed("merge", "QUIESCE") THEN own ELSE tgt'
        /\ UNCHANGED <<jr, cmdVars, snap, idx, faults, day>>

(* Writing one name leaves the others alone.                                *)
LEMMA PutsOne ==
    ASSUME TypeOK, NEW n \in Names, NEW v \in Content, tgt' = [tgt EXCEPT ![n] = v]
    PROVE  Puts(n, v)
  BY DEF TypeOK, Puts

(* Copying a file fails without a trace or puts its content under a name    *)
(* that fits.                                                               *)
LEMMA CopyStep ==
    ASSUME IInv, NEW f \in Files, MergeGenerated(f) \/ MergeFile(f)
    PROVE  (Failed /\ UNCHANGED memVars) \/ \E n \in Names : Copies(f, n)
<1> USE DEF IInv
<1>1. Doing("MERGE_MEMORY", f) /\ UNCHANGED <<own, snap, idx, faults, day>>
  BY DEF MergeGenerated, MergeFile
<1>2. AtMemory
  BY <1>1, MergesMemory
<1>0. \A n \in Names : Destination(f, n) => n[1] = f /\ n[2] <= faults + 1 /\ (f \notin Generated => Fits(n))
  BY <1>1, NameTaken
<1>3. PICK n \in Names : /\ n[1] = f /\ n[2] <= faults + 1
                         /\ (Failed /\ UNCHANGED tgt) \/ (Fits(n) /\ Copy(f, n))
  BY <1>0 DEF MergeGenerated, MergeFile
<1>4. (Failed /\ UNCHANGED memVars) \/ (Fits(n) /\ Copy(f, n))
  BY <1>1, <1>3 DEF memVars
<1>5. ASSUME Fits(n), Copy(f, n) PROVE Copies(f, n)
  <2>1. Puts(n, Doc(f))
    BY <1>3, <1>5, ContentTypes, PutsOne DEF Copy
  <2>2. mem.map \in Maps /\ mem \in [map : Maps, plan : SUBSET Messages, seen : SUBSET Messages]
    BY DEF TypeOK
  <2> DEFINE h == [g \in DOMAIN mem.map \cup {f} |-> IF g = f THEN n ELSE mem.map[g]]
  <2>3. h \in Maps /\ DOMAIN h = DOMAIN mem.map \cup {f} /\ \A g \in DOMAIN h : h[g] = IF g = f THEN n ELSE mem.map[g]
    <3>1. PICK D \in SUBSET Files : mem.map \in [D -> Names]
      BY <2>2 DEF Maps
    <3>2. \A g \in DOMAIN mem.map : mem.map[g][1] = g
      BY <2>2 DEF Maps
    <3>3. h \in [D \cup {f} -> Names]
      BY <1>3, <3>1
    <3>4. D \cup {f} \in SUBSET Files
      OBVIOUS
    <3> QED BY <1>3, <3>2, <3>3, <3>4 DEF Maps
  <2> HIDE DEF h
  <2>4. mem' = [mem EXCEPT !.map = h]
    BY <1>5 DEF Copy, h
  <2>5. mem'.map = h /\ mem'.seen = mem.seen /\ mem' \in [map : Maps, plan : SUBSET Messages, seen : SUBSET Messages]
    BY <2>2, <2>3, <2>4
  <2>6. jr' = jr
    BY <1>5 DEF Copy, Advance
  <2> QED BY <1>1, <1>2, <1>3, <1>5, <2>1, <2>3, <2>5, <2>6 DEF Copies
<1> QED BY <1>3, <1>4, <1>5

(* A mapping gives a source file one of its own names.                      *)
LEMMA MapValues ==
    ASSUME NEW map \in Maps, NEW f \in DOMAIN map
    PROVE  map[f] \in Names /\ map[f][1] = f /\ f \in Files
  BY SMT DEF Maps

(* A kill during a copy tears at most the name it was writing.              *)
LEMMA TearStep ==
    ASSUME IInv, NEW f \in Files, CrashInCopy(f)
    PROVE  \E n \in Names : Tears(f, n)
<1>1. Doing("MERGE_MEMORY", f)
  BY DEF CrashInCopy
<1>2. AtMemory
  BY <1>1, MergesMemory
<1>3. PICK n \in Names : Destination(f, n) /\ tgt[n] = Absent /\ tgt' = [tgt EXCEPT ![n] = Torn]
  BY DEF CrashInCopy
<1>4. n[1] = f /\ n[2] <= faults + 1
  BY <1>1, <1>3, NameTaken
<1>5. Puts(n, Torn)
  BY <1>3, ContentTypes, PutsOne DEF IInv
<1> QED BY <1>2, <1>3, <1>4, <1>5 DEF CrashInCopy, Stop, Tears

(* Rewriting a document changes its citation and only in the copy.          *)
LEMMA CiteStep ==
    ASSUME IInv, NEW f \in Files, RewriteDocument(f)
    PROVE  Cites(f)
<1> DEFINE map == jr["merge"].map
<1>1. Doing("memory_references", f) /\ UNCHANGED <<jr, mem, own, snap, idx, faults, day>> /\ Head(todo) = f
  BY DEF RewriteDocument, Advance, Doing
<1>2. AtCitations
  BY <1>1, RewritesCitations
<1>3. map \in Maps
  BY DEF IInv, TypeOK, Journal, Cmds
<1>4. \A g \in Files : g \in DOMAIN map /\ tgt[map[g]].of = g
  BY <1>2 DEF IInv, MapInv, Did, Mapping, AtCitations
<1>5. tgt' = IF f \in Generated \/ tgt[map[f]].of # f THEN tgt ELSE [tgt EXCEPT ![map[f]].ref = map[Ref[f]]]
  BY DEF RewriteDocument
<1> HIDE DEF map
<1>6. CASE f \notin Generated
  <2>1. map[f] \in Names /\ map[Ref[f]] \in Names /\ tgt[map[f]].of = f
    BY <1>3, <1>4, MapValues, RefAssumption
  <2>2. tgt \in [Names -> Content]
    BY DEF IInv, TypeOK
  <2>3. [tgt[map[f]] EXCEPT !.ref = map[Ref[f]]] = [of |-> f, ref |-> map[Ref[f]]]
    BY <2>1, <2>2, SMT DEF Content
  <2>4. [of |-> f, ref |-> map[Ref[f]]] \in Content
    BY <2>1 DEF Content
  <2>5. tgt' = [tgt EXCEPT ![map[f]] = [of |-> f, ref |-> map[Ref[f]]]]
    BY <1>5, <1>6, <2>1, <2>2, <2>3
  <2>6. Puts(map[f], [of |-> f, ref |-> map[Ref[f]]])
    BY <2>1, <2>4, <2>5, PutsOne DEF IInv
  <2> QED BY <1>1, <1>2, <1>3, <1>4, <2>6 DEF Cites, map
<1>7. CASE f \in Generated
  BY <1>1, <1>2, <1>3, <1>4, <1>5, <1>7 DEF Cites, map
<1> QED BY <1>6, <1>7

(* The running target writes a file of its own only where nothing is.       *)
LEMMA TakeStep ==
    ASSUME IInv, NEW f \in Files, TargetWrite(f)
    PROVE  Takes(f)
<1>1. Puts(<<f, 0>>, Own)
  BY ContentTypes, PutsOne DEF TargetWrite, IInv
<1> QED BY <1>1 DEF TargetWrite, Takes

(* All steps that write memory, snapshot or indexes.                        *)
LEMMA MemoryStep ==
    ASSUME IInv, [Next]_vars
    PROVE  \/ UNCHANGED memVars
           \/ \E f \in Files : SnapshotFile(f) \/ Cites(f) \/ Takes(f) \/ \E n \in Names : Copies(f, n) \/ Tears(f, n)
           \/ Rebuild
<1>1. UNCHANGED memVars \/ MemoryActs
  BY StepChange DEF Change
<1> QED BY <1>1, CopyStep, TearStep, CiteStep, TakeStep DEF MemoryActs

-----------------------------------------------------------------------------
(* Types of what is not control.                                            *)
LEMMA ArtifactStep ==
    ASSUME IInv, [Next]_vars
    PROVE  /\ mem' \in Artifacts
           /\ (mem' = NoArtifacts /\ cmd' = "idle") \/ (\E f \in Files, n \in Names : Copies(f, n)) \/ mem'.map = mem.map
           /\ \/ mem'.seen \subseteq mem.seen
              \/ \E m \in Messages : (InboxCopy(m) \/ InboxUnlink(m)) /\ mem'.seen = mem.seen \cup {m}
<1> DEFINE Goal == /\ mem' \in Artifacts
                   /\ (mem' = NoArtifacts /\ cmd' = "idle") \/ (\E f \in Files, n \in Names : Copies(f, n)) \/ mem'.map = mem.map
                   /\ \/ mem'.seen \subseteq mem.seen
                      \/ \E m \in Messages : (InboxCopy(m) \/ InboxUnlink(m)) /\ mem'.seen = mem.seen \cup {m}
<1>0. mem \in Artifacts
  BY DEF IInv, TypeOK, Artifacts
<1>1. UNCHANGED mem \/ Stop => Goal
  BY <1>0, NoArtifactsType DEF Stop
<1>2. CASE Merge \/ Finalize \/ Control \/ Fault \/ Outside \/ NewDay \/ UNCHANGED vars
  <2>1. CASE Merge \/ Finalize \/ Control \/ Fault
    BY <1>1, <2>1 DEF Merge, Finalize, Run, Control, PhaseStart, SubStart, SubEnd, PhaseEnd, Finish, Fault, Raise, Failed, Crash, CrashInCopy
  <2>2. CASE Outside \/ NewDay \/ UNCHANGED vars
    <3>1. UNCHANGED cmdVars
      BY <2>2 DEF Outside, ServerStart, ServerStop, CallBack, WindowPasses, AnimaStart, AnimaStop, ServerSave, Deliver,
         Handle, TargetWrite, NewDay, vars
    <3> QED BY <1>1, <3>1 DEF cmdVars
  <2> QED BY <1>2, <2>1, <2>2
<1>3. CASE QuiesceDisable \/ SmokeCheck \/ Tombstone \/ SyncLive \/ ArchiveSource \/ RemoveSourceConfig \/ PurgeResiduals \/ Rebuild
  BY <1>1, <1>3 DEF QuiesceDisable, SmokeCheck, Tombstone, SyncLive, ArchiveSource, RemoveSourceConfig, PurgeResiduals, Rebuild
<1>4. CASE QuiesceRelease \/ InboxTaskReferences \/ VerifyScan \/ FinalizeReady \/ VerifyRemoval
  BY <1>1, <1>4 DEF QuiesceRelease, InboxTaskReferences, VerifyScan, FinalizeReady, VerifyRemoval, Failed
<1>5. ASSUME NEW f \in Files, SnapshotFile(f) \/ RewriteDocument(f) PROVE Goal
  BY <1>1, <1>5 DEF SnapshotFile, RewriteDocument
<1>6. ASSUME NEW f \in Files, MergeGenerated(f) \/ MergeFile(f) PROVE Goal
  <2>1. CASE Failed
    BY <1>1, <2>1 DEF Failed
  <2>2. CASE \E n \in Names : Copies(f, n)
    BY <2>2 DEF Copies, Artifacts
  <2> QED BY <1>6, <2>1, <2>2, CopyStep
<1>7. CASE RewriteOrganization \/ RewriteMessaging \/ RewriteTasks \/ RewriteTaskboard \/ RewriteAncillaryState
  BY <1>1, <1>7 DEF RewriteOrganization, RewriteMessaging, RewriteTasks, RewriteTaskboard, RewriteAncillaryState, Retarget
<1>8. CASE PlanInbox \/ InboxNext
  <2>1. box["source"] \in SUBSET Messages
    BY DEF IInv, TypeOK, Animas
  <2> QED BY <1>0, <1>8, <2>1 DEF PlanInbox, InboxNext, Artifacts
<1>9. ASSUME NEW m \in Messages, InboxCopy(m) \/ InboxUnlink(m) PROVE Goal
  <2>1. Failed \/ mem' = [mem EXCEPT !.seen = @ \cup {m}]
    BY <1>9 DEF InboxCopy, InboxUnlink
  <2>2. CASE Failed
    BY <1>1, <2>2 DEF Failed
  <2>3. CASE mem' = [mem EXCEPT !.seen = @ \cup {m}]
    <3>1. mem' \in Artifacts /\ mem'.map = mem.map /\ mem'.seen = mem.seen \cup {m}
      BY <1>0, <2>3 DEF Artifacts
    <3> QED BY <1>9, <3>1
  <2> QED BY <2>1, <2>2, <2>3
<1>10. CASE Body
  BY <1>3, <1>4, <1>5, <1>6, <1>7, <1>8, <1>9, <1>10 DEF Body
<1> QED BY <1>2, <1>10 DEF Next, Step

(* The types of the memory, ...                                             *)
LEMMA MemoryTypes ==
    ASSUME IInv, [Next]_vars
    PROVE  /\ tgt' \in [Names -> Content] /\ own' \in [Names -> Content] /\ snap' \in [Names -> Content]
           /\ idx' \in [SetOf(Rebuilds) -> UNION {[D -> Content] : D \in SUBSET Names}]
<1>0. /\ tgt \in [Names -> Content] /\ own \in [Names -> Content] /\ snap \in [Names -> Content]
      /\ idx \in [SetOf(Rebuilds) -> UNION {[D -> Content] : D \in SUBSET Names}]
  BY DEF IInv, TypeOK
<1>1. CASE UNCHANGED memVars
  BY <1>0, <1>1 DEF memVars
<1>2. ASSUME NEW f \in Files, SnapshotFile(f) PROVE tgt' = tgt /\ own' = own /\ idx' = idx /\ snap' \in [Names -> Content]
  BY <1>0, <1>2 DEF SnapshotFile
<1>3. ASSUME NEW f \in Files, Cites(f)
      PROVE  UNCHANGED <<own, snap, idx>> /\ tgt' \in [Names -> Content]
  BY <1>0, <1>3 DEF Cites, Puts
<1>4. ASSUME NEW f \in Files, Takes(f) PROVE UNCHANGED <<snap, idx>> /\ tgt' \in [Names -> Content] /\ (own' = own \/ own' = tgt')
  BY <1>4 DEF Takes, Puts
<1>5. ASSUME NEW f \in Files, NEW n \in Names, Copies(f, n) \/ Tears(f, n)
      PROVE  UNCHANGED <<own, snap, idx>> /\ tgt' \in [Names -> Content]
  BY <1>5 DEF Copies, Tears, Puts
<1>6. CASE Rebuild
  <2>1. Memory \in [{n \in Names : tgt[n] # Absent} -> Content] /\ {n \in Names : tgt[n] # Absent} \in SUBSET Names
    BY <1>0 DEF Memory
  <2>2. Memory \in UNION {[D -> Content] : D \in SUBSET Names}
    BY <2>1
  <2>3. idx' = [idx EXCEPT ![sub] = Memory] /\ UNCHANGED <<tgt, own, snap>>
    BY <1>6 DEF Rebuild
  <2> HIDE DEF Memory
  <2> QED BY <1>0, <2>2, <2>3
<1> QED BY <1>0, <1>1, <1>2, <1>3, <1>4, <1>5, <1>6, MemoryStep

(* ... of what is shared with the server and the animas, ...                *)
LEMMA OtherTypes ==
    ASSUME IInv, [Next]_vars
    PROVE  /\ refs' \in [Surfaces -> Animas] /\ cache' \in [Cached -> Animas]
           /\ server' \in BOOLEAN /\ enabled' \in [Animas -> BOOLEAN] /\ alive' \in [Animas -> BOOLEAN]
           /\ unsent' \in SUBSET Messages /\ box' \in [Animas -> SUBSET Messages] /\ handled' \in [Messages -> Nat]
           /\ dir' \in {"animas", "archive"} /\ entry' \in BOOLEAN /\ over' \in BOOLEAN /\ disturbed' \in BOOLEAN
<1> USE DEF IInv
<1>1. refs' \in [Surfaces -> Animas] /\ cache' \in [Cached -> Animas]
  <2>0. refs \in [Surfaces -> Animas] /\ cache \in [Cached -> Animas] /\ Cached \subseteq Surfaces /\ "target" \in Animas
    BY DEF TypeOK, Cached, Surfaces, Animas
  <2>1. CASE UNCHANGED refVars
    BY <2>0, <2>1 DEF refVars
  <2>2. CASE ServerStart
    BY <2>0, <2>2 DEF ServerStart
  <2>3. CASE RefActs
    <3>1. CASE Retargets
      BY <2>0, <3>1 DEF Retargets, Retarget
    <3>2. CASE SyncLive
      BY <2>0, <3>2 DEF SyncLive
    <3>3. CASE PurgeResiduals
      BY <2>0, <3>3 DEF PurgeResiduals
    <3>4. ASSUME NEW s \in Cached, ServerSave(s) PROVE refs' \in [Surfaces -> Animas] /\ cache' = cache
      BY <2>0, <3>4 DEF ServerSave
    <3> QED BY <2>0, <2>3, <3>1, <3>2, <3>3, <3>4 DEF RefActs
  <2> QED BY <2>1, <2>2, <2>3, StepChange DEF Change, refVars
<1>2. server' \in BOOLEAN /\ enabled' \in [Animas -> BOOLEAN] /\ alive' \in [Animas -> BOOLEAN] /\ disturbed' \in BOOLEAN
  <2>0. server \in BOOLEAN /\ enabled \in [Animas -> BOOLEAN] /\ alive \in [Animas -> BOOLEAN] /\ disturbed \in BOOLEAN
    BY DEF TypeOK
  <2>1. CASE UNCHANGED liveVars
    BY <2>0, <2>1 DEF liveVars
  <2>2. CASE QuiesceDisable \/ ServerStart \/ ServerStop
    BY <2>0, <2>2 DEF QuiesceDisable, ServerStart, ServerStop
  <2>3. CASE SmokeCheck \/ Tombstone \/ CallBack
    BY <2>0, <2>3 DEF SmokeCheck, Tombstone, CallBack
  <2>4. ASSUME NEW n \in Animas, AnimaStart(n) \/ AnimaStop(n)
        PROVE  server' = server /\ enabled' = enabled /\ alive' \in [Animas -> BOOLEAN] /\ disturbed' \in BOOLEAN
    BY <2>0, <2>4 DEF AnimaStart, AnimaStop
  <2> QED BY <2>0, <2>1, <2>2, <2>3, <2>4, StepChange DEF Change, LiveActs
<1>3. unsent' \in SUBSET Messages /\ box' \in [Animas -> SUBSET Messages] /\ handled' \in [Messages -> Nat]
  <2>0. unsent \in SUBSET Messages /\ box \in [Animas -> SUBSET Messages] /\ handled \in [Messages -> Nat]
    BY DEF TypeOK
  <2>1. CASE UNCHANGED mailVars
    BY <2>0, <2>1 DEF mailVars
  <2>2. ASSUME NEW m \in Messages, InboxCopy(m) \/ InboxUnlink(m) \/ Deliver(m)
        PROVE  unsent' \in SUBSET Messages /\ box' \in [Animas -> SUBSET Messages] /\ handled' = handled
    BY <2>0, <2>2, SMT DEF InboxCopy, InboxUnlink, Deliver, Animas
  <2>3. ASSUME NEW m \in Messages, NEW n \in Animas, Handle(n, m)
        PROVE  unsent' = unsent /\ box' \in [Animas -> SUBSET Messages] /\ handled' \in [Messages -> Nat]
    BY <2>0, <2>3, SMT DEF Handle
  <2> QED BY <2>0, <2>1, <2>2, <2>3, StepChange DEF Change, MailActs
<1>4. dir' \in {"animas", "archive"} /\ entry' \in BOOLEAN /\ over' \in BOOLEAN
  <2>0. dir \in {"animas", "archive"} /\ entry \in BOOLEAN /\ over \in BOOLEAN
    BY DEF TypeOK
  <2>1. CASE UNCHANGED endVars
    BY <2>0, <2>1 DEF endVars
  <2>2. CASE EndActs
    BY <2>0, <2>2 DEF EndActs, ArchiveSource, RemoveSourceConfig, WindowPasses
  <2> QED BY <2>1, <2>2, StepChange DEF Change
<1> QED BY <1>1, <1>2, <1>3, <1>4

(* ... and of the counters are kept.                                        *)
LEMMA CountTypes ==
    ASSUME IInv, [Next]_vars
    PROVE  faults' \in 0 .. MaxFaults /\ day' \in 0 .. faults' /\ faults <= faults'
<1>0. faults \in 0 .. MaxFaults /\ day \in 0 .. faults /\ MaxFaults \in Nat
  BY BoundsAssumption DEF IInv, TypeOK
<1>1. CASE UNCHANGED <<faults, day>>
  BY <1>0, <1>1, SMT
<1>2. CASE faults < MaxFaults /\ faults' = faults + 1 /\ day' = day
  BY <1>0, <1>2, SMT
<1>3. CASE day < faults /\ day' = day + 1 /\ faults' = faults
  BY <1>0, <1>3, SMT
<1>4. CASE Fault \/ NewDay
  BY <1>2, <1>3, <1>4 DEF Fault, Raise, Crash, CrashInCopy, NewDay
<1>5. CASE Merge \/ Finalize \/ Control \/ UNCHANGED vars
  BY <1>1, <1>5 DEF Merge, Finalize, Run, Control, PhaseStart, SubStart, SubEnd, PhaseEnd, Finish, vars
<1>6. CASE Outside
  BY <1>1, <1>6 DEF Outside, ServerStart, ServerStop, CallBack, WindowPasses, AnimaStart, AnimaStop, ServerSave, Deliver,
     Handle, TargetWrite
<1>7. CASE QuiesceDisable \/ QuiesceRelease \/ SyncLive \/ PlanInbox \/ InboxNext \/ InboxTaskReferences \/ Rebuild \/ VerifyScan
  BY <1>1, <1>7 DEF QuiesceDisable, QuiesceRelease, SyncLive, PlanInbox, InboxNext, InboxTaskReferences, Rebuild, VerifyScan
<1>8. CASE SmokeCheck \/ Tombstone \/ FinalizeReady \/ ArchiveSource \/ RemoveSourceConfig \/ PurgeResiduals \/ VerifyRemoval
  BY <1>1, <1>8 DEF SmokeCheck, Tombstone, FinalizeReady, ArchiveSource, RemoveSourceConfig, PurgeResiduals, VerifyRemoval
<1>9. CASE RewriteOrganization \/ RewriteMessaging \/ RewriteTasks \/ RewriteTaskboard \/ RewriteAncillaryState
  BY <1>1, <1>9 DEF RewriteOrganization, RewriteMessaging, RewriteTasks, RewriteTaskboard, RewriteAncillaryState, Retarget
<1>10. CASE \/ \E f \in Files : SnapshotFile(f) \/ MergeGenerated(f) \/ MergeFile(f) \/ RewriteDocument(f)
            \/ \E m \in Messages : InboxCopy(m) \/ InboxUnlink(m)
  BY <1>1, <1>10 DEF SnapshotFile, MergeGenerated, MergeFile, RewriteDocument, InboxCopy, InboxUnlink
<1>11. CASE Body
  BY <1>7, <1>8, <1>9, <1>10, <1>11 DEF Body
<1> QED BY <1>4, <1>5, <1>6, <1>11 DEF Next, Step

(* So TypeOK is kept.                                                       *)
LEMMA TypesKept ==
    ASSUME IInv, [Next]_vars
    PROVE  TypeOK'
  BY StepProgress, ArtifactStep, MemoryTypes, OtherTypes, CountTypes DEF TypeOK, Progress, ControlTypes, Artifacts

-----------------------------------------------------------------------------
(* The step that works on an item for the first time.                       *)
LEMMA FirstWork ==
    ASSUME IInv, [Next]_vars, NEW c \in Cmds, NEW p \in AllPhases, NEW x \in SetOf(Start(c, p)), Did(c, p, x)', ~Did(c, p, x)
    PROVE  Body /\ Works /\ cmd = c /\ sub = "-" /\ at = p /\ Unit = p /\ Head(todo) = x /\ cmd' = cmd /\ todo' # todo
<1>1. Works /\ cmd = c /\ sub = "-" /\ at = p /\ Head(todo) = x
  BY StepProgress DEF Progress, Grows
<1>2. Body
  BY <1>1, WorksBody
<1>3. cmd' = cmd /\ todo' = Tail(todo) /\ todo # <<>> /\ todo \in Seq(Items)
  BY <1>1 DEF Works, Advance, IInv, TypeOK
<1>4. todo' # todo
  BY <1>3, SMT
<1> QED BY <1>1, <1>2, <1>3, <1>4 DEF Unit

(* The same for a substep.                                                  *)
LEMMA FirstStepWork ==
    ASSUME IInv, [Next]_vars, NEW s \in AllSteps, NEW x \in SetOf(Work(s)), StepDid(s, x)', ~StepDid(s, x)
    PROVE  Body /\ Works /\ sub = s /\ Unit = s /\ Head(todo) = x /\ cmd' = cmd /\ todo' # todo /\ cmd # "idle"
<1>1. Works /\ sub = s /\ Head(todo) = x
  BY StepProgress DEF Progress, Grows
<1>2. Body
  BY <1>1, WorksBody
<1>3. cmd' = cmd /\ todo' = Tail(todo) /\ todo # <<>> /\ todo \in Seq(Items) /\ cmd # "idle"
  BY <1>1 DEF Works, Advance, IInv, TypeOK
<1>4. todo' # todo
  BY <1>3, SMT
<1> QED BY <1>1, <1>2, <1>3, <1>4, Known DEF Unit

(* QUIESCE lets the merge go on only when both animas are stopped.          *)
LEMMA FirstRelease ==
    ASSUME IInv, [Next]_vars, Did("merge", "QUIESCE", "release")', ~Did("merge", "QUIESCE", "release")
    PROVE  (\A n \in Animas : ~alive[n]) /\ UNCHANGED alive
<1>1. Body /\ Unit = "QUIESCE" /\ Head(todo) = "release" /\ cmd = "merge" /\ cmd' = cmd
  BY FirstWork, PhaseItems, Apart
<1>2. QuiesceDisable \/ QuiesceRelease
  BY <1>1, BodyUnit
<1>3. QuiesceRelease
  BY <1>1, <1>2 DEF QuiesceDisable, Doing
<1> QED BY <1>1, <1>3 DEF QuiesceRelease, Failed, Stop, liveVars

(* A file counts as saved when it has just been saved, ...                  *)
LEMMA FirstSnapshot ==
    ASSUME IInv, [Next]_vars, NEW f \in Files, Did("merge", "SNAPSHOT", f)', ~Did("merge", "SNAPSHOT", f)
    PROVE  SnapshotFile(f)
<1>1. Body /\ Unit = "SNAPSHOT" /\ Head(todo) = f
  BY FirstWork, PhaseItems, Apart
<1>2. PICK g \in Files : SnapshotFile(g)
  BY <1>1, BodyUnit
<1> QED BY <1>1, <1>2 DEF SnapshotFile, Doing

(* ... as merged when it has just been copied, ...                          *)
LEMMA FirstMerge ==
    ASSUME IInv, [Next]_vars, NEW f \in Files, Did("merge", "MERGE_MEMORY", f)', ~Did("merge", "MERGE_MEMORY", f)
    PROVE  \E n \in Names : Copies(f, n)
<1>1. Body /\ Unit = "MERGE_MEMORY" /\ Head(todo) = f /\ cmd = "merge" /\ cmd' = cmd
  BY FirstWork, PhaseItems, Apart
<1>2. PICK g \in Files : MergeGenerated(g) \/ MergeFile(g)
  BY <1>1, BodyUnit
<1>3. g = f
  BY <1>1, <1>2 DEF MergeGenerated, MergeFile, Doing
<1>4. ~Failed
  BY <1>1 DEF Failed, Stop
<1> QED BY <1>2, <1>3, <1>4, CopyStep

(* ... as rewritten when its citation has just been written, ...            *)
LEMMA FirstCitation ==
    ASSUME IInv, [Next]_vars, NEW f \in Files, StepDid("memory_references", f)', ~StepDid("memory_references", f)
    PROVE  Cites(f)
<1>1. Body /\ Unit = "memory_references" /\ Head(todo) = f
  BY FirstStepWork, PhaseItems
<1>2. PICK g \in Files : RewriteDocument(g)
  BY <1>1, BodyUnit
<1>3. g = f
  BY <1>1, <1>2 DEF RewriteDocument, Doing
<1> QED BY <1>2, <1>3, CiteStep

(* ... and an index as built when it has just been built.                   *)
LEMMA FirstBuild ==
    ASSUME IInv, [Next]_vars, NEW s \in SetOf(Rebuilds), StepDid(s, "build")', ~StepDid(s, "build")
    PROVE  Rebuild /\ sub = s
<1>1. Body /\ Unit = s /\ sub = s
  BY FirstStepWork, PhaseItems
<1> QED BY <1>1, BodyUnit

(* The server is told before ancillary_state ends.                          *)
LEMMA FirstSync ==
    ASSUME IInv, [Next]_vars, StepDid("ancillary_state", "sync")', ~StepDid("ancillary_state", "sync")
    PROVE  SyncLive
<1>1. Body /\ Unit = "ancillary_state" /\ Head(todo) = "sync"
  BY FirstStepWork, PhaseItems
<1>2. ~RewriteAncillaryState
  BY <1>1 DEF RewriteAncillaryState, Retarget, Surfaces
<1> QED BY <1>1, <1>2, BodyUnit

(* The inbox is done when the pass that unlinks finds nothing left.         *)
LEMMA FirstUnlink ==
    ASSUME IInv, [Next]_vars, StepDid("inbox", "unlink")', ~StepDid("inbox", "unlink")
    PROVE  InboxNext /\ At("unlink")
<1>1. Body /\ Works /\ sub = "inbox" /\ Unit = "inbox" /\ Head(todo) = "unlink" /\ cmd' = cmd /\ todo' # todo /\ cmd # "idle"
  BY FirstStepWork, PhaseItems
<1>2. \A m \in Messages : ~InboxCopy(m) /\ ~InboxUnlink(m)
  BY <1>1 DEF InboxCopy, InboxUnlink, Failed, Stop
<1>3. todo # <<>>
  BY <1>1 DEF Works
<1> QED BY <1>1, <1>2, <1>3, BodyUnit DEF At

(* The scan lets verify go on only when no surface names the source.        *)
LEMMA FirstScan ==
    ASSUME IInv, [Next]_vars, Did("merge", "VERIFY", "scan")', ~Did("merge", "VERIFY", "scan")
    PROVE  ~Residual /\ UNCHANGED refs
<1>1. Body /\ Unit = "VERIFY" /\ Head(todo) = "scan" /\ cmd = "merge" /\ cmd' = cmd
  BY FirstWork, PhaseItems, Apart
<1>2. VerifyScan \/ SmokeCheck
  BY <1>1, BodyUnit
<1>3. VerifyScan
  BY <1>1, <1>2 DEF SmokeCheck, Doing
<1> QED BY <1>1, <1>3 DEF VerifyScan, Failed, Stop, refVars

(* The preflight of merge-finalize passes only after the window, with the   *)
(* merge done.                                                              *)
LEMMA FirstReady ==
    ASSUME IInv, [Next]_vars, Did("finalize", "PREFLIGHT", "ready")', ~Did("finalize", "PREFLIGHT", "ready")
    PROVE  over /\ jr["merge"].status = "done" /\ UNCHANGED <<jr, over>>
<1>1. Body /\ Works /\ Unit = "PREFLIGHT" /\ cmd = "finalize" /\ cmd' = cmd
  BY FirstWork, PhaseItems, Apart
<1>2. FinalizeReady
  BY <1>1, BodyUnit
<1> QED BY <1>1, <1>2 DEF FinalizeReady, Failed, Stop, Works, Advance, endVars

-----------------------------------------------------------------------------
(* The invariants about the files, one after the other.                     *)
LEMMA StaysDisturbed ==
    ASSUME [Next]_vars, disturbed
    PROVE  disturbed'
<1>1. UNCHANGED liveVars \/ LiveActs
  BY StepChange DEF Change
<1>2. CASE UNCHANGED liveVars
  BY <1>2 DEF liveVars
<1>3. CASE LiveActs
  BY <1>3 DEF LiveActs, QuiesceDisable, SmokeCheck, Tombstone, ServerStart, ServerStop, CallBack, AnimaStart, AnimaStop
<1> QED BY <1>1, <1>2, <1>3

(* From the release of the animas to the end of verify a merge is under     *)
(* way.                                                                     *)
LEMMA Released ==
    ASSUME IInv, Did("merge", "QUIESCE", "release"), ~Completed("merge", "VERIFY")
    PROVE  Merging
<1>1. CASE Completed("merge", "QUIESCE")
  BY <1>1 DEF Merging
<1>2. CASE ~Completed("merge", "QUIESCE")
  <2>1. cmd = "merge" /\ entered /\ at = "QUIESCE" /\ ~Pending("release")
    BY <1>2 DEF Did
  <2>2. todo \in Seq(Items) /\ (todo # <<>> => todo[Len(todo)] = "release")
    BY <2>1 DEF IInv, TypeOK, EndInv, EndsWith
  <2>3. todo = <<>>
    BY <2>1, <2>2, SMT DEF Pending
  <2> QED BY <2>1, <2>3 DEF Merging
<1> QED BY <1>1, <1>2

(* Nobody is started between QUIESCE and the smoke check without disturbed  *)
(* being set.                                                               *)
LEMMA QuietKept ==
    ASSUME IInv, [Next]_vars
    PROVE  QuietInv'
<1> SUFFICES ASSUME Did("merge", "QUIESCE", "release")', ~disturbed', jr'["merge"].phase["VERIFY"] = "none"
             PROVE  \A n \in Animas : ~alive'[n]
  BY DEF QuietInv
<1>1. Mark("VERIFY") = "none" /\ ~disturbed
  BY MarksKept, StaysDisturbed, PhaseItems, Apart DEF Kept, Mark
<1>2. CASE ~Did("merge", "QUIESCE", "release")
  BY <1>2, FirstRelease
<1>3. CASE Did("merge", "QUIESCE", "release")
  <2>1. (\A n \in Animas : ~alive[n]) /\ alive \in [Animas -> BOOLEAN]
    BY <1>1, <1>3 DEF IInv, QuietInv, TypeOK, Mark
  <2>2. CASE UNCHANGED liveVars
    BY <2>1, <2>2 DEF liveVars
  <2>3. CASE QuiesceDisable \/ Tombstone \/ ServerStart \/ ServerStop
    BY <2>1, <2>3 DEF QuiesceDisable, Tombstone, ServerStart, ServerStop
  <2>4. ~SmokeCheck
    <3>1. SmokeCheck => entered /\ Unit = "VERIFY"
      BY DEF SmokeCheck, Doing, Unit
    <3>2. SmokeCheck => InPhase("VERIFY")
      BY <3>1, UnitPhase, Apart
    <3> QED BY <1>1, <3>2, Apart DEF InPhase, Mark
  <2>5. ~CallBack
    <3>1. Mark("TOMBSTONE") # "none" => Completed("merge", "VERIFY")
      BY MergeOrder DEF IInv
    <3> QED BY <1>1, <3>1 DEF CallBack, Mark
  <2>6. ASSUME NEW n \in Animas, AnimaStart(n) PROVE FALSE
    <3>1. Merging
      BY <1>1, <1>3, Released DEF Mark
    <3> QED BY <2>6, <3>1 DEF AnimaStart
  <2>7. ASSUME NEW n \in Animas, AnimaStop(n) PROVE \A k \in Animas : ~alive'[k]
    BY <2>1, <2>7 DEF AnimaStop
  <2> QED BY <2>2, <2>3, <2>4, <2>5, <2>6, <2>7, StepChange DEF Change, LiveActs
<1> QED BY <1>2, <1>3

(* Nobody can take a name while the merge wants it.                         *)
LEMMA TargetQuiet ==
    ASSUME IInv, alive["target"], ~disturbed, Completed("merge", "QUIESCE")
    PROVE  Mark("VERIFY") # "none"
  BY DEF IInv, QuietInv, Did, Mark, Animas

(* A copy torn by a kill costs one name and one fault, so a free name is    *)
(* left.                                                                    *)
LEMMA NamesKept ==
    ASSUME IInv, [Next]_vars
    PROVE  NameInv'
<1> SUFFICES ASSUME ~Completed("merge", "MERGE_MEMORY")', NEW k \in Names
             PROVE  /\ k[2] # 0 => tgt'[k] \in {Absent, Torn, Doc(k[1])}
                    /\ tgt'[k] = Torn => k[2] <= faults'
  BY DEF NameInv
<1>1. ~Completed("merge", "MERGE_MEMORY")
  BY MarksKept, PhaseItems, Apart DEF Kept
<1>2. (k[2] # 0 => tgt[k] \in {Absent, Torn, Doc(k[1])}) /\ (tgt[k] = Torn => k[2] <= faults)
  BY <1>1 DEF IInv, NameInv
<1>3. faults <= faults' /\ faults \in Nat /\ faults' \in Nat /\ k[2] \in Nat
  BY CountTypes, BoundsAssumption, SMT DEF IInv, TypeOK, Names
<1>4. CASE tgt'[k] = tgt[k]
  BY <1>2, <1>3, <1>4, SMT
<1>5. ASSUME NEW f \in Files, NEW n \in Names, Copies(f, n), n = k PROVE tgt'[k] = Doc(k[1]) /\ tgt'[k] # Torn
  BY <1>5, ContentTypes DEF Copies, Puts
<1>6. ASSUME NEW f \in Files, NEW n \in Names, Tears(f, n), n = k PROVE tgt'[k] = Torn /\ k[2] <= faults'
  BY <1>3, <1>6 DEF Tears, Puts
<1>7. ASSUME NEW f \in Files, Cites(f) PROVE FALSE
  BY <1>1, <1>7 DEF Cites, AtCitations
<1>8. ASSUME NEW f \in Files, Takes(f), <<f, 0>> = k PROVE k[2] = 0 /\ tgt'[k] # Torn
  BY <1>8, ContentTypes DEF Takes, Puts
<1>9. /\ UNCHANGED memVars \/ Rebuild => tgt' = tgt
      /\ \A f \in Files : SnapshotFile(f) => tgt' = tgt
  BY DEF memVars, Rebuild, SnapshotFile
<1>10. ASSUME NEW f \in Files, NEW n \in Names, Copies(f, n) \/ Tears(f, n), n # k PROVE tgt'[k] = tgt[k]
  BY <1>10 DEF Copies, Tears, Puts
<1>11. ASSUME NEW f \in Files, Takes(f), <<f, 0>> # k PROVE tgt'[k] = tgt[k]
  BY <1>11 DEF Takes, Puts
<1> QED BY <1>4, <1>5, <1>6, <1>7, <1>8, <1>9, <1>10, <1>11, MemoryStep

(* No step writes the snapshot once it is completed.                        *)
LEMMA SnapshotsOnlyThen ==
    ASSUME IInv, NEW f, SnapshotFile(f)
    PROVE  ~Completed("merge", "SNAPSHOT")
<1>1. InPhase("SNAPSHOT")
  BY UnitPhase, Apart DEF SnapshotFile, Doing, Unit
<1> QED BY <1>1, Apart DEF InPhase

(* Until the snapshot is complete the memory is untouched; afterwards the   *)
(* snapshot is.                                                             *)
LEMMA SnapKept ==
    ASSUME IInv, [Next]_vars
    PROVE  SnapInv'
<1> SUFFICES ASSUME ~disturbed'
             PROVE  /\ ~Completed("merge", "SNAPSHOT")' => tgt' = own'
                    /\ \A f \in Files : Did("merge", "SNAPSHOT", f)' => \A n \in Names : n[1] = f => snap'[n] = own'[n]
  BY DEF SnapInv
<1>0. ~disturbed /\ PhaseOrder
  BY StaysDisturbed DEF IInv
<1>1. ASSUME NEW f \in Files, Takes(f), Completed("merge", "QUIESCE") PROVE Completed("merge", "SNAPSHOT")
  BY <1>0, <1>1, TargetQuiet, MergeOrder DEF Takes
<1>2. ASSUME ~Completed("merge", "SNAPSHOT")' PROVE tgt' = own'
  <2>1. ~Completed("merge", "SNAPSHOT") /\ tgt = own
    BY <1>0, <1>2, MarksKept, PhaseItems, Apart DEF Kept, IInv, SnapInv
  <2>2. /\ UNCHANGED memVars \/ Rebuild => tgt' = tgt /\ own' = own
        /\ \A f \in Files : SnapshotFile(f) => tgt' = tgt /\ own' = own
    BY DEF memVars, Rebuild, SnapshotFile
  <2>3. \A f \in Files : ~Cites(f) /\ \A n \in Names : ~Copies(f, n) /\ ~Tears(f, n)
    BY <2>1 DEF Cites, AtCitations, Copies, Tears, AtMemory
  <2>4. ASSUME NEW f \in Files, Takes(f) PROVE tgt' = own'
    BY <1>1, <2>1, <2>4 DEF Takes
  <2> QED BY <2>1, <2>2, <2>3, <2>4, MemoryStep
<1>3. ASSUME NEW f \in Files, Did("merge", "SNAPSHOT", f)', NEW n \in Names, n[1] = f PROVE snap'[n] = own'[n]
  <2>1. SnapshotFile(f) => snap'[n] = own'[n]
    <3>1. SnapshotFile(f) => tgt = own
      BY <1>0, SnapshotsOnlyThen DEF IInv, SnapInv
    <3> QED BY <1>3, <3>1 DEF SnapshotFile
  <2>2. CASE ~Did("merge", "SNAPSHOT", f)
    BY <1>3, <2>1, <2>2, FirstSnapshot
  <2>3. CASE Did("merge", "SNAPSHOT", f)
    <3>1. snap[n] = own[n]
      BY <1>0, <1>3, <2>3 DEF IInv, SnapInv
    <3>2. Completed("merge", "QUIESCE")
      <4>1. Mark("SNAPSHOT") # "none"
        <5>1. CASE cmd = "merge" /\ entered /\ sub = "-" /\ at = "SNAPSHOT"
          BY <5>1, UnitPhase, Apart DEF Unit, InPhase, Mark
        <5> QED BY <2>3, <5>1 DEF Did, Mark
      <4> QED BY <1>0, <4>1, MergeOrder
    <3>3. ASSUME NEW g \in Files, SnapshotFile(g), g # f PROVE snap'[n] = snap[n] /\ own' = own
      BY <1>3, <3>3 DEF SnapshotFile
    <3>4. /\ UNCHANGED memVars \/ Rebuild => UNCHANGED <<snap, own>>
          /\ \A g \in Files : Cites(g) \/ Takes(g) => UNCHANGED <<snap, own>>
          /\ \A g \in Files, k \in Names : Copies(g, k) \/ Tears(g, k) => UNCHANGED <<snap, own>>
      BY <3>2 DEF memVars, Rebuild, Cites, Takes, Copies, Tears
    <3> QED BY <2>1, <3>1, <3>3, <3>4, MemoryStep
  <2> QED BY <2>2, <2>3
<1> QED BY <1>2, <1>3

(* A copy in the target stays one.                                          *)
LEMMA CopiesStay ==
    ASSUME IInv, [Next]_vars, NEW k \in Names, tgt[k].of = k[1]
    PROVE  tgt'[k].of = k[1]
<1>1. k[1] \in Files /\ tgt[k] # Absent
  <2>1. k[1] \in Files
    BY ContentTypes
  <2> QED BY <2>1, FilesAssumption, SMT DEF Absent
<1>2. ASSUME NEW f \in Files, NEW n \in Names, Copies(f, n) \/ Tears(f, n) PROVE tgt'[k].of = k[1]
  <2>1. CASE n # k
    BY <1>2, <2>1 DEF Copies, Tears, Puts
  <2>2. CASE n = k
    BY <1>1, <1>2, <2>2, ContentTypes DEF Copies, Tears, Puts
  <2> QED BY <2>1, <2>2
<1>3. ASSUME NEW f \in Files, Cites(f) PROVE tgt'[k].of = k[1]
  <2> DEFINE map == jr["merge"].map
  <2>1. map[f] \in Names /\ map[f][1] = f /\ (tgt' = tgt \/ Puts(map[f], [of |-> f, ref |-> map[Ref[f]]]))
    BY <1>3, MapValues DEF Cites
  <2> QED BY <2>1, SMT DEF Puts
<1>4. ASSUME NEW f \in Files, Takes(f) PROVE tgt'[k] = tgt[k]
  BY <1>1, <1>4 DEF Takes, Puts
<1>5. /\ UNCHANGED memVars \/ Rebuild => tgt' = tgt
      /\ \A f \in Files : SnapshotFile(f) => tgt' = tgt
  BY DEF memVars, Rebuild, SnapshotFile
<1> QED BY <1>2, <1>3, <1>4, <1>5, MemoryStep

(* A file that was copied is under the mapped name, and the journal takes   *)
(* the mapping over.                                                        *)
LEMMA MapKept ==
    ASSUME IInv, [Next]_vars
    PROVE  MapInv'
<1> SUFFICES ASSUME NEW f \in Files, Did("merge", "MERGE_MEMORY", f)'
             PROVE  f \in DOMAIN Mapping' /\ tgt'[Mapping'[f]].of = f
  BY DEF MapInv
<1>1. ASSUME NEW n \in Names, Copies(f, n) PROVE f \in DOMAIN Mapping' /\ tgt'[Mapping'[f]].of = f
  <2>1. Mapping' = mem'.map
    BY <1>1 DEF Copies, AtMemory, Mapping
  <2>2. f \in DOMAIN mem'.map /\ mem'.map[f] = n /\ tgt'[n] = Doc(f) /\ Doc(f).of = f
    BY <1>1, ContentTypes DEF Copies, Puts
  <2> QED BY <2>1, <2>2
<1>2. CASE ~Did("merge", "MERGE_MEMORY", f)
  BY <1>1, <1>2, FirstMerge
<1>3. CASE Did("merge", "MERGE_MEMORY", f) /\ \A n \in Names : ~Copies(f, n)
  <2>1. f \in DOMAIN Mapping /\ tgt[Mapping[f]].of = f
    BY <1>3 DEF IInv, MapInv
  <2>2. Mapping \in Maps
    BY DEF IInv, TypeOK, Mapping, Journal, Cmds
  <2>3. Mapping[f] \in Names /\ Mapping[f][1] = f
    BY <2>1, <2>2, MapValues
  <2>4. tgt'[Mapping[f]].of = f
    BY <2>1, <2>3, CopiesStay
  <2>5. f \in DOMAIN Mapping' /\ Mapping'[f] = Mapping[f]
    <3>1. CASE Completed("merge", "MERGE_MEMORY")'
      BY <2>1, <3>1, MarksKept DEF Kept, Mapping
    <3>2. CASE ~Completed("merge", "MERGE_MEMORY")'
      <4>1. ~Completed("merge", "MERGE_MEMORY")
        BY <3>2, MarksKept, PhaseItems, Apart DEF Kept
      <4>2. cmd' # "idle"
        BY <3>2 DEF Did
      <4>3. Mapping = mem.map /\ Mapping' = mem'.map
        BY <3>2, <4>1 DEF Mapping
      <4>4. ASSUME NEW g \in Files, NEW n \in Names, Copies(g, n) PROVE f \in DOMAIN mem'.map /\ mem'.map[f] = mem.map[f]
        BY <1>3, <2>1, <4>3, <4>4 DEF Copies
      <4> QED BY <2>1, <4>2, <4>3, <4>4, ArtifactStep
    <3> QED BY <3>1, <3>2
  <2> QED BY <2>4, <2>5
<1> QED BY <1>1, <1>2, <1>3
=============================================================================
