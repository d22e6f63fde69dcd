-------------------------- MODULE AnimaMergeProofs --------------------------
(* Proofs about AnimaMerge, last part: the remaining conjuncts of the       *)
(* invariant and what both commands guarantee, for any files and messages   *)
(* and any number of kills, exceptions and resumptions.                     *)
EXTENDS AnimaMergeMemoryProofs

(* Zenon takes the leaves; those with arithmetic, sequences or records cite *)
(* SMT.                                                                     *)
USE Zenon DEF Completed, StepDone

(* Documents are rewritten only when all files have their names.            *)
LEMMA Cited ==
    ASSUME IInv, NEW f, StepDid("memory_references", f)
    PROVE  Completed("merge", "MERGE_MEMORY")
<1>1. PhaseOrder /\ StepOrder
  BY DEF IInv
<1>2. Mark("REWRITE_REFS") # "none"
  <2>1. CASE sub = "memory_references"
    BY <2>1, UnitStep, PhaseItems
  <2>2. CASE StepDone("memory_references")
    BY <1>1, <2>2, RewriteOrder, PhaseItems
  <2> QED BY <2>1, <2>2 DEF StepDid
<1> QED BY <1>1, <1>2, MergeOrder

(* A rewritten citation stays: nothing else writes a copy after             *)
(* MERGE_MEMORY.                                                            *)
LEMMA CitesKept ==
    ASSUME IInv, [Next]_vars
    PROVE  CiteInv'
<1> DEFINE map == jr["merge"].map
<1> SUFFICES ASSUME NEW f \in Files \ Generated, StepDid("memory_references", f)'
             PROVE  tgt'[jr'["merge"].map[f]].ref = jr'["merge"].map[Ref[f]]
  BY DEF CiteInv
<1>1. ASSUME Cites(f) PROVE tgt'[map[f]].ref = map[Ref[f]] /\ jr' = jr
  BY <1>1, SMT DEF Cites, Puts
<1>2. CASE ~StepDid("memory_references", f)
  BY <1>1, <1>2, FirstCitation
<1>3. CASE StepDid("memory_references", f)
  <2>1. Completed("merge", "MERGE_MEMORY")
    BY <1>3, Cited
  <2>2. jr'["merge"].map = map
    <3>1. Completed("merge", "MERGE_MEMORY")'
      BY <2>1, MarksKept, PhaseItems, Apart DEF Kept
    <3> QED BY <2>1, <3>1, MarksKept DEF Kept, Mapping
  <2>3. tgt[map[f]].ref = map[Ref[f]]
    BY <1>3 DEF IInv, CiteInv
  <2>4. f \in DOMAIN map /\ tgt[map[f]].of = f /\ map \in Maps
    BY <2>1 DEF IInv, MapInv, Mapping, Did, TypeOK, Journal, Cmds
  <2>5. map[f] \in Names /\ map[f][1] = f
    BY <2>4, MapValues
  <2> HIDE DEF map
  <2>6. \A g \in Files, n \in Names : ~Copies(g, n) /\ ~Tears(g, n)
    BY <2>1 DEF Copies, Tears, AtMemory
  <2>7. ASSUME NEW g \in Files, Cites(g), g # f PROVE tgt'[map[f]] = tgt[map[f]]
    <3>1. map[g] \in Names /\ map[g][1] = g /\ (tgt' = tgt \/ Puts(map[g], [of |-> g, ref |-> map[Ref[g]]]))
      BY <2>7, MapValues DEF Cites, map
    <3> QED BY <2>5, <2>7, <3>1 DEF Puts
  <2>8. ASSUME NEW g \in Files, Takes(g) PROVE tgt'[map[f]] = tgt[map[f]]
    <3>1. tgt[map[f]] # Absent
      BY <2>4, FilesAssumption, SMT DEF Absent
    <3> QED BY <2>5, <2>8, <3>1 DEF Takes, Puts
  <2>9. /\ UNCHANGED memVars \/ Rebuild => tgt' = tgt
        /\ \A g \in Files : SnapshotFile(g) => tgt' = tgt
    BY DEF memVars, Rebuild, SnapshotFile
  <2>10. tgt'[map[f]].ref = map[Ref[f]]
    <3>1. Cites(f) => tgt'[map[f]].ref = map[Ref[f]]
      BY <1>1 DEF map
    <3> QED BY <2>3, <2>6, <2>7, <2>8, <2>9, <3>1, MemoryStep
  <2> QED BY <2>2, <2>10
<1> QED BY <1>2, <1>3

(* Memory does not change after an index was built, as REWRITE_REFS is      *)
(* over.                                                                    *)
LEMMA IndexKept ==
    ASSUME IInv, [Next]_vars
    PROVE  IndexInv'
<1> SUFFICES ASSUME ~disturbed', jr'["merge"].phase["VERIFY"] = "none", NEW s \in SetOf(Rebuilds), StepDid(s, "build")'
             PROVE  idx'[s] = Memory'
  BY DEF IndexInv
<1>0. idx \in [SetOf(Rebuilds) -> UNION {[D -> Content] : D \in SUBSET Names}] /\ PhaseOrder /\ StepOrder
  BY DEF IInv, TypeOK
<1>1. Mark("VERIFY") = "none" /\ ~disturbed
  BY MarksKept, StaysDisturbed, PhaseItems, Apart DEF Kept, Mark
<1>2. tgt' = tgt => Memory' = Memory
  BY DEF Memory
<1>3. ASSUME Rebuild, sub = s PROVE idx'[s] = Memory'
  <2>1. idx' = [idx EXCEPT ![s] = Memory] /\ tgt' = tgt
    BY <1>3 DEF Rebuild
  <2> QED BY <1>0, <1>2, <2>1
<1>4. CASE ~StepDid(s, "build")
  BY <1>3, <1>4, FirstBuild
<1>5. CASE StepDid(s, "build")
  <2>1. idx[s] = Memory
    BY <1>1, <1>5 DEF IInv, IndexInv, Mark
  <2>2. Mark("REBUILD_INDEXES") # "none"
    <3>1. CASE sub = s
      BY <3>1, UnitStep, PhaseItems
    <3>2. CASE StepDone(s)
      BY <1>0, <3>2, RewriteOrder
    <3> QED BY <1>5, <3>1, <3>2 DEF StepDid
  <2>3. Completed("merge", "QUIESCE") /\ Completed("merge", "MERGE_MEMORY") /\ Completed("merge", "REWRITE_REFS")
    BY <1>0, <2>2, MergeOrder
  <2>4. \A f \in Files, n \in Names : ~Copies(f, n) /\ ~Tears(f, n)
    BY <2>3 DEF Copies, Tears, AtMemory
  <2>5. \A f \in Files : ~Cites(f)
    BY <2>3 DEF Cites, AtCitations, Mark
  <2>6. \A f \in Files : ~Takes(f)
    BY <1>1, <2>3, TargetQuiet DEF Takes
  <2>7. CASE Rebuild
    <3>1. sub # s => idx'[s] = idx[s] /\ tgt' = tgt
      BY <1>0, <2>7 DEF Rebuild
    <3> QED BY <1>2, <1>3, <2>1, <2>7, <3>1
  <2>8. CASE UNCHANGED memVars \/ \E f \in Files : SnapshotFile(f)
    <3>1. idx' = idx /\ tgt' = tgt
      BY <2>8 DEF memVars, SnapshotFile
    <3> QED BY <1>2, <2>1, <3>1
  <2> QED BY <2>4, <2>5, <2>6, <2>7, <2>8, MemoryStep
<1> QED BY <1>4, <1>5

(* After the sync of the last rewrite nothing is retargeted any more.       *)
LEMMA Synced ==
    ASSUME IInv, StepDid("ancillary_state", "sync")
    PROVE  ~Retargets
<1> SUFFICES ASSUME NEW u \in {"organization", "messaging", "task_references", "ancillary_state"}, Retarget(u)
             PROVE  FALSE
  BY DEF Retargets
<1>1. sub = u /\ todo # <<>> /\ u \in SetOf(Rewrites) /\ u \in AllSteps
  BY StepLists, SMT DEF Retarget, SetOf, AllSteps
<1>2. ~StepDone(u)
  BY <1>1, UnitStep
<1>3. StepOrder
  BY DEF IInv
<1>4. ~StepDone("ancillary_state")
  BY <1>1, <1>2, <1>3, RewriteOrder
<1>5. sub = "ancillary_state" /\ ~Pending("sync")
  BY <1>4 DEF StepDid
<1>6. todo \in Seq(Items) /\ todo[Len(todo)] = "sync"
  BY <1>1, <1>5 DEF IInv, TypeOK, EndInv, EndsWith
<1> QED BY <1>1, <1>5, <1>6, SMT DEF Pending

(* verify scans after the server was told.                                  *)
LEMMA Scans ==
    ASSUME IInv, Did("merge", "VERIFY", "scan")
    PROVE  StepDone("ancillary_state")
<1>1. PhaseOrder /\ StepOrder
  BY DEF IInv
<1>2. Mark("VERIFY") # "none"
  <2>1. CASE cmd = "merge" /\ entered /\ sub = "-" /\ at = "VERIFY"
    BY <2>1, UnitPhase, Apart DEF Unit, InPhase, Mark
  <2> QED BY <2>1 DEF Did, Mark
<1>3. Completed("merge", "REWRITE_REFS")
  BY <1>1, <1>2, MergeOrder
<1> QED BY <1>1, <1>3, RewriteOrder, PhaseItems

(* PURGE_RESIDUALS comes after a finished merge, whose scan found no        *)
(* reference left.                                                          *)
LEMMA PurgesLate ==
    ASSUME IInv, PurgeResiduals
    PROVE  \A s \in Scanned : refs[s] = "target"
<1>1. InPhase("PURGE_RESIDUALS")
  BY UnitPhase, Apart DEF PurgeResiduals, Doing, Unit
<1>2. jr["finalize"].phase["PURGE_RESIDUALS"] # "none"
  BY <1>1, Apart DEF InPhase
<1>3. Completed("finalize", "PREFLIGHT")
  BY <1>2, MergeOrder DEF IInv
<1>4. \A i \in DOMAIN MergePhases : Completed("merge", MergePhases[i])
  BY <1>3 DEF IInv, WindowInv, Did
<1>5. Completed("merge", "VERIFY")
  BY <1>4, PhaseLists, SMT
<1> QED BY <1>5 DEF IInv, RefInv, Did

(* No step of the merge, of the server or of merge-finalize brings the      *)
(* source back.                                                             *)
LEMMA RefsKept ==
    ASSUME IInv, [Next]_vars
    PROVE  RefInv'
<1>0. /\ refs \in [Surfaces -> Animas] /\ cache \in [Cached -> Animas] /\ Cached \subseteq Surfaces /\ Scanned \subseteq Surfaces
      /\ Cached \subseteq {"notification_map", "discord_map"} /\ Cached \subseteq Scanned
  BY DEF IInv, TypeOK, Cached, Scanned, Surfaces
<1>1. ASSUME StepDid("ancillary_state", "sync")', server', NEW s \in Cached
      PROVE  cache'[s] \in {refs'[s], "target"}
  <2>1. SyncLive /\ server => cache'[s] = "target"
    BY <1>0 DEF SyncLive
  <2>2. CASE ~StepDid("ancillary_state", "sync")
    <3>1. SyncLive
      BY <1>1, <2>2, FirstSync
    <3> QED BY <1>1, <2>1, <3>1 DEF SyncLive, liveVars
  <2>3. CASE StepDid("ancillary_state", "sync") /\ server
    <3>1. cache[s] \in {refs[s], "target"} /\ s \in Scanned
      BY <1>0, <2>3 DEF IInv, RefInv
    <3>2. CASE UNCHANGED refVars
      BY <3>1, <3>2 DEF refVars
    <3>3. ~ServerStart /\ ~Retargets
      BY <2>3, Synced DEF ServerStart
    <3>4. CASE PurgeResiduals
      <4>1. refs[s] = "target" /\ cache' = cache /\ refs'[s] = "target"
        BY <1>0, <3>1, <3>4, PurgesLate DEF PurgeResiduals
      <4> QED BY <3>1, <4>1
    <3>5. ASSUME NEW t \in Cached, ServerSave(t) PROVE cache'[s] \in {refs'[s], "target"}
      BY <1>0, <3>1, <3>5 DEF ServerSave
    <3> QED BY <2>1, <2>3, <3>2, <3>3, <3>4, <3>5, StepChange DEF Change, RefActs, refVars
  <2>4. CASE ~server
    <3>1. ServerStart
      <4>1. ~(UNCHANGED liveVars)
        BY <1>1, <2>4 DEF liveVars
      <4>2. LiveActs
        BY <4>1, StepChange DEF Change
      <4> QED BY <1>1, <2>4, <4>2 DEF LiveActs, QuiesceDisable, SmokeCheck, Tombstone, ServerStop, CallBack, AnimaStart, AnimaStop
    <3> QED BY <1>0, <3>1 DEF ServerStart
  <2> QED BY <2>2, <2>3, <2>4
<1>2. ASSUME Did("merge", "VERIFY", "scan")', NEW s \in Scanned
      PROVE  refs'[s] = "target"
  <2>1. CASE ~Did("merge", "VERIFY", "scan")
    BY <1>0, <1>2, <2>1, FirstScan DEF Residual, Animas
  <2>2. CASE Did("merge", "VERIFY", "scan")
    <3>1. refs[s] = "target"
      BY <2>2 DEF IInv, RefInv
    <3>2. CASE refs' = refs
      BY <3>1, <3>2
    <3>3. StepDid("ancillary_state", "sync")
      BY <2>2, Scans DEF StepDid
    <3>4. ~Retargets
      BY <3>3, Synced
    <3>5. CASE SyncLive \/ PurgeResiduals
      BY <1>0, <3>1, <3>5 DEF SyncLive, PurgeResiduals
    <3>6. ASSUME NEW t \in Cached, ServerSave(t) PROVE refs'[s] = "target"
      <4>1. cache[t] \in {refs[t], "target"} /\ refs[t] = "target"
        BY <1>0, <2>2, <3>3, <3>6 DEF IInv, RefInv, ServerSave
      <4> QED BY <1>0, <3>1, <3>6, <4>1 DEF ServerSave
    <3> QED BY <3>2, <3>4, <3>5, <3>6, StepChange DEF Change, RefActs, refVars
  <2> QED BY <2>1, <2>2
<1> QED BY <1>1, <1>2 DEF RefInv

(* What a step does to one message.                                         *)
LEMMA MailStep ==
    ASSUME IInv, [Next]_vars, NEW m \in Messages
    PROVE  /\ m \in unsent' => m \in unsent
           /\ m \in unsent /\ m \notin unsent' => m \in box'["source"]
           /\ m \in box'["source"] => m \in box["source"] \/ (m \in unsent /\ m \notin unsent')
           /\ m \in box'["target"] => m \in box["target"] \/ (m \in box["source"] /\ InboxCopy(m))
           /\ m \in box["source"] => m \in box'["source"] \/ InboxUnlink(m) \/ \E n \in Animas : Handle(n, m)
           /\ m \in box["target"] => m \in box'["target"] \/ \E n \in Animas : Handle(n, m)
           /\ handled'[m] = handled[m] \/ (handled'[m] = handled[m] + 1 /\ \E n \in Animas : Handle(n, m))
<1>0. /\ box \in [Animas -> SUBSET Messages] /\ handled \in [Messages -> Nat] /\ unsent \in SUBSET Messages
      /\ "source" \in Animas /\ "target" \in Animas /\ Animas = {"source", "target"}
  BY DEF IInv, TypeOK, Animas
<1>1. CASE UNCHANGED mailVars
  BY <1>1 DEF mailVars
<1>2. ASSUME NEW k \in Messages, InboxCopy(k)
      PROVE  /\ unsent' = unsent /\ handled' = handled
             /\ \/ box' = box
                \/ box' = [box EXCEPT !["target"] = @ \cup {k}] /\ k \in box["source"] \cup box["target"]
  BY <1>2 DEF InboxCopy
<1>3. ASSUME NEW k \in Messages, InboxUnlink(k)
      PROVE  unsent' = unsent /\ handled' = handled /\ box' = [box EXCEPT !["source"] = @ \ {k}]
  BY <1>3 DEF InboxUnlink
<1>4. ASSUME NEW k \in Messages, Deliver(k)
      PROVE  k \in unsent /\ unsent' = unsent \ {k} /\ handled' = handled /\ box' = [box EXCEPT !["source"] = @ \cup {k}]
  BY <1>4 DEF Deliver
<1>5. ASSUME NEW k \in Messages, NEW n \in Animas, Handle(n, k)
      PROVE  unsent' = unsent /\ handled' = [handled EXCEPT ![k] = @ + 1] /\ box' = [box EXCEPT ![n] = @ \ {k}]
  BY <1>5 DEF Handle
<1>6. CASE MailActs
  <2>1. PICK k \in Messages : InboxCopy(k) \/ InboxUnlink(k) \/ Deliver(k) \/ \E n \in Animas : Handle(n, k)
    BY <1>6 DEF MailActs
  <2>2. CASE InboxCopy(k)
    BY <1>0, <1>2, <2>2, SMT
  <2>3. CASE InboxUnlink(k)
    BY <1>0, <1>3, <2>3
  <2>4. CASE Deliver(k)
    BY <1>0, <1>4, <2>4, SMT
  <2>5. CASE \E n \in Animas : Handle(n, k)
    BY <1>0, <1>5, <2>5, SMT
  <2> QED BY <2>1, <2>2, <2>3, <2>4, <2>5
<1> QED BY <1>1, <1>6, StepChange DEF Change

(* Handling a message takes it from one inbox and counts.                   *)
LEMMA HandleCounts ==
    ASSUME IInv, [Next]_vars, NEW m \in Messages, NEW n \in Animas, Handle(n, m)
    PROVE  handled'[m] = handled[m] + 1 /\ m \in box[n] /\ alive[n] /\ box' = [box EXCEPT ![n] = @ \ {m}]
  BY DEF Handle, IInv, TypeOK

(* What was copied or handled stays so.                                     *)
LEMMA MovedStays ==
    ASSUME IInv, [Next]_vars, NEW m \in Messages, Moved(m)
    PROVE  Moved(m)'
<1>1. handled[m] \in Nat
  BY DEF IInv, TypeOK
<1>2. CASE \E n \in Animas : Handle(n, m)
  BY <1>1, <1>2, HandleCounts, SMT DEF Moved
<1>3. CASE ~\E n \in Animas : Handle(n, m)
  BY <1>1, <1>3, MailStep DEF Moved
<1> QED BY <1>2, <1>3

(* The substep of the inbox comes after its plan, which then stays.         *)
LEMMA Planned ==
    ASSUME IInv, sub = "inbox"
    PROVE  StepDone("inbox_mapping") /\ ~StepDone("inbox") /\ entered
<1>1. sub # "-" /\ "inbox" \in SetOf(Rewrites) /\ "inbox" \in AllSteps
  BY StepLists, SMT DEF SetOf, AllSteps
<1>2. at = "REWRITE_REFS" /\ entered /\ ~StepDone("inbox")
  BY <1>1, UnitStep
<1>3. \A j \in DOMAIN Substeps(at) : Substeps(at)[j] = sub => \A i \in DOMAIN Substeps(at) : i < j => StepDone(Substeps(at)[i])
  BY <1>1, StepPlace DEF IInv
<1>4. Substeps(at) = Rewrites
  BY <1>2 DEF Substeps
<1>5. StepDone(Rewrites[4])
  BY <1>3, <1>4, StepLists, SMT
<1> QED BY <1>2, <1>5, StepLists

(* The journaled plan of the inbox is never replaced.                       *)
LEMMA PlanStays ==
    ASSUME IInv, [Next]_vars, StepDone("inbox_mapping")
    PROVE  StepDone("inbox_mapping")' /\ jr'["merge"].plan = jr["merge"].plan
<1>1. "inbox_mapping" \in AllSteps
  BY StepLists, SMT DEF SetOf, AllSteps
<1> QED BY <1>1, MarksKept DEF Kept

(* The first pass copies, the second one unlinks.                           *)
LEMMA Passes ==
    ASSUME IInv, NEW m
    PROVE  /\ InboxCopy(m) => At("copy") /\ sub = "inbox" /\ m \in jr["merge"].plan
           /\ InboxUnlink(m) => At("unlink") /\ sub = "inbox" /\ m \in jr["merge"].plan
<1>1. at # "inbox"
  BY PhaseLists, SMT DEF IInv, TypeOK, AllPhases, SetOf
<1> QED BY <1>1 DEF InboxCopy, InboxUnlink, Doing, At

(* How the two passes over the inbox begin and go on.                       *)
LEMMA AtStep ==
    ASSUME IInv, [Next]_vars, NEW x, At(x)'
    PROVE  \/ /\ At(x) /\ UNCHANGED <<sub, todo>>
              /\ \/ mem'.seen \subseteq mem.seen
                 \/ \E m \in Messages : (InboxCopy(m) \/ InboxUnlink(m)) /\ mem'.seen = mem.seen \cup {m}
           \/ mem'.seen = {} /\ x = "copy"
           \/ mem'.seen = {} /\ x = "unlink" /\ InboxNext /\ At("copy")
<1> USE DEF IInv
<1>0. sub' = "inbox" /\ todo' # <<>> /\ Head(todo') = x
  BY DEF At
<1>1. CASE Stays
  <2>1. At(x) /\ UNCHANGED <<sub, todo>>
    BY <1>0, <1>1 DEF Stays, At
  <2> QED BY <2>1, ArtifactStep
<1>2. CASE Works
  <2>1. sub = "inbox" /\ todo' = Tail(todo) /\ mem'.seen = {} /\ cmd' = cmd /\ cmd # "idle"
    BY <1>0, <1>2 DEF Works, Advance
  <2>2. todo \in {<<"copy", "unlink">>, <<"unlink">>, <<>>} /\ todo # <<>>
    BY <1>2, <2>1 DEF EndInv, Works
  <2>3. todo = <<"copy", "unlink">>
    BY <1>0, <2>1, <2>2, SMT
  <2>4. x = "unlink" /\ At("copy") /\ todo' # todo
    BY <1>0, <2>1, <2>3, SMT DEF At
  <2>5. InboxNext
    <3>1. Unit = "inbox"
      BY <2>1 DEF Unit
    <3>2. \A m \in Messages : ~InboxCopy(m) /\ ~InboxUnlink(m)
      BY <2>1, <2>4 DEF InboxCopy, InboxUnlink, Failed, Stop
    <3> QED BY <1>2, <3>1, <3>2, WorksBody, BodyUnit
  <2> QED BY <2>1, <2>4, <2>5
<1>3. CASE SubStart
  <2>1. sub = "-" /\ mem' = mem /\ todo' = Work(sub')
    BY <1>3 DEF SubStart
  <2>2. mem.seen = {}
    BY <2>1 DEF FlowInv
  <2>3. Work("inbox") = <<"copy", "unlink">>
    BY WorkLists
  <2> QED BY <1>0, <2>1, <2>2, <2>3, SMT
<1>4. CASE SubEnd \/ Finish \/ Fails \/ Dies
  BY <1>0, <1>4 DEF SubEnd, Finish, Fails, Failed, Dies, Stop
<1>5. CASE PhaseEnd \/ PhaseStart \/ \E c \in Cmds : Opens(c)
  <2>1. sub = "-"
    BY <1>5 DEF PhaseEnd, PhaseStart, Opens, FlowInv
  <2> QED BY <1>0, <1>5, <2>1 DEF PhaseEnd, PhaseStart, Opens
<1> QED BY <1>1, <1>2, <1>3, <1>4, <1>5, StepProgress DEF Controls

(* Only a copy puts a message into both inboxes.                            *)
LEMMA BothStep ==
    ASSUME IInv, [Next]_vars, NEW m \in Both'
    PROVE  m \in Messages /\ (m \in Both \/ (InboxCopy(m) /\ At("copy")))
<1>1. m \in Messages /\ m \in box'["source"] /\ m \in box'["target"]
  BY TypesKept DEF Both, TypeOK, Animas
<1>2. m \in unsent => m \notin box["source"] /\ m \notin box["target"]
  BY DEF IInv, MailInv
<1> QED BY <1>1, <1>2, MailStep, Passes DEF Both

(* Both passes, interrupted and repeated anywhere, keep what they have      *)
(* achieved.                                                                *)
LEMMA MailInvKept ==
    ASSUME IInv, [Next]_vars
    PROVE  MailInv'
<1>0. /\ unsent' \subseteq Messages /\ mem.seen \subseteq Messages /\ jr["merge"].plan \subseteq Messages /\ "merge" \in Cmds
      /\ mem'.seen \subseteq Messages
  BY TypesKept DEF IInv, TypeOK, Journal, Cmds
<1>1. ASSUME NEW m \in unsent' PROVE m \notin box'["source"] \cup box'["target"]
  <2>1. m \in unsent /\ m \notin box["source"] /\ m \notin box["target"]
    BY <1>0, MailStep DEF IInv, MailInv
  <2> QED BY <1>0, <2>1, MailStep
<1>2. ASSUME At("copy")', NEW m \in mem'.seen PROVE Moved(m)'
  <2>1. At("copy") /\ (m \in mem.seen \/ InboxCopy(m) \/ InboxUnlink(m))
    BY <1>2, AtStep
  <2>2. CASE m \in mem.seen
    BY <1>0, <2>1, <2>2, MovedStays DEF IInv, MailInv
  <2>3. CASE InboxCopy(m)
    <3>1. box' = [box EXCEPT !["target"] = @ \cup {m}]
      <4>1. sub' # "-"
        BY <1>2 DEF At
      <4> QED BY <2>3, <4>1 DEF InboxCopy, Failed, Stop
    <3> QED BY <3>1 DEF Moved, IInv, TypeOK, Animas
  <2>4. ~InboxUnlink(m)
    BY <2>1, Passes DEF At
  <2> QED BY <2>1, <2>2, <2>3, <2>4
<1>3. ASSUME At("unlink")'
      PROVE  (\A m \in jr'["merge"].plan : Moved(m)') /\ Both' \cap mem'.seen = {}
  <2>1. sub = "inbox" /\ (At("copy") \/ At("unlink"))
    BY <1>3, AtStep DEF At
  <2>2. jr'["merge"].plan = jr["merge"].plan
    BY <2>1, Planned, PlanStays
  <2>3. CASE At("copy")
    <3>1. InboxNext /\ mem'.seen = {}
      BY <1>3, <2>3, AtStep DEF At
    <3>2. \A m \in jr["merge"].plan : Moved(m)
      BY <2>3, <3>1 DEF InboxNext, IInv, MailInv
    <3> QED BY <1>0, <2>2, <3>1, <3>2, MovedStays
  <2>4. CASE At("unlink")
    <3>1. (\A m \in jr["merge"].plan : Moved(m)) /\ Both \cap mem.seen = {}
      BY <2>4 DEF IInv, MailInv
    <3>2. Both' \subseteq Both
      BY <2>4, BothStep DEF At
    <3>3. ASSUME NEW m \in Both', m \in mem'.seen PROVE FALSE
      <4>1. m \notin mem.seen
        BY <3>1, <3>2, <3>3
      <4>2. InboxCopy(m) \/ InboxUnlink(m)
        BY <1>3, <2>4, <3>3, <4>1, AtStep DEF At
      <4>3. InboxUnlink(m)
        BY <2>4, <4>2, Passes DEF At
      <4>4. m \notin box'["source"]
        BY <4>3 DEF InboxUnlink, IInv, TypeOK, Animas
      <4> QED BY <3>3, <4>4 DEF Both
    <3> QED BY <1>0, <2>2, <3>1, <3>3, MovedStays
  <2> QED BY <2>1, <2>3, <2>4
<1>4. ASSUME NEW m \in Both' PROVE StepDone("inbox_mapping")' /\ m \in jr'["merge"].plan
  <2>1. StepDone("inbox_mapping") /\ m \in jr["merge"].plan
    <3>1. CASE m \in Both
      BY <3>1 DEF IInv, MailInv
    <3>2. CASE InboxCopy(m)
      BY <3>2, Passes, Planned
    <3> QED BY <3>1, <3>2, BothStep
  <2> QED BY <2>1, PlanStays
<1>5. ASSUME StepDid("inbox", "unlink")', NEW m \in Both' PROVE FALSE
  <2>1. CASE StepDid("inbox", "unlink")
    <3>1. InboxCopy(m) /\ At("copy")
      BY <2>1, BothStep DEF IInv, MailInv
    <3>2. ~Pending("unlink")
      BY <2>1, <3>1, Planned DEF StepDid, At
    <3>3. todo = <<"copy", "unlink">>
      BY <3>1, SMT DEF At, IInv, EndInv
    <3> QED BY <3>2, <3>3, SMT DEF Pending
  <2>2. CASE ~StepDid("inbox", "unlink")
    <3>1. InboxNext /\ At("unlink")
      BY <1>5, <2>2, FirstUnlink
    <3>2. m \in Both
      BY <3>1, BothStep DEF At
    <3>3. m \in jr["merge"].plan /\ m \notin mem.seen
      BY <3>1, <3>2 DEF IInv, MailInv
    <3> QED BY <3>1, <3>3 DEF InboxNext
  <2> QED BY <2>1, <2>2
<1> QED BY <1>1, <1>2, <1>3, <1>4, <1>5 DEF MailInv

(* No step loses a message.                                                 *)
LEMMA MailKeptStep ==
    ASSUME IInv, [Next]_vars
    PROVE  MailKept'
<1> SUFFICES ASSUME NEW m \in Messages, m \notin unsent'
             PROVE  m \in box'["source"] \/ m \in box'["target"] \/ handled'[m] > 0
  BY DEF MailKept
<1>1. handled[m] \in Nat
  BY DEF IInv, TypeOK
<1>2. CASE m \in unsent
  BY <1>2, MailStep
<1>3. CASE Moved(m)
  BY <1>3, MovedStays DEF Moved
<1>4. CASE m \in box["source"]
  <2>1. CASE \E n \in Animas : Handle(n, m)
    BY <1>1, <2>1, HandleCounts, SMT
  <2>2. CASE InboxUnlink(m)
    <3>1. Moved(m)
      BY <2>2, Passes DEF IInv, MailInv
    <3> QED BY <1>3, <3>1
  <2> QED BY <1>4, <2>1, <2>2, MailStep
<1>5. m \in unsent \/ m \in box["source"] \/ Moved(m)
  BY DEF IInv, MailKept, Moved
<1> QED BY <1>2, <1>3, <1>4, <1>5

(* While a message is in both inboxes nobody reads them, unless disturbed.  *)
LEMMA NoBoth ==
    ASSUME IInv, ~disturbed, NEW n \in Animas, alive[n]
    PROVE  Both = {}
<1> SUFFICES ASSUME Both # {} PROVE FALSE
  OBVIOUS
<1>0. PhaseOrder /\ StepOrder /\ "inbox_mapping" \in SetOf(Rewrites) /\ "inbox" \in SetOf(Rewrites)
  BY StepLists, SMT DEF IInv, SetOf
<1>1. StepDone("inbox_mapping") /\ ~StepDone("inbox")
  BY DEF IInv, MailInv, StepDid
<1>2. Mark("REWRITE_REFS") # "none" /\ ~Completed("merge", "REWRITE_REFS")
  BY <1>0, <1>1, RewriteOrder
<1>3. Completed("merge", "QUIESCE") /\ Mark("VERIFY") = "none"
  BY <1>0, <1>2, MergeOrder
<1> QED BY <1>3 DEF IInv, QuietInv, Did, Mark

(* Nobody handles a message while it is in both inboxes.                    *)
LEMMA OnceKept ==
    ASSUME IInv, [Next]_vars
    PROVE  OnceInv' /\ MailOnce'
<1> SUFFICES ASSUME ~disturbed', NEW m \in Messages
             PROVE  (m \in unsent' \cup box'["source"] \cup box'["target"] => handled'[m] = 0) /\ handled'[m] <= 1
  BY DEF OnceInv, MailOnce
<1>1. ~disturbed /\ handled[m] \in Nat /\ handled[m] <= 1
  BY StaysDisturbed DEF IInv, TypeOK, MailOnce
<1>2. m \in unsent \cup box["source"] \cup box["target"] => handled[m] = 0
  BY <1>1 DEF IInv, OnceInv
<1>3. CASE \E n \in Animas : Handle(n, m)
  <2>1. PICK n \in Animas : Handle(n, m)
    BY <1>3
  <2>2. handled'[m] = handled[m] + 1 /\ m \in box[n] /\ alive[n] /\ box' = [box EXCEPT ![n] = @ \ {m}]
    BY <2>1, HandleCounts
  <2>3. m \notin Both
    BY <1>1, <2>2, NoBoth
  <2>4. box \in [Animas -> SUBSET Messages] /\ n \in {"source", "target"} /\ Animas = {"source", "target"}
    BY DEF IInv, TypeOK, Animas
  <2>5. m \notin unsent'
    BY <2>2, <2>4, MailStep DEF IInv, MailInv
  <2>6. m \notin box'["source"] /\ m \notin box'["target"]
    BY <2>2, <2>3, <2>4 DEF Both
  <2>7. handled[m] = 0
    BY <1>2, <2>2, <2>4
  <2> QED BY <2>2, <2>5, <2>6, <2>7, SMT
<1>4. CASE ~\E n \in Animas : Handle(n, m)
  <2>1. handled'[m] = handled[m]
    BY <1>4, MailStep
  <2>2. m \in unsent' \cup box'["source"] \cup box'["target"] => m \in unsent \cup box["source"] \cup box["target"]
    BY MailStep
  <2> QED BY <1>1, <1>2, <2>1, <2>2
<1> QED BY <1>3, <1>4
(* The window.                                                             *)
LEMMA WindowInvKept ==
    ASSUME IInv, [Next]_vars
    PROVE  WindowInv'
<1>0. Kept /\ Lasts /\ \A i \in DOMAIN MergePhases : MergePhases[i] \in AllPhases
  BY StepProgress DEF Progress, AllPhases, SetOf
<1>1. ASSUME jr'["merge"].status = "done", NEW i \in DOMAIN MergePhases PROVE Completed("merge", MergePhases[i])'
  <2>1. Completed("merge", MergePhases[i])
    BY <1>0, <1>1 DEF IInv, WindowInv, Lasts
  <2> QED BY <1>0, <2>1, PhaseItems DEF Kept
<1>2. over => over'
  <2>1. CASE UNCHANGED endVars
    BY <2>1 DEF endVars
  <2>2. CASE EndActs
    BY <2>2 DEF EndActs, ArchiveSource, RemoveSourceConfig, WindowPasses
  <2> QED BY <2>1, <2>2, StepChange DEF Change
<1>3. ASSUME Did("finalize", "PREFLIGHT", "ready")' PROVE over' /\ jr'["merge"].status = "done"
  <2>1. CASE Did("finalize", "PREFLIGHT", "ready")
    BY <1>0, <1>2, <2>1 DEF IInv, WindowInv, Lasts
  <2>2. CASE ~Did("finalize", "PREFLIGHT", "ready")
    BY <1>3, <2>2, FirstReady, SMT
  <2> QED BY <2>1, <2>2
<1>4. ASSUME dir' = "archive" \/ ~entry' PROVE Completed("finalize", "PREFLIGHT")'
  <2>1. Completed("finalize", "PREFLIGHT")
    <3>1. CASE dir' = dir /\ entry' = entry
      BY <1>4, <3>1 DEF IInv, WindowInv
    <3>2. CASE ArchiveSource \/ RemoveSourceConfig
      <4>1. PICK p \in {"ARCHIVE_SOURCE", "REMOVE_CONFIG"} : entered /\ Unit = p
        BY <3>2 DEF ArchiveSource, RemoveSourceConfig, Doing, Unit
      <4>2. InPhase(p)
        BY <4>1, UnitPhase, Apart
      <4>3. jr["finalize"].phase[p] # "none"
        BY <4>2, Apart DEF InPhase
      <4> QED BY <4>3, MergeOrder DEF IInv
    <3> QED BY <3>1, <3>2, StepChange DEF Change, EndActs, WindowPasses, endVars
  <2> QED BY <1>0, <2>1, PhaseItems, Apart DEF Kept
<1> QED BY <1>1, <1>3, <1>4 DEF WindowInv

-----------------------------------------------------------------------------
(* The invariant holds after every step.                                    *)
LEMMA InvStep ==
    ASSUME IInv, [Next]_vars
    PROVE  IInv'
<1>1. TypeOK' /\ FlowInv' /\ EndInv' /\ PhaseOrder' /\ StepOrder'
  BY TypesKept, StepProgress DEF Progress
<1>2. QuietInv' /\ SnapInv' /\ NameInv' /\ MapInv' /\ CiteInv' /\ IndexInv' /\ RefInv'
  BY QuietKept, SnapKept, NamesKept, MapKept, CitesKept, IndexKept, RefsKept
<1>3. MailInv' /\ MailKept' /\ OnceInv' /\ MailOnce' /\ WindowInv'
  BY MailInvKept, MailKeptStep, OnceKept, WindowInvKept
<1> QED BY <1>1, <1>2, <1>3 DEF IInv

-----------------------------------------------------------------------------
(* The theorems.                                                            *)
LEMMA Invariance == Spec => []IInv
<1>1. Init => IInv
  BY InitInv
<1>2. IInv /\ [Next]_vars => IInv'
  BY InvStep
<1> QED BY <1>1, <1>2, PTL DEF Spec

(* Both journals, the process and everything it or the server writes keep   *)
(* their types: in particular every mapping MergeJournal records gives a    *)
(* source file one of the names _copy_collision_safe makes from its own.    *)
THEOREM MergeTypes == Spec => []TypeOK
<1>1. IInv => TypeOK
  BY DEF IInv
<1> QED BY <1>1, Invariance, PTL

(* snapshot is complete before _run_phase lets merge_memory change the      *)
(* target's memory and no resumed run writes it again, so the rollback the  *)
(* snapshot is for stays possible, unless an anima was let run in between.  *)
THEOREM RollbackPossible == Spec => []SnapshotFirst
<1>1. IInv => SnapshotFirst
  <2> SUFFICES ASSUME IInv, tgt # own, ~disturbed PROVE snap = own
    BY DEF SnapshotFirst
  <2>1. Completed("merge", "SNAPSHOT")
    BY DEF IInv, SnapInv
  <2>2. \A n \in Names : snap[n] = own[n]
    BY <2>1, ContentTypes DEF IInv, SnapInv, Did
  <2>3. snap \in [Names -> Content] /\ own \in [Names -> Content]
    BY DEF IInv, TypeOK
  <2> QED BY <2>2, <2>3, SMT
<1> QED BY <1>1, Invariance, PTL

(* Once MERGE_MEMORY is journaled as completed every source file is whole   *)
(* in the target under the journaled name, for any number of copies torn by *)
(* a kill, repeated by --resume or crossed by a file of the target's own.   *)
THEOREM MemoryArrives == Spec => []NothingLost
<1>1. IInv => NothingLost
  BY DEF IInv, MapInv, Mapping, Did, NothingLost
<1> QED BY <1>1, Invariance, PTL

(* Once rewrite_memory_references is journaled every copied document cites  *)
(* the copy of what it cited in the source, whatever names the collisions   *)
(* gave the two.                                                            *)
THEOREM CitationsArrive == Spec => []CitationsFollow
<1>1. IInv => CitationsFollow
  <2> SUFFICES ASSUME IInv, StepDone("memory_references"), NEW f \in Files, f \notin Generated
               PROVE  /\ tgt[jr["merge"].map[f]].ref = jr["merge"].map[Ref[f]]
                      /\ tgt[jr["merge"].map[Ref[f]]].of = Ref[f]
    BY DEF CitationsFollow
  <2>1. StepDid("memory_references", f)
    BY DEF StepDid
  <2>2. Completed("merge", "MERGE_MEMORY")
    BY <2>1, Cited
  <2>3. Ref[f] \in Files
    BY RefAssumption
  <2>4. tgt[jr["merge"].map[Ref[f]]].of = Ref[f]
    BY <2>2, <2>3 DEF IInv, MapInv, Mapping, Did
  <2> QED BY <2>1, <2>4 DEF IInv, CiteInv
<1> QED BY <1>1, Invariance, PTL

(* No step of merge_memory, of a torn copy, of rewrite_memory_references or *)
(* of the running target replaces or removes a file that is the target's    *)
(* own: a name is taken only if it is free or has this very content.        *)
THEOREM TargetFilesSafe == Spec => OwnFilesKept
<1>1. IInv /\ [Next]_vars => [\A n \in Names : tgt[n] = Own => tgt'[n] = Own]_vars
  <2> SUFFICES ASSUME IInv, [Next]_vars, NEW k \in Names, tgt[k] = Own PROVE tgt'[k] = Own
    OBVIOUS
  <2>1. ASSUME NEW f \in Files, NEW n \in Names, Copies(f, n) \/ Tears(f, n) PROVE tgt'[k] = Own
    <3>1. n # k
      BY <2>1, ContentTypes DEF Copies, Tears, Fits
    <3> QED BY <2>1, <3>1 DEF Copies, Tears, Puts
  <2>2. ASSUME NEW f \in Files, Takes(f) PROVE tgt'[k] = Own
    <3>1. <<f, 0>> # k
      BY <2>2, ContentTypes DEF Takes
    <3> QED BY <2>2, <3>1 DEF Takes, Puts
  <2>3. ASSUME NEW f \in Files, Cites(f) PROVE tgt'[k] = Own
    <3>1. Own.of # f
      BY FilesAssumption DEF Own
    <3>2. tgt' = tgt \/ Puts(jr["merge"].map[f], [of |-> f, ref |-> jr["merge"].map[Ref[f]]])
      BY <2>3 DEF Cites
    <3>3. jr["merge"].map[f] # k
      BY <2>3, <3>1 DEF Cites
    <3> QED BY <3>2, <3>3 DEF Puts
  <2>4. ASSUME NEW f \in Files, SnapshotFile(f) PROVE tgt' = tgt
    BY <2>4 DEF SnapshotFile
  <2>5. UNCHANGED memVars \/ Rebuild => tgt' = tgt
    BY DEF memVars, Rebuild
  <2> QED BY <2>1, <2>2, <2>3, <2>4, <2>5, MemoryStep
<1> QED BY <1>1, Invariance, PTL DEF Spec, OwnFilesKept

(* rewrite_inbox writes every copy before it unlinks the first original, so *)
(* no kill, exception or repetition of it loses a message that was sent.    *)
THEOREM MailSafe == Spec => []MailKept
<1>1. IInv => MailKept
  BY DEF IInv
<1> QED BY <1>1, Invariance, PTL

(* A message that is moved is handled once, not from the original and from  *)
(* the copy, if quiesce's promise that nobody runs meanwhile was kept.      *)
THEOREM MailHandledOnce == Spec => []MailOnce
<1>1. IInv => MailOnce
  BY DEF IInv
<1> QED BY <1>1, Invariance, PTL

(* What verify's scan found retargeted stays so: after                      *)
(* _sync_live_reference_state no late save of a running server brings the   *)
(* source back.                                                             *)
THEOREM ReferencesSettled == Spec => []ReferencesStay
<1>1. IInv => ReferencesStay
  BY DEF IInv, RefInv, Did, ReferencesStay
<1> QED BY <1>1, Invariance, PTL

(* When REBUILD_INDEXES is journaled every index was built from the memory  *)
(* as the merge leaves it, in whichever runs the substeps were completed.   *)
THEOREM IndexesComplete == Spec => []IndexesFresh
<1>1. IInv => IndexesFresh
  <2> SUFFICES ASSUME IInv, Completed("merge", "REBUILD_INDEXES"), jr["merge"].phase["VERIFY"] = "none", ~disturbed,
                      NEW s \in SetOf(Rebuilds)
               PROVE  idx[s] = Memory
    BY DEF IndexesFresh
  <2>1. StepDone(s)
    BY RewriteOrder DEF IInv
  <2> QED BY <2>1 DEF IInv, IndexInv, StepDid
<1> QED BY <1>1, Invariance, PTL

(* merge-finalize archives the source's directory or removes its            *)
(* registration only after a finished merge and the rollback window, in     *)
(* whichever run its _preflight was passed.                                 *)
THEOREM WindowRespected == Spec => []WindowKept
<1>1. IInv => WindowKept
  BY DEF IInv, WindowInv, Did, WindowKept
<1> QED BY <1>1, Invariance, PTL
=============================================================================
