------------------------------ MODULE Supervisor ------------------------------
(* The server's ProcessSupervisor and one of its animas: coroutines of one  *)
(* event loop start, stop and restart the anima's child process.  They are  *)
(* API requests, the reconciliation loop, the tasks the health check spawns *)
(* for a failed or hung child, and shutdown_all.  A coroutine runs without  *)
(* interruption from one await to the next; an action is such a run.        *)
(* start_anima and stop_anima are serialised by a FIFO lock per anima.      *)
EXTENDS Naturals, Sequences, FiniteSets, FiniteSetsExt

CONSTANTS
    Callers,      \* concurrent API requests
    Tasks,        \* concurrent failure and hang handlers
    Handles,      \* bound: process handles in use at a time (one more than coroutines)
    MaxRetries,   \* restart_policy.max_retries
    MaxFaults,    \* bound: crashes, failing starts, hang verdicts and slow stops
    MaxCalls      \* bound: API requests and edits of status.json

ASSUME BoundsAssumption ==
    /\ MaxRetries \in Nat \ {0} /\ MaxFaults \in Nat /\ MaxCalls \in Nat
    /\ Handles \subseteq Nat \ {0} /\ 1 \in Handles
    /\ Callers \cap Tasks = {} /\ (Callers \cup Tasks) \cap {"rec", "shut", "none"} = {}

VARIABLES
    enabled,      \* status.json: enabled
    wanted,       \* status.json: restart_requested
    shutdown,     \* _shutdown
    reg,          \* processes[anima]: the registered handle, 0 for none
    h,            \* the process handles: state and child process
    holder,       \* the coroutine that holds the lifecycle lock, or "none"
    queue,        \* the coroutines that wait for it
    fresh,        \* the holder found it free and has not come to an await since
    starting,     \* the anima is in _starting
    restarting,   \* the anima is in _restarting
    failed,       \* the anima is in _permanently_failed
    cool,         \* cooldowns that have not passed
    count,        \* _restart_counts
    wk,           \* the coroutines
    scan,         \* the enabled flag as the reconciliation read it
    seen,         \* the anima was registered when it looked
    dropped,      \* handles given up with a live child
    faults,
    calls

vars == <<enabled, wanted, shutdown, reg, h, holder, queue, fresh, starting, restarting, failed, cool, count,
          wk, scan, seen, dropped, faults, calls>>
lock == <<holder, queue, fresh>>
view == <<scan, seen>>
files == <<enabled, wanted>>
guards == <<starting, restarting>>
record == <<failed, cool, count>>
bounds == <<dropped, faults, calls>>

Workers == Callers \cup Tasks \cup {"rec", "shut"}
NoHandle == [st |-> "STOPPED", proc |-> "none"]
Idle == [pc |-> "idle", ret |-> "idle", h |-> 0, mine |-> 0, n |-> 0, att |-> 0, out |-> "ok"]

Init ==
    /\ enabled \in BOOLEAN /\ wanted = FALSE /\ shutdown = FALSE
    /\ reg = IF enabled THEN 1 ELSE 0
    /\ h = [k \in Handles |-> IF k = reg THEN [st |-> "RUNNING", proc |-> "alive"] ELSE NoHandle]
    /\ holder = "none" /\ queue = <<>> /\ fresh = FALSE
    /\ starting = FALSE /\ restarting = FALSE /\ failed = FALSE
    /\ cool = {} /\ count \in IF enabled THEN 0 .. MaxRetries ELSE {0}
    /\ wk = [w \in Workers |-> Idle]
    /\ scan = FALSE /\ seen = FALSE
    /\ dropped = {}
    /\ faults = 0 /\ calls = 0

(* w is not at an await: nothing else runs before it goes on.               *)
Running(w) ==
    \/ wk[w].pc \in {"restart", "restart.start", "restart.end", "respawn", "respawn.start", "respawn.check",
                     "respawn.none", "fail.end", "rec.started", "shut.barrier"}
    \/ fresh /\ holder = w
Quiet == \A w \in Workers : ~Running(w)
(* w has come to l and it is its turn.                                      *)
At(w, l) == wk[w].pc = l /\ \A v \in Workers : Running(v) => v = w
(* w goes on at l.                                                          *)
Goto(w, l) == wk' = [wk EXCEPT ![w].pc = l]
(* w takes the lock at once when it is free, or else queues for it.         *)
Acquire(w) ==
    /\ holder' = IF holder = "none" THEN w ELSE holder
    /\ queue' = IF holder = "none" THEN queue ELSE Append(queue, w)
    /\ fresh' = (holder = "none")
(* w calls start_anima or stop_anima, and returns to l.                     *)
Call(w, sub, l) ==
    /\ wk' = [wk EXCEPT ![w].pc = sub, ![w].ret = l]
    /\ Acquire(w)
(* The lock goes to the first of the waiters q.                             *)
Release(q) ==
    /\ holder' = IF q = <<>> THEN "none" ELSE Head(q)
    /\ queue' = IF q = <<>> THEN <<>> ELSE Tail(q)
    /\ fresh' = FALSE
(* The waiters q without w, whose wait is cancelled.                        *)
Without(q, w) ==
    IF \A i \in DOMAIN q : q[i] # w THEN q
    ELSE LET i == CHOOSE i \in DOMAIN q : q[i] = w
         IN  [j \in 1 .. Len(q) - 1 |-> q[IF j < i THEN j ELSE j + 1]]
(* w leaves the locked section.                                             *)
Return(w, out) ==
    /\ wk' = [wk EXCEPT ![w] = IF wk[w].ret = "idle" THEN Idle
                               ELSE [wk[w] EXCEPT !.pc = wk[w].ret, !.ret = "idle", !.h = 0, !.out = out]]
    /\ Release(queue)
(* w stays in it, and comes to an await at l.                               *)
Stay(w, l, k) ==
    /\ wk' = [wk EXCEPT ![w].pc = l, ![w].h = k]
    /\ fresh' = FALSE /\ UNCHANGED <<holder, queue>>
Holds(w) == holder = w

(* A handle that nothing refers to any more is garbage.                     *)
Alive(k) == k # 0 /\ h[k].proc = "alive"
Children == {k \in Handles : Alive(k)}
Unused(k) == k # reg /\ ~Alive(k) /\ \A w \in Workers : k \notin {wk[w].h, wk[w].mine}

-----------------------------------------------------------------------------
(* start_anima and ProcessHandle.start.  A child that finds another one     *)
(* alive exits (run/animas/<name>.lock), but the other one's socket may     *)
(* answer in its place.                                                     *)

(* Mutant: a registered anima is started again.                              *)
StartEnterAgain(w) ==
    /\ At(w, "start") /\ Holds(w)
    /\ IF shutdown \/ ~enabled \/ starting
       THEN Return(w, "ok") /\ UNCHANGED <<h, starting>>
       ELSE \E k \in Handles :
            /\ Unused(k) /\ \A j \in Handles : Unused(j) => k <= j
            /\ h' = [h EXCEPT ![k] = [st |-> "STARTING", proc |-> IF Children = {} THEN "alive" ELSE "dead"]]
            /\ starting' = TRUE
            /\ Stay(w, "start.wait", k)
    /\ UNCHANGED <<files, shutdown, reg, restarting, record, bounds, view>>

StartEnter(w) ==
    /\ At(w, "start") /\ Holds(w)
    /\ IF shutdown \/ ~enabled \/ reg # 0 \/ starting
       THEN Return(w, "ok") /\ UNCHANGED <<h, starting>>
       ELSE \E k \in Handles :
            /\ Unused(k) /\ \A j \in Handles : Unused(j) => k <= j
            /\ h' = [h EXCEPT ![k] = [st |-> "STARTING", proc |-> IF Children = {} THEN "alive" ELSE "dead"]]
            /\ starting' = TRUE
            /\ Stay(w, "start.wait", k)
    /\ UNCHANGED <<files, shutdown, reg, restarting, record, bounds, view>>

(* Mutant: shutdown is not looked at after the wait.                         *)
StartReadyUnchecked(w) ==
    /\ At(w, "start.wait") /\ Children # {}
    /\ h' = [h EXCEPT ![wk[w].h].st = "RUNNING"]
    /\ reg' = wk[w].h
    /\ cool' = cool \ {"start"}
    /\ Goto(w, "start.status")
    /\ UNCHANGED <<files, shutdown, lock, guards, failed, count, bounds, view>>

StartReady(w) ==
    /\ At(w, "start.wait") /\ Children # {}
    /\ h' = [h EXCEPT ![wk[w].h].st = "RUNNING"]
    /\ IF shutdown
       THEN Goto(w, "start.undo") /\ UNCHANGED <<reg, cool>>
       ELSE /\ reg' = wk[w].h
            /\ cool' = cool \ {"start"}
            /\ Goto(w, "start.status")
    /\ UNCHANGED <<files, shutdown, lock, guards, failed, count, bounds, view>>

(* The child exits early or is not ready in time; _cleanup kills it.        *)
StartFails(w) ==
    /\ At(w, "start.wait")
    /\ IF Alive(wk[w].h) THEN faults < MaxFaults /\ faults' = faults + 1 ELSE UNCHANGED faults
    /\ h' = [h EXCEPT ![wk[w].h] = NoHandle]
    /\ starting' = FALSE
    /\ Return(w, "error")
    /\ UNCHANGED <<files, shutdown, reg, restarting, record, dropped, calls, view>>

(* The registered child was asked for its bootstrap status.                 *)
StartDone(w) ==
    /\ At(w, "start.status")
    /\ starting' = FALSE
    /\ Return(w, "ok")
    /\ UNCHANGED <<files, shutdown, reg, h, restarting, record, bounds, view>>

StartUndo(w) ==
    /\ At(w, "start.undo")
    /\ h' = [h EXCEPT ![wk[w].h] = NoHandle]
    /\ starting' = FALSE
    /\ Return(w, "ok")
    /\ UNCHANGED <<files, shutdown, reg, restarting, record, bounds, view>>

-----------------------------------------------------------------------------
(* stop_anima and ProcessHandle.stop                                        *)

Stopped(w, k) ==
    /\ h' = [h EXCEPT ![k] = NoHandle]
    /\ reg' = IF reg = k THEN 0 ELSE reg
    /\ cool' = cool \cup {"stop"}
    /\ Return(w, "ok")

StopEnter(w) ==
    /\ At(w, "stop") /\ Holds(w)
    /\ IF reg = 0 THEN Return(w, "ok") /\ UNCHANGED <<h, reg, cool>>
       ELSE IF h[reg].st \in {"STOPPED", "FAILED"} /\ ~Alive(reg) THEN Stopped(w, reg)
       ELSE Stay(w, "stop.drain", reg) /\ UNCHANGED <<h, reg, cool>>
    /\ UNCHANGED <<files, shutdown, guards, failed, count, bounds, view>>

(* Streams and background lanes are drained, the child is asked to leave.   *)
StopDrained(w) ==
    /\ At(w, "stop.drain")
    /\ IF h[wk[w].h].proc = "none" THEN Stopped(w, wk[w].h)
       ELSE /\ h' = [h EXCEPT ![wk[w].h].st = "STOPPING"]
            /\ Goto(w, "stop.wait")
            /\ UNCHANGED <<lock, reg, cool>>
    /\ UNCHANGED <<files, shutdown, guards, failed, count, bounds, view>>

(* It leaves, or SIGTERM or SIGKILL ends it.                                *)
StopDone(w) ==
    /\ At(w, "stop.wait")
    /\ Stopped(w, wk[w].h)
    /\ UNCHANGED <<files, shutdown, guards, failed, count, bounds, view>>

-----------------------------------------------------------------------------
(* restart_anima                                                            *)

RestartEnter(w) ==
    /\ At(w, "restart")
    /\ count' = IF shutdown THEN count ELSE 0
    /\ failed' = (failed /\ shutdown)
    /\ cool' = IF shutdown THEN cool ELSE cool \ {"failed"}
    /\ restarting' = TRUE
    /\ IF reg # 0 THEN Call(w, "stop", "restart.start") ELSE Call(w, "start", "restart.end")
    /\ UNCHANGED <<files, shutdown, reg, h, starting, bounds, view>>

RestartStart(w) ==
    /\ At(w, "restart.start")
    /\ Call(w, "start", "restart.end")
    /\ UNCHANGED <<files, shutdown, reg, h, guards, record, bounds, view>>

(* Mutant: the guard stays.                                                  *)
RestartEndLeaks(w) ==
    /\ At(w, "restart.end")
    /\ wk' = [wk EXCEPT ![w] = IF w = "rec" THEN [@ EXCEPT !.pc = "rec.look"] ELSE Idle]
    /\ UNCHANGED <<files, shutdown, reg, h, lock, guards, record, bounds, view>>

RestartEnd(w) ==
    /\ At(w, "restart.end")
    /\ restarting' = FALSE
    /\ wk' = [wk EXCEPT ![w] = IF w = "rec" THEN [@ EXCEPT !.pc = "rec.look"] ELSE Idle]
    /\ UNCHANGED <<files, shutdown, reg, h, lock, starting, record, bounds, view>>

-----------------------------------------------------------------------------
(* _mark_process_error, a no-op during shutdown; k is 0 when no handle is   *)
(* left.                                                                    *)
MarkError(k) ==
    /\ failed' = (failed \/ ~shutdown)
    /\ cool' = IF shutdown THEN cool ELSE cool \cup {"failed"}
    /\ h' = IF shutdown \/ k = 0 THEN h ELSE [h EXCEPT ![k].st = "FAILED"]

Spent == count >= MaxRetries

(* _handle_process_failure, up to its first await: task t, about handle k,  *)
(* whose record is now g.                                                   *)
HandleFailure(t, k, g) ==
    IF shutdown \/ restarting
    THEN /\ h' = [h EXCEPT ![k] = g]
         /\ wk' = [wk EXCEPT ![t] = Idle]
         /\ UNCHANGED <<lock, restarting, record>>
    ELSE /\ restarting' = TRUE
         /\ h' = [h EXCEPT ![k] = [g EXCEPT !.st = IF enabled /\ Spent THEN "FAILED" ELSE "RESTARTING"]]
         /\ LET go(l, n) == wk' = [wk EXCEPT ![t] = [Idle EXCEPT !.pc = l, !.ret = "fail.end", !.mine = k, !.n = n]]
            IN  \/ /\ ~enabled /\ reg # 0
                   /\ go("stop", 0) /\ Acquire(t)
                   /\ UNCHANGED record
                \/ /\ ~enabled /\ reg = 0
                   /\ go("fail.end", 0)
                   /\ UNCHANGED <<lock, record>>
                \/ /\ enabled /\ Spent
                   /\ failed' = TRUE /\ cool' = cool \cup {"failed"}
                   /\ go("fail.told", 0)
                   /\ UNCHANGED <<lock, count>>
                \/ /\ enabled /\ ~Spent
                   /\ go("fail.sleep", count)
                   /\ UNCHANGED <<lock, record>>

-----------------------------------------------------------------------------
(* _check_process_health: the loop looks at the registered handle and       *)
(* spawns a handler, which runs at once.  The ping's await is left out.     *)

Free(t) == At(t, "idle") /\ t = CHOOSE u \in Tasks : wk[u].pc = "idle"
Checked == ~shutdown /\ reg # 0 /\ ~failed /\ Quiet

(* A stop that takes longer than 30 s is taken for a stuck one.             *)
HealthStuck(t) ==
    /\ Checked /\ h[reg].st = "STOPPING" /\ Free(t)
    /\ faults < MaxFaults /\ faults' = faults + 1
    /\ HandleFailure(t, reg, [h[reg] EXCEPT !.st = "FAILED"])
    /\ UNCHANGED <<files, shutdown, reg, starting, dropped, calls, view>>

HealthFailed(t) ==
    /\ Checked /\ h[reg].st \notin {"STOPPING", "RESTARTING"} /\ Free(t)
    /\ h[reg].st = "FAILED" \/ ~Alive(reg)
    /\ HandleFailure(t, reg, h[reg])
    /\ UNCHANGED <<files, shutdown, reg, starting, bounds, view>>

(* Too many missed pings, or busy without progress: _handle_process_hang,   *)
(* whose kill() waits for the process in an executor.  (Bound: only the     *)
(* last fault is a hang.)                                                   *)
HealthHang(t) ==
    /\ Checked /\ h[reg].st = "RUNNING" /\ Alive(reg) /\ Free(t)
    /\ faults + 1 = MaxFaults /\ faults' = MaxFaults
    /\ h' = [h EXCEPT ![reg].proc = "dead"]
    /\ wk' = [wk EXCEPT ![t] = [Idle EXCEPT !.pc = "kill", !.mine = reg]]
    /\ UNCHANGED <<files, shutdown, reg, lock, guards, record, dropped, calls, view>>

(* After the wait another coroutine may have cleaned the handle up: kill()  *)
(* then raises and the task ends.                                           *)
Killed(t) ==
    /\ At(t, "kill")
    /\ IF h[wk[t].mine].proc = "none"
       THEN wk' = [wk EXCEPT ![t] = Idle] /\ UNCHANGED <<h, lock, restarting, record>>
       ELSE HandleFailure(t, wk[t].mine, [st |-> "FAILED", proc |-> "none"])
    /\ UNCHANGED <<files, shutdown, reg, starting, bounds, view>>

HealthStable ==
    /\ Checked /\ h[reg].st = "RUNNING" /\ Alive(reg) /\ count > 0
    /\ count' = 0
    /\ UNCHANGED <<files, shutdown, reg, h, lock, guards, failed, cool, wk, bounds, view>>

-----------------------------------------------------------------------------
(* The rest of _handle_process_failure, after the backoff                   *)

(* Before the backoff a damaged index may have been repaired.               *)
FailRepaired(t) ==
    /\ At(t, "fail.sleep")
    /\ count' = 0
    /\ wk' = [wk EXCEPT ![t].n = 0]
    /\ UNCHANGED <<files, shutdown, reg, h, lock, guards, failed, cool, bounds, view>>

FailWake(t) ==
    /\ At(t, "fail.sleep")
    /\ IF enabled
       THEN /\ count' = wk[t].n + 1
            /\ wk' = [wk EXCEPT ![t].pc = "respawn", ![t].att = 1]
            /\ UNCHANGED lock
       ELSE /\ IF reg # 0 THEN Call(t, "stop", "fail.end") ELSE Goto(t, "fail.end") /\ UNCHANGED lock
            /\ UNCHANGED count
    /\ UNCHANGED <<files, shutdown, reg, h, guards, failed, cool, bounds, view>>

(* _respawn_anima_transaction: the head of its loop                         *)
Respawn(t) ==
    /\ At(t, "respawn") \/ At(t, "respawn.sleep")
    /\ IF shutdown \/ ~enabled
       THEN IF reg # 0 THEN Call(t, "stop", "respawn.none") ELSE Goto(t, "respawn.none") /\ UNCHANGED lock
       ELSE IF reg # 0 THEN Call(t, "stop", "respawn.start") ELSE Call(t, "start", "respawn.check")
    /\ UNCHANGED <<files, shutdown, reg, h, guards, record, bounds, view>>

RespawnStart(t) ==
    /\ At(t, "respawn.start")
    /\ Call(t, "start", "respawn.check")
    /\ UNCHANGED <<files, shutdown, reg, h, guards, record, bounds, view>>

RespawnSucceeds(t) ==
    /\ At(t, "respawn.check") /\ wk[t].out = "ok" /\ reg # 0
    /\ failed' = FALSE
    /\ cool' = cool \ {"start", "failed"}
    /\ Goto(t, "fail.end")
    /\ UNCHANGED <<files, shutdown, reg, h, lock, guards, count, bounds, view>>

RespawnRefused(t) ==
    /\ At(t, "respawn.check") /\ wk[t].out = "ok" /\ reg = 0
    /\ shutdown \/ ~enabled
    /\ Goto(t, "respawn.none")
    /\ UNCHANGED <<files, shutdown, reg, h, lock, guards, record, bounds, view>>

(* The start raised, or left no handle: the next attempt, or the end.       *)
RespawnFails(t) ==
    /\ At(t, "respawn.check")
    /\ wk[t].out = "error" \/ (reg = 0 /\ ~shutdown /\ enabled)
    /\ IF wk[t].att < MaxRetries
       THEN /\ wk' = [wk EXCEPT ![t].pc = IF shutdown THEN "respawn" ELSE "respawn.sleep", ![t].att = @ + 1, ![t].out = "ok"]
            /\ cool' = IF shutdown THEN cool ELSE cool \cup {"start"}
            /\ UNCHANGED <<failed, h>>
       ELSE /\ wk' = [wk EXCEPT ![t].pc = IF shutdown THEN "respawn.none" ELSE "respawn.told", ![t].out = "ok"]
            /\ MarkError(reg)
    /\ UNCHANGED <<files, shutdown, reg, lock, guards, count, bounds, view>>

RespawnNone(t) ==
    /\ At(t, "respawn.none") \/ At(t, "respawn.told")
    /\ IF shutdown \/ ~enabled
       THEN count' = wk[t].n /\ UNCHANGED h
       ELSE h' = [h EXCEPT ![wk[t].mine].st = "FAILED"] /\ UNCHANGED count
    /\ Goto(t, "fail.end")
    /\ UNCHANGED <<files, shutdown, reg, lock, guards, failed, cool, bounds, view>>

(* Mutant: the guard stays.                                                  *)
FailEndLeaks(t) ==
    /\ At(t, "fail.end") \/ At(t, "fail.told")
    /\ wk' = [wk EXCEPT ![t] = Idle]
    /\ h' = IF wk[t].mine = reg \/ Alive(wk[t].mine) THEN h ELSE [h EXCEPT ![wk[t].mine] = NoHandle]
    /\ UNCHANGED <<files, shutdown, reg, lock, guards, record, bounds, view>>

FailEnd(t) ==
    /\ At(t, "fail.end") \/ At(t, "fail.told")
    /\ restarting' = FALSE
    /\ wk' = [wk EXCEPT ![t] = Idle]
    /\ h' = IF wk[t].mine = reg \/ Alive(wk[t].mine) THEN h ELSE [h EXCEPT ![wk[t].mine] = NoHandle]
    /\ UNCHANGED <<files, shutdown, reg, lock, starting, record, bounds, view>>

-----------------------------------------------------------------------------
(* _reconcile: the enabled flag is read first and used to the end; the      *)
(* awaits for other animas may come between any two of its stages.          *)

RecScan ==
    /\ At("rec", "idle") /\ ~shutdown
    /\ Goto("rec", "rec.failed")
    /\ scan' = enabled
    /\ UNCHANGED <<seen, files, shutdown, reg, h, lock, guards, record, bounds>>

(* A permanent failure is forgotten with its handle, or else recovered from *)
(* after the cooldown.                                                      *)
RecFailed ==
    /\ At("rec", "rec.failed")
    /\ IF failed /\ ~shutdown /\ reg # 0 /\ scan /\ "failed" \notin cool
       THEN Call("rec", "rec.pop", "rec.wanted") /\ UNCHANGED failed
       ELSE /\ failed' = (failed /\ (shutdown \/ reg # 0))
            /\ Goto("rec", "rec.wanted")
            /\ UNCHANGED lock
    /\ UNCHANGED <<files, shutdown, reg, h, guards, cool, count, bounds, view>>

RecPop ==
    /\ At("rec", "rec.pop") /\ Holds("rec")
    /\ reg' = 0 /\ count' = 0 /\ failed' = FALSE /\ cool' = cool \ {"failed"}
    /\ dropped' = IF Alive(reg) THEN dropped \cup {reg} ELSE dropped
    /\ Goto("rec", "start")
    /\ fresh' = (queue = <<>>)
    /\ IF queue = <<>> THEN UNCHANGED <<holder, queue>>
       ELSE holder' = Head(queue) /\ queue' = Append(Tail(queue), "rec")
    /\ UNCHANGED <<files, shutdown, h, guards, faults, calls, view>>

RecWanted ==
    /\ At("rec", "rec.wanted")
    /\ wanted' = FALSE
    /\ Goto("rec", IF wanted THEN "restart" ELSE "rec.look")
    /\ UNCHANGED <<enabled, shutdown, reg, h, lock, guards, record, bounds, view>>

RecLook ==
    /\ At("rec", "rec.look")
    /\ wk' = [wk EXCEPT !["rec"].pc = "rec.start", !["rec"].out = "ok"]
    /\ seen' = (reg # 0)
    /\ UNCHANGED <<scan, files, shutdown, reg, h, lock, guards, record, bounds>>

RecStart ==
    /\ At("rec", "rec.start")
    /\ IF /\ ~shutdown /\ scan /\ ~seen
          /\ ~restarting /\ ~starting /\ cool \cap {"stop", "start"} = {}
       THEN Call("rec", "start", "rec.started")
       ELSE Goto("rec", "rec.stop") /\ UNCHANGED lock
    /\ UNCHANGED <<files, shutdown, reg, h, guards, record, bounds, view>>

RecStarted ==
    /\ At("rec", "rec.started")
    /\ cool' = IF wk["rec"].out = "ok" THEN cool \ {"start"} ELSE cool \cup {"start"}
    /\ Goto("rec", "rec.stop")
    /\ UNCHANGED <<files, shutdown, reg, h, lock, guards, failed, count, bounds, view>>

(* Mutant: a disabled anima is left running.                                 *)
RecStopNever ==
    /\ At("rec", "rec.stop")
    /\ wk' = [wk EXCEPT !["rec"] = Idle]
    /\ UNCHANGED <<files, shutdown, reg, h, lock, guards, record, bounds, view>>

RecStop ==
    /\ At("rec", "rec.stop")
    /\ IF ~scan /\ seen
       THEN Call("rec", "stop", "idle")
       ELSE wk' = [wk EXCEPT !["rec"] = Idle] /\ UNCHANGED lock
    /\ scan' = FALSE /\ seen' = FALSE
    /\ UNCHANGED <<files, shutdown, reg, h, guards, record, bounds>>

-----------------------------------------------------------------------------
(* The API's requests, and other programs that edit status.json.            *)

Request(c) == At(c, "idle") /\ calls < MaxCalls /\ calls' = calls + 1 /\ UNCHANGED <<dropped, faults>>

Enable(c) ==
    /\ Request(c)
    /\ enabled' = TRUE
    /\ IF reg = 0 THEN Call(c, "start", "idle") ELSE UNCHANGED <<wk, lock>>
    /\ UNCHANGED <<wanted, shutdown, reg, h, guards, record, view>>

Disable(c) ==
    /\ Request(c)
    /\ enabled' = FALSE
    /\ Call(c, "stop", "idle")
    /\ UNCHANGED <<wanted, shutdown, reg, h, guards, record, view>>

(* Start refuses when get_process_status knows of a process or a failure    *)
(* (a reason left by an earlier failure makes it refuse as well).           *)
Start(c) ==
    /\ Request(c) /\ enabled /\ reg = 0 /\ ~starting /\ ~failed
    /\ Call(c, "start", "idle")
    /\ UNCHANGED <<files, shutdown, reg, h, guards, record, view>>

Stop(c) ==
    /\ Request(c) /\ reg # 0
    /\ Call(c, "stop", "idle")
    /\ UNCHANGED <<files, shutdown, reg, h, guards, record, view>>

Restart(c) ==
    /\ Request(c)
    /\ Goto(c, "restart")
    /\ UNCHANGED <<files, shutdown, reg, h, lock, guards, record, view>>

Edit ==
    /\ Quiet /\ calls < MaxCalls /\ calls' = calls + 1
    /\ \/ enabled' = ~enabled /\ UNCHANGED wanted
       \/ ~wanted /\ wanted' = TRUE /\ UNCHANGED enabled
    /\ UNCHANGED <<shutdown, reg, h, lock, guards, record, wk, dropped, faults, view>>

(* get_process_status takes the time since the child was started for the    *)
(* time its restart has taken.  (A start cannot outlast the 300 s it allows *)
(* one: it is given up after at most 145 s.)                                *)
PollStatus ==
    /\ Quiet /\ reg # 0 /\ h[reg].st = "RESTARTING" /\ ~shutdown /\ ~failed
    /\ calls < MaxCalls /\ calls' = calls + 1
    /\ failed' = TRUE
    /\ UNCHANGED <<files, shutdown, reg, h, lock, guards, cool, count, wk, dropped, faults, view>>

-----------------------------------------------------------------------------
(* shutdown_all                                                             *)

ShutBegin ==
    /\ At("shut", "idle") /\ ~shutdown
    /\ shutdown' = TRUE
    /\ Goto("shut", "shut.cancel")
    /\ UNCHANGED <<files, reg, h, lock, guards, record, bounds, view>>

(* The reconciliation task is cancelled at the await it is in.              *)
Starts == {"start.wait", "start.status", "start.undo"}

(* Mutant: the lock is not released on cancellation.                         *)
ShutCancelLeaks ==
    /\ At("shut", "shut.cancel")
    /\ LET r == wk["rec"]
       IN  /\ h' = IF r.pc = "start.wait" THEN [h EXCEPT ![r.h] = NoHandle] ELSE h
           /\ starting' = (starting /\ r.pc \notin Starts)
           /\ restarting' = (restarting /\ r.ret \notin {"restart.start", "restart.end"})
           /\ dropped' = IF r.pc = "start.undo" /\ Alive(r.h) THEN dropped \cup {r.h} ELSE dropped
    /\ wk' = [wk EXCEPT !["rec"] = [Idle EXCEPT !.pc = "end"], !["shut"].pc = "shut.stop"]
    /\ scan' = FALSE /\ seen' = FALSE
    /\ UNCHANGED <<files, shutdown, reg, lock, record, faults, calls>>

ShutCancel ==
    /\ At("shut", "shut.cancel")
    /\ LET r == wk["rec"]
       IN  /\ h' = IF r.pc = "start.wait" THEN [h EXCEPT ![r.h] = NoHandle] ELSE h
           /\ starting' = (starting /\ r.pc \notin Starts)
           /\ restarting' = (restarting /\ r.ret \notin {"restart.start", "restart.end"})
           /\ dropped' = IF r.pc = "start.undo" /\ Alive(r.h) THEN dropped \cup {r.h} ELSE dropped
    /\ LET q == Without(queue, "rec")
       IN  IF holder = "rec" THEN Release(q) ELSE queue' = q /\ UNCHANGED <<holder, fresh>>
    /\ wk' = [wk EXCEPT !["rec"] = [Idle EXCEPT !.pc = "end"], !["shut"].pc = "shut.stop"]
    /\ scan' = FALSE /\ seen' = FALSE
    /\ UNCHANGED <<files, shutdown, reg, record, faults, calls>>

ShutStop ==
    /\ At("shut", "shut.stop")
    /\ IF reg # 0 THEN Call("shut", "stop", "shut.barrier") ELSE Goto("shut", "shut.barrier") /\ UNCHANGED lock
    /\ UNCHANGED <<files, shutdown, reg, h, guards, record, view, bounds>>

ShutBarrier ==
    /\ At("shut", "shut.barrier")
    /\ Call("shut", "barrier", "end")
    /\ UNCHANGED <<files, shutdown, reg, h, guards, record, view, bounds>>

ShutEnd ==
    /\ At("shut", "barrier") /\ Holds("shut")
    /\ Return("shut", "ok")
    /\ UNCHANGED <<files, shutdown, reg, h, guards, record, view, bounds>>

-----------------------------------------------------------------------------
(* A child dies on its own.                                                 *)
Crash(k) ==
    /\ Quiet /\ Alive(k) /\ faults < MaxFaults
    /\ h' = [h EXCEPT ![k].proc = "dead"]
    /\ faults' = faults + 1
    /\ dropped' = dropped \ {k}
    /\ UNCHANGED <<files, shutdown, reg, lock, guards, record, wk, calls, view>>

CooldownPasses(c) ==
    /\ c \in cool /\ Quiet
    /\ cool' = cool \ {c}
    /\ UNCHANGED <<files, shutdown, reg, h, lock, guards, failed, count, wk, bounds, view>>

Locked(w) ==
    \/ StartEnter(w) \/ StartReady(w) \/ StartFails(w) \/ StartDone(w) \/ StartUndo(w)
    \/ StopEnter(w) \/ StopDrained(w) \/ StopDone(w)
Restarts(w) == RestartEnter(w) \/ RestartStart(w) \/ RestartEnd(w)
Handler(t) ==
    \/ Killed(t) \/ FailRepaired(t) \/ FailWake(t) \/ Respawn(t) \/ RespawnStart(t)
    \/ RespawnSucceeds(t) \/ RespawnRefused(t) \/ RespawnFails(t) \/ RespawnNone(t) \/ FailEnd(t)
Reconcile == RecScan \/ RecFailed \/ RecPop \/ RecWanted \/ RecLook \/ RecStart \/ RecStarted \/ RecStop
Shutdown == ShutCancel \/ ShutStop \/ ShutBarrier \/ ShutEnd
Api(c) == Start(c) \/ Stop(c) \/ Restart(c) \/ Enable(c) \/ Disable(c)

Coroutine(w) ==
    \/ wk[w].pc # "idle" /\ (Locked(w) \/ Restarts(w) \/ (w \in Tasks /\ Handler(w)))
    \/ w = "rec" /\ Reconcile
    \/ w = "shut" /\ Shutdown

Next ==
    \/ \E w \in Workers : Locked(w) \/ Restarts(w)
    \/ \E t \in Tasks : Handler(t) \/ HealthStuck(t) \/ HealthFailed(t) \/ HealthHang(t)
    \/ Reconcile \/ HealthStable \/ PollStatus \/ Edit \/ ShutBegin \/ Shutdown
    \/ \E c \in Callers : Api(c)
    \/ \E k \in Handles : Crash(k)
    \/ \E c \in {"stop", "start", "failed"} : CooldownPasses(c)

Spec == Init /\ [][Next]_vars
(* Every coroutine goes on, the two loops run, and time passes.             *)
FairSpec ==
    /\ Spec
    /\ \A w \in Workers : WF_vars(Coroutine(w))
    /\ \A t \in Tasks : WF_vars(HealthFailed(t))
    /\ WF_vars(\E c \in {"stop", "start", "failed"} : CooldownPasses(c))

-----------------------------------------------------------------------------
States == {"STOPPED", "STARTING", "RUNNING", "STOPPING", "RESTARTING", "FAILED"}
Labels == {"idle", "end", "start", "start.wait", "start.status", "start.undo", "stop", "stop.drain", "stop.wait",
           "restart", "restart.start", "restart.end", "kill", "fail.sleep", "fail.told", "fail.end",
           "respawn", "respawn.sleep", "respawn.start", "respawn.check", "respawn.told", "respawn.none",
           "rec.failed", "rec.pop", "rec.wanted", "rec.look", "rec.start", "rec.started", "rec.stop",
           "shut.cancel", "shut.stop", "shut.barrier", "barrier"}
Returns == {"idle", "end", "restart.start", "restart.end", "fail.end", "respawn.start", "respawn.check", "respawn.none",
            "rec.wanted", "rec.started", "shut.barrier"}

(* Every field keeps its type, and _restart_counts never passes the         *)
(* policy's max_retries.                                                    *)
TypeOK ==
    /\ reg \in Handles \cup {0}
    /\ h \in [Handles -> [st : States, proc : {"none", "alive", "dead"}]]
    /\ wk \in [Workers -> [pc : Labels, ret : Returns, h : Handles \cup {0}, mine : Handles \cup {0},
                           n : Nat, att : Nat, out : {"ok", "error"}]]
    /\ holder \in Workers \cup {"none"} /\ queue \in Seq(Workers)
    /\ count \in 0 .. MaxRetries /\ cool \subseteq {"stop", "start", "failed"}

(* No coroutine loses a child: whatever starts, stops, restarts and         *)
(* shutdowns interleave, a live child is the registered one or is being     *)
(* started or stopped.  Two steps give a child up, and `dropped' has what   *)
(* they lost: recovery from a permanent failure, which pops the handle that *)
(* is registered by the time it gets the lock, and shutdown_all, when it    *)
(* cancels a reconciliation that was stopping a child.                      *)
Managed == \A k \in Children \ dropped : k = reg \/ \E w \in Workers : wk[w].h = k

(* When shutdown_all has returned, no child it could know of is alive, a    *)
(* start that was under way when it began included.                         *)
ShutdownStops == wk["shut"].pc = "end" => Children \subseteq dropped

(* The guards _starting and _restarting, which keep reconciliation and      *)
(* failure handling away from the anima, are owned by a coroutine that will *)
(* take them back: none is left behind by an early return, an exception or  *)
(* a cancellation.                                                          *)
GuardsOwned ==
    /\ starting => \E w \in Workers : wk[w].pc \in Starts
    /\ restarting => \/ \E t \in Tasks : wk[t].pc \notin {"idle", "kill"}
                     \/ \E w \in Workers : {wk[w].pc, wk[w].ret} \cap {"restart.start", "restart.end"} # {}

(* An anima that stays enabled ends up running and stays so, after crashes, *)
(* hangs, failing starts, permanent failures, restarts and stops by request *)
(* (unless a lost child lives on).                                          *)
EnabledRuns == <>[](enabled /\ ~shutdown /\ dropped = {}) => <>[](reg # 0 /\ h[reg].st = "RUNNING" /\ Alive(reg))

(* An anima that stays disabled ends up without a process, even if it was   *)
(* disabled by an edit of status.json, or between a reconciliation's scan   *)
(* and its start (unless a lost child lives on).                            *)
DisabledStops == <>[](~enabled /\ dropped = {}) => <>[](Children = {})

(* shutdown_all returns: no coroutine keeps or queues for the lifecycle     *)
(* lock for ever.                                                           *)
ShutdownEnds == <>[]shutdown => <>[](wk["shut"].pc = "end")

(* "A per-anima guard prevents duplicate restarts": at most one task of     *)
(* _handle_process_failure is past its guard.                               *)
OneHandler == \A t, u \in Tasks : {wk[t].pc, wk[u].pc} \cap {"idle", "kill"} = {} => t = u
=============================================================================
