--------------------------- MODULE SupervisorProofs ---------------------------
(* What Supervisor promises for any number of requests, failure handlers,   *)
(* retries, faults and calls.                                               *)
EXTENDS Supervisor, TLAPS

(* Zenon takes the leaves; those with arithmetic, sequences or records cite *)
(* SMT.                                                                     *)
USE Zenon

(* A handler that goes on has seen fewer restarts than the policy allows.   *)
Counts == 0 .. MaxRetries - 1

Record == [pc : Labels, ret : Returns, h : Handles \cup {0}, mine : Handles \cup {0},
           n : Counts, att : Nat, out : {"ok", "error"}]
Handle == [st : States, proc : {"none", "alive", "dead"}]

(* The types the other invariants need.                                     *)
Types ==
    /\ reg \in Handles \cup {0}
    /\ h \in [Handles -> Handle]
    /\ wk \in [Workers -> Record]
    /\ count \in 0 .. MaxRetries

LEMMA CountFacts ==
    /\ 0 \in Counts /\ 0 \in 0 .. MaxRetries
    /\ \A n \in Counts : n \in 0 .. MaxRetries /\ n + 1 \in 0 .. MaxRetries
    /\ \A n \in 0 .. MaxRetries : n < MaxRetries => n \in Counts
  BY BoundsAssumption, SMT DEF Counts

LEMMA InitTypes == Init => Types
  BY BoundsAssumption, SMT DEF Init, Types, Record, Handle, Labels, Returns, States, NoHandle, Idle, Counts

-----------------------------------------------------------------------------
(* How a step moves a coroutine: w comes to l, will return to m, and works  *)
(* on handle k.                                                             *)
Moves(w, l, m, k) ==
    /\ wk' \in [Workers -> Record]
    /\ wk'[w].pc = l /\ wk'[w].ret = m /\ wk'[w].h = k
    /\ \A v \in Workers \ {w} : wk'[v] = wk[v]

LEMMA IdleRecord == Idle \in Record /\ Idle.pc = "idle" /\ Idle.ret = "idle" /\ Idle.h = 0 /\ Idle.mine = 0
  BY BoundsAssumption, SMT DEF Idle, Record, Labels, Returns, Counts

LEMMA RecordFields ==
    ASSUME NEW r \in Record
    PROVE  /\ r.pc \in Labels /\ r.ret \in Returns /\ r.h \in Handles \cup {0} /\ r.mine \in Handles \cup {0}
           /\ r.n \in Counts /\ r.att \in Nat /\ r.out \in {"ok", "error"}
  BY DEF Record

(* Putting a record in place of w's.                                        *)
LEMMA Put ==
    ASSUME Types, NEW w \in Workers, NEW r \in Record, wk' = [wk EXCEPT ![w] = r]
    PROVE  Moves(w, r.pc, r.ret, r.h) /\ wk'[w] = r
  BY DEF Types, Moves

LEMMA IdleMoves ==
    ASSUME Types, NEW w \in Workers, wk' = [wk EXCEPT ![w] = Idle]
    PROVE  Moves(w, "idle", "idle", 0)
<1>1. Moves(w, Idle.pc, Idle.ret, Idle.h)
  BY Put, IdleRecord
<1> QED BY <1>1, IdleRecord DEF Moves

LEMMA GotoMoves ==
    ASSUME Types, NEW w \in Workers, NEW l \in Labels, Goto(w, l)
    PROVE  Moves(w, l, wk[w].ret, wk[w].h)
<1>1. [wk[w] EXCEPT !.pc = l] \in Record
  BY DEF Types, Record
<1>2. wk' = [wk EXCEPT ![w] = [wk[w] EXCEPT !.pc = l]]
  BY DEF Types, Goto
<1>3. wk[w] \in Record
  BY DEF Types
<1>4. /\ [wk[w] EXCEPT !.pc = l].pc = l
      /\ [wk[w] EXCEPT !.pc = l].ret = wk[w].ret
      /\ [wk[w] EXCEPT !.pc = l].h = wk[w].h
  BY <1>3 DEF Record
<1> QED BY <1>1, <1>2, <1>4, Put

LEMMA CallMoves ==
    ASSUME Types, NEW w \in Workers, NEW l \in Labels, NEW m \in Returns, Call(w, l, m)
    PROVE  Moves(w, l, m, wk[w].h)
<1> DEFINE r == [wk[w] EXCEPT !.pc = l, !.ret = m]
<1>1. wk[w] \in Record
  BY DEF Types
<1>2. r \in Record /\ r.pc = l /\ r.ret = m /\ r.h = wk[w].h
  BY <1>1 DEF Record
<1>3. wk' = [wk EXCEPT ![w] = r]
  BY DEF Types, Call
<1> QED BY <1>2, <1>3, Put

LEMMA ReturnMoves ==
    ASSUME Types, NEW w \in Workers, NEW o \in {"ok", "error"}, Return(w, o)
    PROVE  Moves(w, wk[w].ret, "idle", 0)
<1> DEFINE r == IF wk[w].ret = "idle" THEN Idle
                ELSE [wk[w] EXCEPT !.pc = wk[w].ret, !.ret = "idle", !.h = 0, !.out = o]
<1>1. wk[w] \in Record
  BY DEF Types
<1>2. r \in Record /\ r.pc = wk[w].ret /\ r.ret = "idle" /\ r.h = 0
  <2>1. CASE wk[w].ret = "idle"
    BY <2>1, IdleRecord
  <2>2. CASE wk[w].ret # "idle"
    <3>1. wk[w].ret \in Labels /\ "idle" \in Returns
      BY <1>1, RecordFields DEF Labels, Returns
    <3> QED BY <1>1, <2>2, <3>1 DEF Record
  <2> QED BY <2>1, <2>2
<1>3. wk' = [wk EXCEPT ![w] = r]
  BY DEF Return
<1> HIDE DEF r
<1>4. Moves(w, r.pc, r.ret, r.h)
  BY <1>2, <1>3, Put
<1> QED BY <1>2, <1>4 DEF Moves

LEMMA StayMoves ==
    ASSUME Types, NEW w \in Workers, NEW l \in Labels, NEW k \in Handles \cup {0}, Stay(w, l, k)
    PROVE  Moves(w, l, wk[w].ret, k)
<1> DEFINE r == [wk[w] EXCEPT !.pc = l, !.h = k]
<1>1. wk[w] \in Record
  BY DEF Types
<1>2. r \in Record /\ r.pc = l /\ r.ret = wk[w].ret /\ r.h = k
  BY <1>1 DEF Record
<1>3. wk' = [wk EXCEPT ![w] = r]
  BY DEF Types, Stay
<1> QED BY <1>2, <1>3, Put

-----------------------------------------------------------------------------
(* The lifecycle lock.  A coroutine inside a locked section holds it; no    *)
(* other works on a handle.  While it starts a child nothing is registered, *)
(* and afterwards, or while it stops one, that is the registered one.       *)
Held == {"start.wait", "start.status", "start.undo", "stop.drain", "stop.wait"}

LockInv ==
    \A w \in Workers :
        /\ wk[w].pc \in Held => holder = w
        /\ wk[w].pc \notin Held => wk[w].h = 0
        /\ wk[w].pc \in {"start.wait", "start.undo"} => reg = 0
        /\ wk[w].pc \in {"start.status", "stop.drain", "stop.wait"} => reg = wk[w].h

(* Where a coroutine can be, and where it returns to, by its kind.          *)
Calls == {"start", "stop"} \cup Held
RestartReturns == {"restart.start", "restart.end"}
TaskLabels == {"idle", "kill", "fail.sleep", "fail.told", "fail.end", "respawn", "respawn.sleep",
               "respawn.start", "respawn.check", "respawn.told", "respawn.none"} \cup Calls
TaskReturns == {"fail.end", "respawn.start", "respawn.check", "respawn.none"}
ShutLabels == {"idle", "shut.cancel", "shut.stop", "stop", "stop.drain", "stop.wait", "shut.barrier", "barrier", "end"}

Routed(w, l, m) ==
    /\ m \in RestartReturns => l \in Calls
    /\ w \in Tasks => l \in TaskLabels /\ (l \in Calls => m \in TaskReturns)
    /\ w = "shut" => /\ l \in ShutLabels
                     /\ l \in Calls => m = "shut.barrier"
                     /\ l = "barrier" => m = "end"
FlowInv == \A w \in Workers : Routed(w, wk[w].pc, wk[w].ret)

(* Who takes the guards back: a handler past its entrance or a restart      *)
(* under way has _restarting, a coroutine that starts a child _starting.    *)
Owns(w, l, m) == (w \in Tasks /\ l \notin {"idle", "kill"}) \/ {l, m} \cap RestartReturns # {}
OwnInv ==
    /\ restarting => \E w \in Workers : Owns(w, wk[w].pc, wk[w].ret)
    /\ starting => \E w \in Workers : wk[w].pc \in Starts

(* From shutdown_all's first step nothing is registered any more; after its *)
(* stop nothing is, and after its barrier nothing lives.                    *)
ShutInv ==
    /\ wk["shut"].pc # "idle" => shutdown
    /\ wk["shut"].pc \in {"shut.barrier", "barrier", "end"} => reg = 0
    /\ ShutdownStops

IInv == Types /\ LockInv /\ Managed /\ FlowInv /\ OwnInv /\ ShutInv

(* A step outside the locked sections: no child is born, none is given up,  *)
(* and the lock is taken from nobody.                                       *)
Neutral ==
    /\ reg' = reg
    /\ h' \in [Handles -> Handle]
    /\ \A k \in Handles : h'[k].proc = "alive" => h[k].proc = "alive" /\ (k \in dropped => k \in dropped')
    /\ holder' = holder \/ holder = "none"
    /\ count' \in 0 .. MaxRetries
    /\ wk' \in [Workers -> Record]
    /\ \A w \in Workers : \/ wk'[w] = wk[w]
                          \/ wk[w].pc \notin Held /\ wk'[w].pc \notin Held /\ wk'[w].h = 0

(* What such a step does to the handles, and to the coroutine it moves.     *)
Mild ==
    /\ reg' = reg
    /\ h' \in [Handles -> Handle]
    /\ \A k \in Handles : h'[k].proc = "alive" => h[k].proc = "alive" /\ (k \in dropped => k \in dropped')
    /\ count' \in 0 .. MaxRetries

(* A step that moves w to l with return m keeps the guards owned.           *)
Guarded(w, l, m) ==
    /\ Routed(w, l, m)
    /\ restarting' => Owns(w, l, m) \/ (restarting /\ ~Owns(w, wk[w].pc, wk[w].ret))
    /\ starting' => l \in Starts \/ (starting /\ wk[w].pc \notin Starts)

LEMMA MoveFlow ==
    ASSUME IInv, NEW w \in Workers, NEW l, NEW m, NEW k, Moves(w, l, m, k), Guarded(w, l, m)
    PROVE  FlowInv' /\ OwnInv'
<1>1. FlowInv'
  BY DEF IInv, FlowInv, Moves, Guarded
<1>2. ASSUME restarting'
      PROVE  \E v \in Workers : Owns(v, wk'[v].pc, wk'[v].ret)
  <2>1. CASE Owns(w, l, m)
    BY <2>1 DEF Moves
  <2>2. CASE restarting /\ ~Owns(w, wk[w].pc, wk[w].ret)
    <3>1. PICK v \in Workers : Owns(v, wk[v].pc, wk[v].ret)
      BY <2>2 DEF IInv, OwnInv
    <3>2. wk'[v] = wk[v]
      BY <2>2, <3>1 DEF Moves
    <3> QED BY <3>1, <3>2
  <2> QED BY <1>2, <2>1, <2>2 DEF Guarded
<1>3. ASSUME starting'
      PROVE  \E v \in Workers : wk'[v].pc \in Starts
  <2>1. CASE l \in Starts
    BY <2>1 DEF Moves
  <2>2. CASE starting /\ wk[w].pc \notin Starts
    <3>1. PICK v \in Workers : wk[v].pc \in Starts
      BY <2>2 DEF IInv, OwnInv
    <3>2. wk'[v] = wk[v]
      BY <2>2, <3>1 DEF Moves
    <3> QED BY <3>1, <3>2
  <2> QED BY <1>3, <2>1, <2>2 DEF Guarded
<1> QED BY <1>1, <1>2, <1>3 DEF OwnInv, Owns

(* Steps of the others during shutdown: no child is born or registered.     *)
LEMMA ShutKept ==
    ASSUME IInv, wk'["shut"] = wk["shut"], shutdown' = shutdown,
           shutdown => /\ reg' \in {reg, 0}
                       /\ \A k \in Handles : h'[k].proc = "alive" => h[k].proc = "alive" /\ (k \in dropped => k \in dropped')
    PROVE  ShutInv'
<1>1. CASE shutdown
  BY <1>1 DEF IInv, ShutInv, ShutdownStops, Children, Alive
<1>2. CASE ~shutdown
  BY <1>2 DEF IInv, ShutInv, ShutdownStops
<1> QED BY <1>1, <1>2

Kept == FlowInv' /\ OwnInv' /\ ShutInv'

LEMMA MoveNeutral ==
    ASSUME IInv, Mild, NEW w \in Workers, NEW l, NEW m, NEW k \in {0, wk[w].h},
           Moves(w, l, m, k), wk[w].pc \notin Held, l \notin Held, holder' = holder \/ holder = "none",
           Guarded(w, l, m), ShutInv' \/ (w # "shut" /\ shutdown' = shutdown)
    PROVE  Neutral /\ Kept
<1>1. Neutral
  BY DEF IInv, LockInv, Mild, Moves, Neutral
<1>2. ShutInv'
  <2>1. CASE w # "shut" /\ shutdown' = shutdown
    <3>1. wk'["shut"] = wk["shut"]
      BY <2>1 DEF Moves, Workers
    <3> QED BY <2>1, <3>1, ShutKept DEF Mild
  <2> QED BY <2>1
<1> QED BY <1>1, <1>2, MoveFlow DEF Kept

LEMMA NoMoveNeutral ==
    ASSUME IInv, Mild, wk' = wk, UNCHANGED lock, UNCHANGED guards, shutdown' = shutdown
    PROVE  Neutral /\ Kept
<1>1. Neutral
  BY DEF IInv, Types, Mild, Neutral, lock
<1>2. FlowInv' /\ OwnInv'
  BY DEF IInv, FlowInv, OwnInv, guards
<1>3. ShutInv'
  BY ShutKept DEF Mild
<1> QED BY <1>1, <1>2, <1>3 DEF Kept

LEMMA NeutralKeeps ==
    ASSUME IInv, Neutral, Kept
    PROVE  IInv'
<1>1. Types'
  BY DEF IInv, Types, Neutral
<1>2. LockInv'
  <2> SUFFICES ASSUME NEW w \in Workers
               PROVE  /\ wk'[w].pc \in Held => holder' = w
                      /\ wk'[w].pc \notin Held => wk'[w].h = 0
                      /\ wk'[w].pc \in {"start.wait", "start.undo"} => reg' = 0
                      /\ wk'[w].pc \in {"start.status", "stop.drain", "stop.wait"} => reg' = wk'[w].h
    BY DEF LockInv
  <2>1. w # "none"
    BY BoundsAssumption DEF Workers
  <2> QED BY <2>1 DEF IInv, LockInv, Neutral, Held
<1>3. Managed'
  <2> SUFFICES ASSUME NEW k \in Handles, k # 0, h'[k].proc = "alive", k \notin dropped'
               PROVE  k = reg' \/ \E w \in Workers : wk'[w].h = k
    BY DEF Managed, Children, Alive
  <2>1. k = reg \/ \E w \in Workers : wk[w].h = k
    BY DEF IInv, Managed, Children, Alive, Neutral
  <2>2. ASSUME NEW w \in Workers, wk[w].h = k
        PROVE  wk'[w].h = k
    BY <2>2 DEF IInv, LockInv, Neutral
  <2> QED BY <2>1, <2>2 DEF Neutral
<1> QED BY <1>1, <1>2, <1>3 DEF IInv, Kept

-----------------------------------------------------------------------------
(* The steps outside the locked sections are neutral.                       *)

LEMMA Unchanging ==
    ASSUME IInv, reg' = reg, h' = h, count' = count \/ count' = 0, dropped' = dropped
    PROVE  Mild
  BY BoundsAssumption, SMT DEF IInv, Types, Mild

LEMMA WorkerKinds ==
    /\ "rec" \in Workers /\ "shut" \in Workers
    /\ Tasks \subseteq Workers /\ Callers \subseteq Workers
  BY DEF Workers

LEMMA KindsDiffer ==
    /\ "rec" # "shut" /\ "rec" \notin Tasks /\ "shut" \notin Tasks
    /\ \A t \in Tasks : t # "shut" /\ t # "rec"
    /\ \A c \in Callers : c # "shut" /\ c \notin Tasks
  BY BoundsAssumption

(* The guards, by the kind of move.                                         *)
LEMMA GotoGuarded ==
    ASSUME IInv, NEW w \in Workers, NEW l \in Labels \ Calls, w # "shut", starting' = starting,
           wk[w].pc \notin Calls,
           w \in Tasks => l \in TaskLabels \ {"idle", "kill"},
           w \notin Tasks => ~restarting' \/ (restarting' = restarting /\ wk[w].pc \notin RestartReturns)
    PROVE  Guarded(w, l, wk[w].ret)
<1>1. wk[w].ret \notin RestartReturns
  BY DEF IInv, FlowInv, Routed
<1>2. wk[w].pc \notin Starts
  BY DEF Starts, Calls, Held
<1> QED BY <1>1, <1>2, SMT DEF Guarded, Routed, Owns

LEMMA CallGuarded ==
    ASSUME IInv, NEW w \in Workers, NEW l \in {"start", "stop"}, NEW m, w # "shut", starting' = starting,
           wk[w].pc \notin Calls,
           w \in Tasks => m \in TaskReturns,
           w \notin Tasks => m \in RestartReturns \/ (restarting' = restarting /\ wk[w].pc \notin RestartReturns)
    PROVE  Guarded(w, l, m)
<1>1. wk[w].ret \notin RestartReturns
  BY DEF IInv, FlowInv, Routed
<1>2. wk[w].pc \notin Starts
  BY DEF Starts, Calls, Held
<1>3. l \in Calls /\ l \in TaskLabels /\ l \notin {"idle", "kill"}
  BY DEF Calls, TaskLabels
<1> QED BY <1>1, <1>2, <1>3, SMT DEF Guarded, Routed, Owns

LEMMA IdleGuarded ==
    ASSUME IInv, NEW w \in Workers, w # "shut", starting' = starting, wk[w].pc \notin Calls,
           \/ ~restarting'
           \/ /\ restarting' = restarting /\ wk[w].pc \notin RestartReturns
              /\ w \in Tasks => wk[w].pc \in {"idle", "kill"}
    PROVE  Guarded(w, "idle", "idle")
<1>1. wk[w].ret \notin RestartReturns
  BY DEF IInv, FlowInv, Routed
<1>2. wk[w].pc \notin Starts /\ "idle" \notin Calls /\ "idle" \in TaskLabels /\ "idle" \notin RestartReturns
  BY DEF Starts, Calls, Held, TaskLabels, RestartReturns
<1> QED BY <1>1, <1>2, SMT DEF Guarded, Routed, Owns

LEMMA RestartsNeutral ==
    ASSUME IInv, NEW w \in Workers, Restarts(w)
    PROVE  Neutral /\ Kept
<1> USE WorkerKinds
<1>0. wk[w].pc \notin TaskLabels \cup ShutLabels => w \notin Tasks /\ w # "shut"
  BY DEF IInv, FlowInv, Routed
<1>1. CASE RestartEnter(w)
  <2>1. Mild
    BY <1>1, Unchanging DEF RestartEnter, bounds
  <2>2. Moves(w, "stop", "restart.start", wk[w].h) \/ Moves(w, "start", "restart.end", wk[w].h)
    BY <1>1, CallMoves DEF RestartEnter, IInv, Labels, Returns
  <2>3. wk[w].pc \notin Held /\ (holder' = holder \/ holder = "none")
    BY <1>1 DEF RestartEnter, At, Held, Call, Acquire
  <2>4. /\ Guarded(w, "stop", "restart.start")
       /\ Guarded(w, "start", "restart.end")
       /\ w # "shut" /\ shutdown' = shutdown
    BY <1>1, <2>3, KindsDiffer, <1>0, CallGuarded
    DEF RestartEnter, At, guards, Labels, Calls, Held, TaskLabels, TaskReturns, RestartReturns, ShutLabels
  <2> QED BY <2>1, <2>2, <2>3, <2>4, MoveNeutral DEF Held
<1>2. CASE RestartStart(w)
  <2>1. Mild
    BY <1>2, Unchanging DEF RestartStart, record, bounds
  <2>2. Moves(w, "start", "restart.end", wk[w].h)
    BY <1>2, CallMoves DEF RestartStart, IInv, Labels, Returns
  <2>3. wk[w].pc \notin Held /\ (holder' = holder \/ holder = "none")
    BY <1>2 DEF RestartStart, At, Held, Call, Acquire
  <2>4. Guarded(w, "start", "restart.end") /\ w # "shut" /\ shutdown' = shutdown
    BY <1>2, <2>3, KindsDiffer, <1>0, CallGuarded
    DEF RestartStart, At, guards, Labels, Calls, Held, TaskLabels, TaskReturns, RestartReturns, ShutLabels
  <2> QED BY <2>1, <2>2, <2>3, <2>4, MoveNeutral DEF Held
<1>3. CASE RestartEnd(w)
  <2>1. Mild
    BY <1>3, Unchanging DEF RestartEnd, record, bounds
  <2>2. Moves(w, "rec.look", wk[w].ret, wk[w].h) \/ Moves(w, "idle", "idle", 0)
    <3>1. CASE w = "rec"
      <4>1. Goto(w, "rec.look")
        BY <1>3, <3>1 DEF RestartEnd, Goto, IInv, Types
      <4> QED BY <4>1, GotoMoves DEF IInv, Labels
    <3>2. CASE w # "rec"
      BY <1>3, <3>2, IdleMoves DEF RestartEnd, IInv
    <3> QED BY <3>1, <3>2
  <2>3. wk[w].pc \notin Held /\ holder' = holder
    BY <1>3 DEF RestartEnd, At, Held, lock
  <2>4. Guarded(w, "rec.look", wk[w].ret) /\ Guarded(w, "idle", "idle") /\ w # "shut" /\ shutdown' = shutdown
    BY <1>3, <2>3, KindsDiffer, <1>0, GotoGuarded, IdleGuarded
    DEF RestartEnd, At, guards, Labels, Calls, Held, TaskLabels, TaskReturns, RestartReturns, ShutLabels
  <2> QED BY <2>1, <2>2, <2>3, <2>4, MoveNeutral DEF Held
<1> QED BY <1>1, <1>2, <1>3 DEF Restarts

LEMMA HandleFailureNeutral ==
    ASSUME IInv, NEW t \in Tasks, NEW k \in Handles \cup {0}, NEW g \in Handle,
           g.proc = "alive" => k \in Handles /\ h[k].proc = "alive",
           HandleFailure(t, k, g), wk[t].pc \in {"idle", "kill"},
           reg' = reg, dropped' = dropped, starting' = starting, shutdown' = shutdown
    PROVE  Neutral /\ Kept
<1>1. h' \in [Handles -> Handle] /\ \A j \in Handles : h'[j].proc = "alive" => h[j].proc = "alive"
  <2> DEFINE f(x) == [g EXCEPT !.st = x]
  <2>1. \A x \in States : f(x) \in Handle /\ f(x).proc = g.proc
    BY DEF Handle
  <2>2. \E r \in Handle : r.proc = g.proc /\ h' = [h EXCEPT ![k] = r]
    BY <2>1 DEF HandleFailure, States
  <2> QED BY <2>2 DEF IInv, Types
<1>2. Mild
  BY <1>1 DEF IInv, Types, Mild, HandleFailure, record
<1>3. t \in Workers
  BY WorkerKinds
<1>4. \E l \in {"idle", "stop", "fail.end", "fail.told", "fail.sleep"} : \E m : Moves(t, l, m, 0) /\ Guarded(t, l, m)
  <2> DEFINE r(l, n) == [Idle EXCEPT !.pc = l, !.ret = "fail.end", !.mine = k, !.n = n]
  <2>1. ASSUME NEW l \in Labels, NEW n \in Counts
        PROVE  r(l, n) \in Record /\ r(l, n).pc = l /\ r(l, n).ret = "fail.end" /\ r(l, n).h = 0
    <3>1. "fail.end" \in Returns
      BY DEF Returns
    <3> QED BY <3>1, IdleRecord DEF Record
  <2>0. wk[t].pc \notin Calls \cup RestartReturns /\ t # "shut"
    BY KindsDiffer DEF Calls, Held, RestartReturns
  <2>2. CASE wk' = [wk EXCEPT ![t] = Idle] /\ restarting' = restarting
    <3>1. Moves(t, "idle", "idle", 0)
      BY <1>3, <2>2, IdleMoves DEF IInv
    <3>2. Guarded(t, "idle", "idle")
      BY <1>3, <2>0, <2>2, IdleGuarded
    <3> QED BY <3>1, <3>2
  <2>3. ASSUME NEW l \in {"stop", "fail.end", "fail.told", "fail.sleep"}, NEW n \in Counts, wk' = [wk EXCEPT ![t] = r(l, n)]
        PROVE  \E m : Moves(t, l, m, 0) /\ Guarded(t, l, m)
    <3>1. l \in Labels
      BY DEF Labels
    <3>2. r(l, n) \in Record /\ r(l, n).pc = l /\ r(l, n).ret = "fail.end" /\ r(l, n).h = 0
      BY <2>1, <3>1
    <3> HIDE DEF r
    <3>3. Moves(t, r(l, n).pc, r(l, n).ret, r(l, n).h)
      BY <1>3, <2>3, <3>2, Put DEF IInv
    <3>4. Guarded(t, l, "fail.end")
      <4>1. l \in TaskLabels \ {"idle", "kill"} /\ "fail.end" \in TaskReturns \ RestartReturns
        BY DEF TaskLabels, Calls, TaskReturns, RestartReturns
      <4>2. wk[t].pc \notin Starts
        BY DEF Starts
      <4> QED BY <2>0, <4>1, <4>2 DEF Guarded, Routed, Owns
    <3> QED BY <3>2, <3>3, <3>4
  <2>a. ~Spent => count \in Counts
    BY BoundsAssumption, SMT DEF Spent, Counts, IInv, Types
  <2>4. \/ wk' = [wk EXCEPT ![t] = Idle] /\ restarting' = restarting
        \/ \E l \in {"stop", "fail.end", "fail.told", "fail.sleep"} : \E n \in Counts : wk' = [wk EXCEPT ![t] = r(l, n)]
    BY <2>a, CountFacts DEF HandleFailure
  <2> QED BY <2>2, <2>3, <2>4
<1>5. holder' = holder \/ holder = "none"
  BY DEF HandleFailure, Acquire, lock
<1>6. t # "shut" /\ wk[t].pc \notin Held
  BY KindsDiffer DEF Held
<1> QED BY <1>2, <1>3, <1>4, <1>5, <1>6, MoveNeutral DEF Held

LEMMA HealthNeutral ==
    ASSUME IInv, NEW t \in Tasks, HealthStuck(t) \/ HealthFailed(t) \/ HealthHang(t) \/ Killed(t)
    PROVE  Neutral /\ Kept
<1>1. t \in Workers
  BY WorkerKinds
<1>2. CASE HealthStuck(t)
  <2>1. reg \in Handles /\ h[reg] \in Handle /\ wk[t].pc = "idle"
    BY <1>2 DEF HealthStuck, Checked, Free, At, IInv, Types
  <2>2. [h[reg] EXCEPT !.st = "FAILED"] \in Handle /\ [h[reg] EXCEPT !.st = "FAILED"].proc = h[reg].proc
    BY <2>1 DEF Handle, States
  <2> QED BY <1>2, <2>1, <2>2, HandleFailureNeutral DEF HealthStuck
<1>3. CASE HealthFailed(t)
  <2>1. reg \in Handles /\ h[reg] \in Handle /\ wk[t].pc = "idle"
    BY <1>3 DEF HealthFailed, Checked, Free, At, IInv, Types, bounds
  <2> QED BY <1>3, <2>1, HandleFailureNeutral DEF HealthFailed, bounds
<1>4. CASE HealthHang(t)
  <2>1. Mild
    <3>1. reg \in Handles /\ h' = [h EXCEPT ![reg] = [h[reg] EXCEPT !.proc = "dead"]]
      BY <1>4 DEF HealthHang, Checked, IInv, Types
    <3>2. [h[reg] EXCEPT !.proc = "dead"] \in Handle /\ [h[reg] EXCEPT !.proc = "dead"].proc = "dead"
      BY <3>1 DEF IInv, Types, Handle
    <3> QED BY <1>4, <3>1, <3>2 DEF HealthHang, IInv, Types, Mild, record
  <2>2. Moves(t, "kill", "idle", 0)
    <3> DEFINE r == [Idle EXCEPT !.pc = "kill", !.mine = reg]
    <3>1. r \in Record /\ r.pc = "kill" /\ r.ret = "idle" /\ r.h = 0
      BY IdleRecord DEF Record, Labels, IInv, Types
    <3>2. wk' = [wk EXCEPT ![t] = r]
      BY <1>4 DEF HealthHang
    <3> HIDE DEF r
    <3>3. Moves(t, r.pc, r.ret, r.h)
      BY <1>1, <3>1, <3>2, Put DEF IInv
    <3> QED BY <3>1, <3>3
  <2>3. wk[t].pc \notin Held /\ holder' = holder
    BY <1>4 DEF HealthHang, Free, At, Held, lock
  <2>4. Guarded(t, "kill", "idle") /\ t # "shut" /\ shutdown' = shutdown
    <3>1. wk[t].pc = "idle" /\ starting' = starting /\ restarting' = restarting /\ shutdown' = shutdown
      BY <1>4 DEF HealthHang, Free, At, guards
    <3>2. wk[t].ret \notin RestartReturns
      BY <1>1, <3>1 DEF IInv, FlowInv, Routed, Calls, Held
    <3>3. "kill" \notin Calls /\ "kill" \in TaskLabels /\ "idle" \notin RestartReturns /\ "idle" \notin Starts
      BY DEF Calls, Held, TaskLabels, RestartReturns, Starts
    <3> QED BY <3>1, <3>2, <3>3, KindsDiffer DEF Guarded, Routed, Owns
  <2> QED BY <1>1, <2>1, <2>2, <2>3, <2>4, MoveNeutral DEF Held
<1>5. CASE Killed(t)
  <2>1. wk[t].mine \in Handles \cup {0} /\ wk[t].pc = "kill" /\ reg' = reg /\ dropped' = dropped
        /\ starting' = starting /\ shutdown' = shutdown
    BY <1>1, <1>5, RecordFields DEF Killed, At, IInv, Types, bounds
  <2>2. CASE wk' = [wk EXCEPT ![t] = Idle] /\ UNCHANGED <<h, lock, restarting, record>>
    <3>1. Mild
      BY <2>1, <2>2, Unchanging DEF record
    <3>2. Moves(t, "idle", "idle", 0)
      BY <1>1, <2>2, IdleMoves DEF IInv
    <3>3. Guarded(t, "idle", "idle") /\ t # "shut"
      BY <1>1, <2>1, <2>2, IdleGuarded, KindsDiffer DEF Calls, Held, RestartReturns
    <3> QED BY <1>1, <2>1, <2>2, <3>1, <3>2, <3>3, MoveNeutral DEF Held, lock
  <2>3. CASE HandleFailure(t, wk[t].mine, [st |-> "FAILED", proc |-> "none"])
    <3>1. [st |-> "FAILED", proc |-> "none"] \in Handle
      BY DEF Handle, States
    <3> QED BY <2>1, <2>3, <3>1, HandleFailureNeutral
  <2> QED BY <1>5, <2>2, <2>3 DEF Killed, record
<1> QED BY <1>2, <1>3, <1>4, <1>5

(* A handler that goes on at l after changing other fields of its record.   *)
LEMMA FieldMoves ==
    ASSUME Types, NEW w \in Workers, NEW l \in Labels, NEW a \in Nat, NEW o \in {"ok", "error"},
           \/ wk' = [wk EXCEPT ![w].pc = l, ![w].att = a]
           \/ wk' = [wk EXCEPT ![w].pc = l, ![w].out = o]
           \/ wk' = [wk EXCEPT ![w].pc = l, ![w].att = a, ![w].out = o]
    PROVE  Moves(w, l, wk[w].ret, wk[w].h)
<1>1. wk[w] \in Record
  BY DEF Types
<1> DEFINE r1 == [wk[w] EXCEPT !.pc = l, !.att = a]
           r2 == [wk[w] EXCEPT !.pc = l, !.out = o]
           r3 == [wk[w] EXCEPT !.pc = l, !.att = a, !.out = o]
<1>2. /\ r1 \in Record /\ r1.pc = l /\ r1.ret = wk[w].ret /\ r1.h = wk[w].h
      /\ r2 \in Record /\ r2.pc = l /\ r2.ret = wk[w].ret /\ r2.h = wk[w].h
      /\ r3 \in Record /\ r3.pc = l /\ r3.ret = wk[w].ret /\ r3.h = wk[w].h
  BY <1>1 DEF Record
<1>3. wk' = [wk EXCEPT ![w] = r1] \/ wk' = [wk EXCEPT ![w] = r2] \/ wk' = [wk EXCEPT ![w] = r3]
  BY DEF Types
<1> HIDE DEF r1, r2, r3
<1>4. ASSUME NEW r \in Record, r.pc = l, r.ret = wk[w].ret, r.h = wk[w].h, wk' = [wk EXCEPT ![w] = r]
      PROVE  Moves(w, l, wk[w].ret, wk[w].h)
  BY <1>4, Put
<1> QED BY <1>2, <1>3, <1>4

LEMMA HandlerNeutral ==
    ASSUME IInv, NEW t \in Tasks, Handler(t)
    PROVE  Neutral /\ Kept
<1> USE WorkerKinds
<1>1. CASE FailRepaired(t)
  <2>1. Mild
    BY <1>1, Unchanging DEF FailRepaired, bounds
  <2>2. Moves(t, wk[t].pc, wk[t].ret, wk[t].h)
    <3> DEFINE r == [wk[t] EXCEPT !.n = 0]
    <3>1. r \in Record /\ r.pc = wk[t].pc /\ r.ret = wk[t].ret /\ r.h = wk[t].h
      BY CountFacts DEF IInv, Types, Record
    <3>2. wk' = [wk EXCEPT ![t] = r]
      BY <1>1 DEF FailRepaired, IInv, Types
    <3> HIDE DEF r
    <3>3. Moves(t, r.pc, r.ret, r.h)
      BY <3>1, <3>2, Put DEF IInv
    <3> QED BY <3>1, <3>3
  <2>3. wk[t].pc \notin Held /\ holder' = holder
    BY <1>1 DEF FailRepaired, At, Held, lock
  <2>4. Guarded(t, wk[t].pc, wk[t].ret) /\ t # "shut" /\ shutdown' = shutdown
    BY <1>1, <2>3, KindsDiffer, GotoGuarded
    DEF FailRepaired, At, guards, Labels, Calls, Held, TaskLabels, TaskReturns, RestartReturns
  <2> QED BY <2>1, <2>2, <2>3, <2>4, MoveNeutral
<1>2. CASE FailWake(t)
  <2>1. Mild
    <3>1. wk[t].n \in Counts
      BY RecordFields DEF IInv, Types
    <3> QED BY <1>2, <3>1, CountFacts DEF FailWake, IInv, Types, Mild, bounds
  <2>2. \E l \in {"respawn", "stop", "fail.end"} : \E m : Moves(t, l, m, wk[t].h) /\ Guarded(t, l, m)
    <3>0. /\ Guarded(t, "respawn", wk[t].ret) /\ Guarded(t, "fail.end", wk[t].ret) /\ Guarded(t, "stop", "fail.end")
      BY <1>2, KindsDiffer, GotoGuarded, CallGuarded DEF FailWake, At, guards, Labels, Calls, Held, TaskLabels, TaskReturns
    <3>1. CASE enabled
      <4>1. Moves(t, "respawn", wk[t].ret, wk[t].h)
        BY <1>2, <3>1, FieldMoves DEF FailWake, IInv, Labels
      <4> QED BY <3>0, <4>1
    <3>2. CASE Call(t, "stop", "fail.end")
      <4>1. Moves(t, "stop", "fail.end", wk[t].h)
        BY <3>2, CallMoves DEF IInv, Labels, Returns
      <4> QED BY <3>0, <4>1
    <3>3. CASE Goto(t, "fail.end")
      <4>1. Moves(t, "fail.end", wk[t].ret, wk[t].h)
        BY <3>3, GotoMoves DEF IInv, Labels
      <4> QED BY <3>0, <4>1
    <3> QED BY <1>2, <3>1, <3>2, <3>3 DEF FailWake
  <2>3. wk[t].pc \notin Held /\ (holder' = holder \/ holder = "none")
    BY <1>2 DEF FailWake, At, Held, Call, Acquire, lock
  <2>4. t # "shut" /\ shutdown' = shutdown
    BY <1>2, KindsDiffer DEF FailWake
  <2> QED BY <2>1, <2>2, <2>3, <2>4, MoveNeutral DEF Held
<1>3. CASE Respawn(t)
  <2>1. Mild
    BY <1>3, Unchanging DEF Respawn, record, bounds
  <2>2. \E l \in {"stop", "start", "respawn.none"} : \E m : Moves(t, l, m, wk[t].h) /\ Guarded(t, l, m)
    <3>1. ASSUME NEW l \in {"stop", "start"}, NEW m \in {"respawn.none", "respawn.start", "respawn.check"}, Call(t, l, m)
          PROVE  Moves(t, l, m, wk[t].h) /\ Guarded(t, l, m)
      <4>1. l \in Labels /\ m \in Returns
        BY DEF Labels, Returns
      <4>2. starting' = starting /\ wk[t].pc \notin Calls /\ m \in TaskReturns
        BY <1>3 DEF Respawn, At, guards, Calls, Held, TaskReturns
      <4> QED BY <3>1, <4>1, <4>2, CallMoves, CallGuarded, KindsDiffer DEF IInv
    <3>2. CASE Goto(t, "respawn.none")
      <4>1. Moves(t, "respawn.none", wk[t].ret, wk[t].h)
        BY <3>2, GotoMoves DEF IInv, Labels
      <4>2. Guarded(t, "respawn.none", wk[t].ret)
        BY <1>3, KindsDiffer, GotoGuarded DEF Respawn, At, guards, Labels, Calls, Held, TaskLabels
      <4> QED BY <4>1, <4>2
    <3>3. \/ Goto(t, "respawn.none")
          \/ \E l \in {"stop", "start"} : \E m \in {"respawn.none", "respawn.start", "respawn.check"} : Call(t, l, m)
      BY <1>3 DEF Respawn
    <3> QED BY <3>1, <3>2, <3>3
  <2>3. wk[t].pc \notin Held /\ (holder' = holder \/ holder = "none")
    BY <1>3 DEF Respawn, At, Held, Call, Acquire, lock
  <2>4. t # "shut" /\ shutdown' = shutdown
    BY <1>3, KindsDiffer DEF Respawn
  <2> QED BY <2>1, <2>2, <2>3, <2>4, MoveNeutral DEF Held
<1>4. CASE RespawnStart(t)
  <2>1. Mild
    BY <1>4, Unchanging DEF RespawnStart, record, bounds
  <2>2. Moves(t, "start", "respawn.check", wk[t].h)
    BY <1>4, CallMoves DEF RespawnStart, IInv, Labels, Returns
  <2>3. wk[t].pc \notin Held /\ (holder' = holder \/ holder = "none")
    BY <1>4 DEF RespawnStart, At, Held, Call, Acquire, lock
  <2>4. Guarded(t, "start", "respawn.check") /\ t # "shut" /\ shutdown' = shutdown
    BY <1>4, <2>3, KindsDiffer, CallGuarded
    DEF RespawnStart, At, guards, Labels, Calls, Held, TaskLabels, TaskReturns, RestartReturns
  <2> QED BY <2>1, <2>2, <2>3, <2>4, MoveNeutral DEF Held
<1>5. CASE RespawnSucceeds(t)
  <2>1. Mild
    BY <1>5, Unchanging DEF RespawnSucceeds, record, bounds
  <2>2. Moves(t, "fail.end", wk[t].ret, wk[t].h)
    BY <1>5, GotoMoves DEF RespawnSucceeds, IInv, Labels
  <2>3. wk[t].pc \notin Held /\ (holder' = holder \/ holder = "none")
    BY <1>5 DEF RespawnSucceeds, At, Held, Call, Acquire, lock
  <2>4. Guarded(t, "fail.end", wk[t].ret) /\ t # "shut" /\ shutdown' = shutdown
    BY <1>5, <2>3, KindsDiffer, GotoGuarded
    DEF RespawnSucceeds, At, guards, Labels, Calls, Held, TaskLabels, TaskReturns, RestartReturns
  <2> QED BY <2>1, <2>2, <2>3, <2>4, MoveNeutral DEF Held
<1>6. CASE RespawnRefused(t)
  <2>1. Mild
    BY <1>6, Unchanging DEF RespawnRefused, record, bounds
  <2>2. Moves(t, "respawn.none", wk[t].ret, wk[t].h)
    BY <1>6, GotoMoves DEF RespawnRefused, IInv, Labels
  <2>3. wk[t].pc \notin Held /\ (holder' = holder \/ holder = "none")
    BY <1>6 DEF RespawnRefused, At, Held, Call, Acquire, lock
  <2>4. Guarded(t, "respawn.none", wk[t].ret) /\ t # "shut" /\ shutdown' = shutdown
    BY <1>6, <2>3, KindsDiffer, GotoGuarded
    DEF RespawnRefused, At, guards, Labels, Calls, Held, TaskLabels, TaskReturns, RestartReturns
  <2> QED BY <2>1, <2>2, <2>3, <2>4, MoveNeutral DEF Held
<1>7. CASE RespawnFails(t)
  <2>1. Mild
    <3>1. ASSUME NEW k \in Handles \cup {0}, h' = h \/ h' = [h EXCEPT ![k].st = "FAILED"]
          PROVE  h' \in [Handles -> Handle] /\ \A j \in Handles : h'[j].proc = h[j].proc
      BY <3>1, SMT DEF IInv, Types, Handle, States
    <3>2. wk[t].mine \in Handles \cup {0} /\ wk[t].n \in Counts
      BY RecordFields DEF IInv, Types
    <3> QED BY <1>7, <3>1 DEF RespawnFails, MarkError, IInv, Types, Mild, bounds
  <2>2. \E l \in {"respawn", "respawn.sleep", "respawn.told", "respawn.none"} : Moves(t, l, wk[t].ret, wk[t].h)
    <3>1. wk[t].att + 1 \in Nat
      BY RecordFields, SMT DEF IInv, Types
    <3>2. \E l \in {"respawn", "respawn.sleep", "respawn.told", "respawn.none"} :
              \/ wk' = [wk EXCEPT ![t].pc = l, ![t].att = wk[t].att + 1, ![t].out = "ok"]
              \/ wk' = [wk EXCEPT ![t].pc = l, ![t].out = "ok"]
      BY <1>7 DEF RespawnFails, IInv, Types, Record
    <3>3. {"respawn", "respawn.sleep", "respawn.told", "respawn.none"} \subseteq Labels
      BY DEF Labels
    <3> QED BY <3>1, <3>2, <3>3, FieldMoves DEF IInv
  <2>3. wk[t].pc \notin Held /\ (holder' = holder \/ holder = "none")
    BY <1>7 DEF RespawnFails, At, Held, Call, Acquire, lock
  <2>4. /\ Guarded(t, "respawn", wk[t].ret)
       /\ Guarded(t, "respawn.sleep", wk[t].ret)
       /\ Guarded(t, "respawn.told", wk[t].ret)
       /\ Guarded(t, "respawn.none", wk[t].ret)
       /\ t # "shut" /\ shutdown' = shutdown
    BY <1>7, <2>3, KindsDiffer, GotoGuarded
    DEF RespawnFails, At, guards, Labels, Calls, Held, TaskLabels, TaskReturns, RestartReturns
  <2> QED BY <2>1, <2>2, <2>3, <2>4, MoveNeutral DEF Held
<1>8. CASE RespawnNone(t)
  <2>1. Mild
    <3>1. ASSUME NEW k \in Handles \cup {0}, h' = h \/ h' = [h EXCEPT ![k].st = "FAILED"]
          PROVE  h' \in [Handles -> Handle] /\ \A j \in Handles : h'[j].proc = h[j].proc
      BY <3>1, SMT DEF IInv, Types, Handle, States
    <3>2. wk[t].mine \in Handles \cup {0} /\ wk[t].n \in Counts
      BY RecordFields DEF IInv, Types
    <3> QED BY <1>8, <3>1, <3>2, CountFacts DEF RespawnNone, IInv, Types, Mild, bounds
  <2>2. Moves(t, "fail.end", wk[t].ret, wk[t].h)
    BY <1>8, GotoMoves DEF RespawnNone, IInv, Labels
  <2>3. wk[t].pc \notin Held /\ (holder' = holder \/ holder = "none")
    BY <1>8 DEF RespawnNone, At, Held, Call, Acquire, lock
  <2>4. Guarded(t, "fail.end", wk[t].ret) /\ t # "shut" /\ shutdown' = shutdown
    BY <1>8, <2>3, KindsDiffer, GotoGuarded
    DEF RespawnNone, At, guards, Labels, Calls, Held, TaskLabels, TaskReturns, RestartReturns
  <2> QED BY <2>1, <2>2, <2>3, <2>4, MoveNeutral DEF Held
<1>9. CASE FailEnd(t)
  <2>1. Mild
    <3>1. NoHandle \in Handle /\ NoHandle.proc = "none"
      BY DEF NoHandle, Handle, States
    <3>2. h' = h \/ h' = [h EXCEPT ![wk[t].mine] = NoHandle]
      BY <1>9 DEF FailEnd
    <3> QED BY <1>9, <3>1, <3>2 DEF FailEnd, IInv, Types, Mild, record, bounds
  <2>2. Moves(t, "idle", "idle", 0)
    BY <1>9, IdleMoves DEF FailEnd, IInv
  <2>3. wk[t].pc \notin Held /\ (holder' = holder \/ holder = "none")
    BY <1>9 DEF FailEnd, At, Held, Call, Acquire, lock
  <2>4. Guarded(t, "idle", "idle") /\ t # "shut" /\ shutdown' = shutdown
    BY <1>9, <2>3, KindsDiffer, IdleGuarded
    DEF FailEnd, At, guards, Labels, Calls, Held, TaskLabels, TaskReturns, RestartReturns
  <2> QED BY <2>1, <2>2, <2>3, <2>4, MoveNeutral DEF Held
<1>10. CASE Killed(t)
  BY <1>10, HealthNeutral
<1> QED BY <1>1, <1>2, <1>3, <1>4, <1>5, <1>6, <1>7, <1>8, <1>9, <1>10 DEF Handler

LEMMA ReconcileNeutral ==
    ASSUME IInv, RecScan \/ RecFailed \/ RecWanted \/ RecLook \/ RecStart \/ RecStarted \/ RecStop
    PROVE  Neutral /\ Kept
<1> USE WorkerKinds
<1>1. CASE RecScan
  <2>1. Mild
    BY <1>1, Unchanging DEF RecScan, record, bounds
  <2>2. Moves("rec", "rec.failed", wk["rec"].ret, wk["rec"].h)
    BY <1>1, GotoMoves DEF RecScan, IInv, Labels
  <2>3. wk["rec"].pc \notin Held /\ (holder' = holder \/ holder = "none")
    BY <1>1 DEF RecScan, At, Held, Call, Acquire, lock
  <2>4. Guarded("rec", "rec.failed", wk["rec"].ret) /\ "rec" # "shut" /\ shutdown' = shutdown
    BY <1>1, <2>3, KindsDiffer, GotoGuarded
    DEF RecScan, At, guards, Labels, Calls, Held, TaskLabels, TaskReturns, RestartReturns
  <2> QED BY <2>1, <2>2, <2>3, <2>4, MoveNeutral DEF Held
<1>2. CASE RecFailed
  <2>1. Mild
    BY <1>2, Unchanging DEF RecFailed, record, bounds
  <2>2. Moves("rec", "rec.pop", "rec.wanted", wk["rec"].h) \/ Moves("rec", "rec.wanted", wk["rec"].ret, wk["rec"].h)
    BY <1>2, GotoMoves, CallMoves DEF RecFailed, IInv, Labels, Returns
  <2>3. wk["rec"].pc \notin Held /\ (holder' = holder \/ holder = "none")
    BY <1>2 DEF RecFailed, At, Held, Call, Acquire, lock
  <2>4. "rec.pop" \notin Held /\ "rec.wanted" \notin Held
    BY DEF Held
  <2>5. Guarded("rec", "rec.wanted", wk["rec"].ret) /\ "rec" # "shut" /\ shutdown' = shutdown
    BY <1>2, <2>3, KindsDiffer, GotoGuarded
    DEF RecFailed, At, guards, Labels, Calls, Held, TaskLabels, TaskReturns, RestartReturns
  <2>6. Guarded("rec", "rec.pop", "rec.wanted")
    <3>1. /\ starting' = starting /\ restarting' = restarting /\ wk["rec"].pc \notin Starts
          /\ wk["rec"].pc \notin Calls /\ "rec.wanted" \notin RestartReturns /\ wk["rec"].pc \notin RestartReturns
      BY <1>2 DEF RecFailed, At, guards, Starts, Calls, Held, RestartReturns
    <3>2. wk["rec"].ret \notin RestartReturns
      BY <3>1 DEF IInv, FlowInv, Routed
    <3> QED BY <3>1, <3>2, KindsDiffer DEF Guarded, Routed, Owns
  <2> QED BY <2>1, <2>2, <2>3, <2>4, <2>5, <2>6, MoveNeutral
<1>3. CASE RecWanted
  <2>1. Mild
    BY <1>3, Unchanging DEF RecWanted, record, bounds
  <2>2. Moves("rec", "restart", wk["rec"].ret, wk["rec"].h) \/ Moves("rec", "rec.look", wk["rec"].ret, wk["rec"].h)
    BY <1>3, GotoMoves DEF RecWanted, IInv, Labels
  <2>3. wk["rec"].pc \notin Held /\ (holder' = holder \/ holder = "none")
    BY <1>3 DEF RecWanted, At, Held, Call, Acquire, lock
  <2>4. /\ Guarded("rec", "restart", wk["rec"].ret)
       /\ Guarded("rec", "rec.look", wk["rec"].ret)
       /\ "rec" # "shut" /\ shutdown' = shutdown
    BY <1>3, <2>3, KindsDiffer, GotoGuarded
    DEF RecWanted, At, guards, Labels, Calls, Held, TaskLabels, TaskReturns, RestartReturns
  <2> QED BY <2>1, <2>2, <2>3, <2>4, MoveNeutral DEF Held
<1>4. CASE RecLook
  <2>1. Mild
    BY <1>4, Unchanging DEF RecLook, record, bounds
  <2>2. Moves("rec", "rec.start", wk["rec"].ret, wk["rec"].h)
    <3>1. "rec.start" \in Labels
      BY DEF Labels
    <3> QED BY <1>4, <3>1, FieldMoves DEF RecLook, IInv
  <2>3. wk["rec"].pc \notin Held /\ (holder' = holder \/ holder = "none")
    BY <1>4 DEF RecLook, At, Held, Call, Acquire, lock
  <2>4. Guarded("rec", "rec.start", wk["rec"].ret) /\ "rec" # "shut" /\ shutdown' = shutdown
    BY <1>4, <2>3, KindsDiffer, GotoGuarded
    DEF RecLook, At, guards, Labels, Calls, Held, TaskLabels, TaskReturns, RestartReturns
  <2> QED BY <2>1, <2>2, <2>3, <2>4, MoveNeutral DEF Held
<1>5. CASE RecStart
  <2>1. Mild
    BY <1>5, Unchanging DEF RecStart, record, bounds
  <2>2. Moves("rec", "start", "rec.started", wk["rec"].h) \/ Moves("rec", "rec.stop", wk["rec"].ret, wk["rec"].h)
    BY <1>5, GotoMoves, CallMoves DEF RecStart, IInv, Labels, Returns
  <2>3. wk["rec"].pc \notin Held /\ (holder' = holder \/ holder = "none")
    BY <1>5 DEF RecStart, At, Held, Call, Acquire, lock
  <2>4. "start" \notin Held /\ "rec.stop" \notin Held
    BY DEF Held
  <2>5. /\ Guarded("rec", "start", "rec.started")
       /\ Guarded("rec", "rec.stop", wk["rec"].ret)
       /\ "rec" # "shut" /\ shutdown' = shutdown
    BY <1>5, <2>3, KindsDiffer, GotoGuarded, CallGuarded
    DEF RecStart, At, guards, Labels, Calls, Held, TaskLabels, TaskReturns, RestartReturns
  <2> QED BY <2>1, <2>2, <2>3, <2>4, <2>5, MoveNeutral
<1>6. CASE RecStarted
  <2>1. Mild
    BY <1>6, Unchanging DEF RecStarted, record, bounds
  <2>2. Moves("rec", "rec.stop", wk["rec"].ret, wk["rec"].h)
    BY <1>6, GotoMoves DEF RecStarted, IInv, Labels
  <2>3. wk["rec"].pc \notin Held /\ (holder' = holder \/ holder = "none")
    BY <1>6 DEF RecStarted, At, Held, Call, Acquire, lock
  <2>4. Guarded("rec", "rec.stop", wk["rec"].ret) /\ "rec" # "shut" /\ shutdown' = shutdown
    BY <1>6, <2>3, KindsDiffer, GotoGuarded
    DEF RecStarted, At, guards, Labels, Calls, Held, TaskLabels, TaskReturns, RestartReturns
  <2> QED BY <2>1, <2>2, <2>3, <2>4, MoveNeutral DEF Held
<1>7. CASE RecStop
  <2>1. Mild
    BY <1>7, Unchanging DEF RecStop, record, bounds
  <2>2. Moves("rec", "stop", "idle", wk["rec"].h) \/ Moves("rec", "idle", "idle", 0)
    BY <1>7, CallMoves, IdleMoves DEF RecStop, IInv, Labels, Returns
  <2>3. wk["rec"].pc \notin Held /\ (holder' = holder \/ holder = "none")
    BY <1>7 DEF RecStop, At, Held, Call, Acquire, lock
  <2>4. "stop" \notin Held /\ "idle" \notin Held
    BY DEF Held
  <2>5. Guarded("rec", "stop", "idle") /\ Guarded("rec", "idle", "idle") /\ "rec" # "shut" /\ shutdown' = shutdown
    BY <1>7, <2>3, KindsDiffer, CallGuarded, IdleGuarded
    DEF RecStop, At, guards, Labels, Calls, Held, TaskLabels, TaskReturns, RestartReturns
  <2> QED BY <2>1, <2>2, <2>3, <2>4, <2>5, MoveNeutral
<1> QED BY <1>1, <1>2, <1>3, <1>4, <1>5, <1>6, <1>7

LEMMA ApiNeutral ==
    ASSUME IInv, NEW c \in Callers, Api(c)
    PROVE  Neutral /\ Kept
<1> USE WorkerKinds
<1>1. CASE Start(c)
  <2>1. Mild
    BY <1>1, Unchanging DEF Start, Request, record
  <2>2. Moves(c, "start", "idle", wk[c].h)
    BY <1>1, CallMoves DEF Start, IInv, Labels, Returns
  <2>3. wk[c].pc \notin Held /\ (holder' = holder \/ holder = "none")
    BY <1>1 DEF Start, At, Held, Request, Call, Acquire, lock
  <2>4. Guarded(c, "start", "idle") /\ c # "shut" /\ shutdown' = shutdown
    BY <1>1, <2>3, KindsDiffer, CallGuarded
    DEF Start, Request, At, guards, Labels, Calls, Held, TaskLabels, TaskReturns, RestartReturns
  <2> QED BY <2>1, <2>2, <2>3, <2>4, MoveNeutral DEF Held
<1>2. CASE Stop(c)
  <2>1. Mild
    BY <1>2, Unchanging DEF Stop, Request, record
  <2>2. Moves(c, "stop", "idle", wk[c].h)
    BY <1>2, CallMoves DEF Stop, IInv, Labels, Returns
  <2>3. wk[c].pc \notin Held /\ (holder' = holder \/ holder = "none")
    BY <1>2 DEF Stop, At, Held, Request, Call, Acquire, lock
  <2>4. Guarded(c, "stop", "idle") /\ c # "shut" /\ shutdown' = shutdown
    BY <1>2, <2>3, KindsDiffer, CallGuarded
    DEF Stop, Request, At, guards, Labels, Calls, Held, TaskLabels, TaskReturns, RestartReturns
  <2> QED BY <2>1, <2>2, <2>3, <2>4, MoveNeutral DEF Held
<1>3. CASE Restart(c)
  <2>1. Mild
    BY <1>3, Unchanging DEF Restart, Request, record
  <2>2. Moves(c, "restart", wk[c].ret, wk[c].h)
    BY <1>3, GotoMoves DEF Restart, IInv, Labels
  <2>3. wk[c].pc \notin Held /\ (holder' = holder \/ holder = "none")
    BY <1>3 DEF Restart, At, Held, Request, lock
  <2>4. Guarded(c, "restart", wk[c].ret) /\ c # "shut" /\ shutdown' = shutdown
    BY <1>3, <2>3, KindsDiffer, GotoGuarded
    DEF Restart, Request, At, guards, Labels, Calls, Held, TaskLabels, TaskReturns, RestartReturns
  <2> QED BY <2>1, <2>2, <2>3, <2>4, MoveNeutral DEF Held
<1>4. CASE Enable(c)
  <2>1. Mild
    BY <1>4, Unchanging DEF Enable, Request, record
  <2>2. CASE Call(c, "start", "idle")
    <3>1. Moves(c, "start", "idle", wk[c].h)
      BY <2>2, CallMoves DEF IInv, Labels, Returns
    <3>2. wk[c].pc \notin Held /\ (holder' = holder \/ holder = "none")
      BY <1>4, <2>2 DEF Enable, Request, At, Held, Call, Acquire
    <3>3. Guarded(c, "start", "idle") /\ c # "shut" /\ shutdown' = shutdown
      BY <1>4, KindsDiffer, CallGuarded
      DEF Enable, Request, At, guards, Labels, Calls, Held, TaskLabels, TaskReturns, RestartReturns
    <3> QED BY <2>1, <3>1, <3>2, <3>3, MoveNeutral DEF Held
  <2>3. CASE UNCHANGED <<wk, lock>>
    BY <1>4, <2>1, <2>3, NoMoveNeutral DEF Enable
  <2> QED BY <1>4, <2>2, <2>3 DEF Enable
<1>5. CASE Disable(c)
  <2>1. Mild
    BY <1>5, Unchanging DEF Disable, Request, record
  <2>2. Moves(c, "stop", "idle", wk[c].h)
    BY <1>5, CallMoves DEF Disable, IInv, Labels, Returns
  <2>3. wk[c].pc \notin Held /\ (holder' = holder \/ holder = "none")
    BY <1>5 DEF Disable, At, Held, Request, Call, Acquire, lock
  <2>4. Guarded(c, "stop", "idle") /\ c # "shut" /\ shutdown' = shutdown
    BY <1>5, <2>3, KindsDiffer, CallGuarded
    DEF Disable, Request, At, guards, Labels, Calls, Held, TaskLabels, TaskReturns, RestartReturns
  <2> QED BY <2>1, <2>2, <2>3, <2>4, MoveNeutral DEF Held
<1> QED BY <1>1, <1>2, <1>3, <1>4, <1>5 DEF Api

(* shutdown_all's own moves outside the locked sections.                    *)
LEMMA ShutGuarded ==
    ASSUME IInv, UNCHANGED guards, wk["shut"].pc \notin Calls, wk["shut"].pc \notin RestartReturns,
           NEW l \in ShutLabels, NEW m, m = wk["shut"].ret \/ m \notin RestartReturns,
           l \in Calls => m = "shut.barrier", l = "barrier" => m = "end"
    PROVE  Guarded("shut", l, m)
<1>1. wk["shut"].ret \notin RestartReturns
  BY WorkerKinds DEF IInv, FlowInv, Routed
<1>2. wk["shut"].pc \notin Starts
  BY DEF Starts, Calls, Held
<1> QED BY <1>1, <1>2, KindsDiffer DEF Guarded, Routed, Owns, guards

LEMMA OtherNeutral ==
    ASSUME IInv,
           \/ HealthStable \/ PollStatus \/ Edit \/ ShutBegin \/ ShutStop \/ ShutBarrier
           \/ \E k \in Handles : Crash(k)
           \/ \E c \in {"stop", "start", "failed"} : CooldownPasses(c)
    PROVE  Neutral /\ Kept
<1> USE WorkerKinds
<1>1. CASE HealthStable \/ PollStatus \/ Edit \/ \E c \in {"stop", "start", "failed"} : CooldownPasses(c)
  <2>1. Mild /\ wk' = wk /\ UNCHANGED lock /\ UNCHANGED guards /\ shutdown' = shutdown
    BY <1>1, Unchanging DEF HealthStable, PollStatus, Edit, CooldownPasses, record, bounds
  <2> QED BY <2>1, NoMoveNeutral
<1>2. ASSUME NEW k \in Handles, Crash(k)
      PROVE  Neutral /\ Kept
  <2>1. [h[k] EXCEPT !.proc = "dead"] \in Handle /\ [h[k] EXCEPT !.proc = "dead"].proc = "dead"
    BY DEF IInv, Types, Handle
  <2>2. h' = [h EXCEPT ![k] = [h[k] EXCEPT !.proc = "dead"]]
    BY <1>2 DEF Crash, IInv, Types
  <2>3. Mild
    BY <1>2, <2>1, <2>2 DEF Crash, IInv, Types, Mild, record
  <2> QED BY <1>2, <2>3, NoMoveNeutral DEF Crash
<1>3. CASE ShutBegin
  <2>1. Mild
    BY <1>3, Unchanging DEF ShutBegin, record, bounds
  <2>2. Moves("shut", "shut.cancel", wk["shut"].ret, wk["shut"].h)
    BY <1>3, GotoMoves DEF ShutBegin, IInv, Labels
  <2>3. wk["shut"].pc \notin Held /\ (holder' = holder \/ holder = "none")
    BY <1>3 DEF ShutBegin, At, Held, Call, Acquire, lock
  <2>4. "shut.cancel" \notin Held
    BY DEF Held
  <2>5. Guarded("shut", "shut.cancel", wk["shut"].ret)
    BY <1>3, ShutGuarded DEF ShutBegin, At, Calls, Held, RestartReturns, ShutLabels
  <2>6. ShutInv'
    BY <1>3, <2>2 DEF ShutBegin, At, Moves, IInv, ShutInv, ShutdownStops
  <2> QED BY <2>5, <2>6, <2>1, <2>2, <2>3, <2>4, MoveNeutral
<1>4. CASE ShutStop
  <2>1. Mild
    BY <1>4, Unchanging DEF ShutStop, record, bounds
  <2>2. \/ Moves("shut", "stop", "shut.barrier", wk["shut"].h)
        \/ reg = 0 /\ Moves("shut", "shut.barrier", wk["shut"].ret, wk["shut"].h)
    BY <1>4, GotoMoves, CallMoves DEF ShutStop, IInv, Labels, Returns
  <2>3. wk["shut"].pc \notin Held /\ (holder' = holder \/ holder = "none")
    BY <1>4 DEF ShutStop, At, Held, Call, Acquire, lock
  <2>5. Guarded("shut", "stop", "shut.barrier") /\ Guarded("shut", "shut.barrier", wk["shut"].ret)
    BY <1>4, ShutGuarded DEF ShutStop, At, Calls, Held, RestartReturns, ShutLabels
  <2>6. ShutInv'
    BY <1>4, <2>2 DEF ShutStop, At, Moves, IInv, ShutInv, ShutdownStops
  <2> QED BY <2>5, <2>6, <2>1, <2>2, <2>3, MoveNeutral DEF Held
<1>5. CASE ShutBarrier
  <2>1. Mild
    BY <1>5, Unchanging DEF ShutBarrier, record, bounds
  <2>2. Moves("shut", "barrier", "end", wk["shut"].h)
    BY <1>5, CallMoves DEF ShutBarrier, IInv, Labels, Returns
  <2>3. wk["shut"].pc \notin Held /\ (holder' = holder \/ holder = "none")
    BY <1>5 DEF ShutBarrier, At, Held, Call, Acquire, lock
  <2>5. Guarded("shut", "barrier", "end")
    BY <1>5, ShutGuarded DEF ShutBarrier, At, Calls, Held, RestartReturns, ShutLabels
  <2>6. ShutInv'
    BY <1>5, <2>2 DEF ShutBarrier, At, Moves, IInv, ShutInv, ShutdownStops
  <2> QED BY <2>5, <2>6, <2>1, <2>2, <2>3, MoveNeutral DEF Held
<1> QED BY <1>1, <1>2, <1>3, <1>4, <1>5

-----------------------------------------------------------------------------
(* The steps under the lifecycle lock                                       *)

(* While w holds the lock no other coroutine works on a handle.             *)
LEMMA Alone ==
    ASSUME IInv, NEW w \in Workers, holder = w
    PROVE  /\ \A v \in Workers \ {w} : wk[v].pc \notin Held /\ wk[v].h = 0
           /\ \A j \in Handles : h[j].proc = "alive" /\ j \notin dropped => j \in {reg, wk[w].h}
<1>1. \A v \in Workers \ {w} : wk[v].pc \notin Held /\ wk[v].h = 0
  BY DEF IInv, LockInv
<1>2. ASSUME NEW j \in Handles, h[j].proc = "alive", j \notin dropped
      PROVE  j \in {reg, wk[w].h}
  <2>1. j # 0
    BY BoundsAssumption
  <2>2. j = reg \/ \E v \in Workers : wk[v].h = j
    BY <1>2, <2>1 DEF IInv, Managed, Children, Alive
  <2> QED BY <1>1, <2>1, <2>2
<1> QED BY <1>1, <1>2

(* What a coroutine inside the section does keeps the guards owned, ...     *)
LEMMA ReturnGuarded ==
    ASSUME IInv, NEW w \in Workers, wk[w].pc \in Calls, restarting' = restarting,
           starting' => starting /\ wk[w].pc \notin Starts
    PROVE  Guarded(w, wk[w].ret, "idle")
<1>1. Routed(w, wk[w].pc, wk[w].ret)
  BY DEF IInv, FlowInv
<1>2. "idle" \notin RestartReturns /\ wk[w].pc \notin RestartReturns
  BY DEF Calls, Held, RestartReturns
<1>3. w \in Tasks => wk[w].ret \in TaskLabels \ Calls /\ wk[w].ret \notin {"idle", "kill"}
  BY <1>1 DEF Routed, TaskReturns, TaskLabels, Calls, Held
<1>4. w = "shut" => wk[w].ret \in ShutLabels \ Calls /\ wk[w].ret # "barrier"
  BY <1>1 DEF Routed, ShutLabels, Calls, Held
<1> QED BY <1>2, <1>3, <1>4 DEF Guarded, Routed, Owns

LEMMA StayGuarded ==
    ASSUME IInv, NEW w \in Workers, wk[w].pc \in Calls, restarting' = restarting, NEW l \in Held,
           w = "shut" => l \in ShutLabels, starting' => l \in Starts \/ (starting /\ wk[w].pc \notin Starts)
    PROVE  Guarded(w, l, wk[w].ret)
<1>1. Routed(w, wk[w].pc, wk[w].ret)
  BY DEF IInv, FlowInv
<1>2. l \in Calls /\ l \in TaskLabels /\ l # "barrier" /\ {l, wk[w].pc} \cap (RestartReturns \cup {"idle", "kill"}) = {}
  BY DEF Calls, Held, RestartReturns, TaskLabels
<1> QED BY <1>1, <1>2 DEF Guarded, Routed, Owns

(* ... and shutdown's promise.                                              *)
LEMMA ShutStep ==
    ASSUME IInv, NEW w \in Workers, NEW l, NEW m, NEW k, Moves(w, l, m, k), shutdown' = shutdown, wk[w].pc \in Calls,
           w = "shut" => l \in Held \/ (l = "shut.barrier" /\ reg' = 0),
           shutdown => /\ reg' \in {reg, 0}
                       /\ \A j \in Handles : h'[j].proc = "alive" => h[j].proc = "alive" /\ (j \in dropped => j \in dropped')
    PROVE  ShutInv'
<1>1. CASE w = "shut"
  <2>1. shutdown
    BY <1>1 DEF IInv, ShutInv, Calls, Held
  <2> QED BY <1>1, <2>1 DEF Moves, ShutInv, ShutdownStops, Held
<1>2. CASE w # "shut"
  <2>1. wk'["shut"] = wk["shut"]
    BY <1>2, WorkerKinds DEF Moves
  <2> QED BY <2>1, ShutKept
<1> QED BY <1>1, <1>2

(* w leaves the lock's section: what lives is registered.                   *)
LEMMA LeaveKeeps ==
    ASSUME IInv, NEW w \in Workers, holder = w, NEW l \in Labels \ Held, NEW m, Moves(w, l, m, 0),
           Guarded(w, l, m), ShutInv',
           reg' \in Handles \cup {0}, h' \in [Handles -> Handle], count' \in 0 .. MaxRetries,
           \A j \in Handles : h'[j].proc = "alive" /\ j \notin dropped' => j = reg'
    PROVE  IInv'
<1>1. Types'
  BY DEF Types, Moves
<1>2. \A v \in Workers : wk'[v].pc \notin Held /\ wk'[v].h = 0
  BY Alone, SMT DEF Moves
<1>3. LockInv'
  BY <1>2 DEF LockInv, Held
<1>4. Managed'
  BY DEF Managed, Children, Alive
<1> QED BY <1>1, <1>3, <1>4, MoveFlow DEF IInv

(* w stays in it, working on handle k.                                      *)
LEMMA StayKeeps ==
    ASSUME IInv, NEW w \in Workers, holder = w, holder' = w, NEW l \in Held, NEW m,
           NEW k \in Handles \cup {0}, Moves(w, l, m, k),
           Guarded(w, l, m), ShutInv',
           reg' = IF l \in {"start.wait", "start.undo"} THEN 0 ELSE k,
           h' \in [Handles -> Handle], count' \in 0 .. MaxRetries,
           \A j \in Handles : h'[j].proc = "alive" /\ j \notin dropped' => j = k
    PROVE  IInv'
<1>1. Types'
  BY DEF Types, Moves
<1>2. \A v \in Workers \ {w} : wk'[v].pc \notin Held /\ wk'[v].h = 0
  BY Alone DEF Moves
<1>3. LockInv'
  <2> SUFFICES ASSUME NEW v \in Workers
               PROVE  /\ wk'[v].pc \in Held => holder' = v
                      /\ wk'[v].pc \notin Held => wk'[v].h = 0
                      /\ wk'[v].pc \in {"start.wait", "start.undo"} => reg' = 0
                      /\ wk'[v].pc \in {"start.status", "stop.drain", "stop.wait"} => reg' = wk'[v].h
    BY DEF LockInv
  <2>1. CASE v = w
    BY <2>1 DEF Moves, Held
  <2>2. CASE v # w
    BY <1>2, <2>2 DEF Held
  <2> QED BY <2>1, <2>2
<1>4. Managed'
  BY DEF Managed, Children, Alive, Moves
<1> QED BY <1>1, <1>3, <1>4, MoveFlow DEF IInv

LEMMA NoHandleDead == NoHandle \in Handle /\ NoHandle.proc = "none"
  BY DEF NoHandle, Handle, States

LEMMA ReturnLeaves ==
    ASSUME IInv, NEW w \in Workers, NEW o \in {"ok", "error"}, Return(w, o)
    PROVE  wk[w].ret \in Labels \ Held /\ Moves(w, wk[w].ret, "idle", 0)
<1>1. wk[w].ret \in Returns
  BY RecordFields DEF IInv, Types
<1>2. wk[w].ret \in Labels \ Held
  BY <1>1 DEF Returns, Labels, Held
<1> QED BY <1>2, ReturnMoves DEF IInv

(* The handle k, the only one in use, is given up with its child dead.      *)
LEMMA GivenUp ==
    ASSUME IInv, NEW w \in Workers, holder = w, NEW o \in {"ok", "error"}, Return(w, o),
           NEW k \in Handles \cup {0}, {reg, wk[w].h} \subseteq {0, k},
           h' = [h EXCEPT ![k] = NoHandle], reg' = 0, dropped' = dropped, count' = count,
           wk[w].pc \in Calls, restarting' = restarting, starting' => starting /\ wk[w].pc \notin Starts,
           shutdown' = shutdown
    PROVE  IInv'
<1>1. h' \in [Handles -> Handle] /\ count' \in 0 .. MaxRetries
  BY NoHandleDead DEF IInv, Types
<1>2. ASSUME NEW j \in Handles, h'[j].proc = "alive", j \notin dropped'
      PROVE  FALSE
  <2>1. j # 0 /\ j # k /\ h[j].proc = "alive"
    BY <1>2, NoHandleDead, BoundsAssumption DEF IInv, Types
  <2> QED BY <1>2, <2>1, Alone, SMT
<1>3. \A j \in Handles : h'[j].proc = "alive" => h[j].proc = "alive"
  BY NoHandleDead DEF IInv, Types
<1>4. w = "shut" => wk[w].ret = "shut.barrier"
  BY DEF IInv, FlowInv, Routed
<1>5. ShutInv'
  BY <1>3, <1>4, ReturnLeaves, ShutStep
<1> QED BY <1>1, <1>2, <1>5, ReturnGuarded, ReturnLeaves, LeaveKeeps

(* The handle k changes its state and nothing else.                         *)
LEMMA StateOnly ==
    ASSUME Types, NEW k \in Handles \cup {0}, NEW x \in States, h' = [h EXCEPT ![k].st = x]
    PROVE  h' \in [Handles -> Handle] /\ \A j \in Handles : h'[j].proc = h[j].proc
<1>1. CASE k \in Handles
  <2>1. [h[k] EXCEPT !.st = x] \in Handle /\ [h[k] EXCEPT !.st = x].proc = h[k].proc
    BY <1>1 DEF Types, Handle
  <2>2. h' = [h EXCEPT ![k] = [h[k] EXCEPT !.st = x]]
    BY <1>1 DEF Types
  <2> QED BY <2>1, <2>2 DEF Types
<1>2. CASE k \notin Handles
  BY <1>2 DEF Types
<1> QED BY <1>1, <1>2

LEMMA StartKeeps ==
    ASSUME IInv, NEW w \in Workers,
           StartEnter(w) \/ StartReady(w) \/ StartFails(w) \/ StartDone(w) \/ StartUndo(w)
    PROVE  IInv'
<1>0. wk[w].h \in Handles \cup {0} /\ 0 \notin Handles
  BY RecordFields, BoundsAssumption DEF IInv, Types
<1>a. /\ wk[w].pc \in Calls /\ wk[w].pc \notin ShutLabels /\ shutdown' = shutdown /\ restarting' = restarting
      /\ starting' => starting \/ StartEnter(w)
  BY SMT DEF StartEnter, StartReady, StartFails, StartDone, StartUndo, At, Calls, Held, ShutLabels, guards
<1>b. w # "shut"
  BY <1>a DEF IInv, FlowInv, Routed
<1>1. CASE StartEnter(w)
  <2>0. holder = w /\ wk[w].h = 0 /\ reg' = reg /\ dropped' = dropped /\ count' = count
    BY <1>1 DEF StartEnter, At, Holds, IInv, LockInv, Held, record, bounds
  <2>a. wk[w].pc \notin Starts
    BY <1>1 DEF StartEnter, At, Starts
  <2>1. CASE Return(w, "ok") /\ h' = h /\ starting' = starting
    <3>1. \A i \in Handles : h'[i].proc = "alive" /\ i \notin dropped' => i = reg'
      BY <1>0, <2>0, <2>1, Alone
    <3>2. Guarded(w, wk[w].ret, "idle")
      BY <1>a, <2>a, <2>1, ReturnGuarded
    <3>3. ShutInv'
      BY <1>a, <1>b, <2>0, <2>1, ReturnLeaves, ShutStep
    <3> QED BY <2>0, <2>1, <3>1, <3>2, <3>3, ReturnLeaves, LeaveKeeps DEF IInv, Types
  <2>2. ASSUME NEW k \in Handles, reg = 0, ~shutdown, Stay(w, "start.wait", k), NEW x \in {"alive", "dead"},
               h' = [h EXCEPT ![k] = [st |-> "STARTING", proc |-> x]]
        PROVE  IInv'
    <3>1. Moves(w, "start.wait", wk[w].ret, k)
      BY <2>2, StayMoves DEF IInv, Labels
    <3>2. h' \in [Handles -> Handle] /\ count' \in 0 .. MaxRetries
      BY <2>0, <2>2 DEF IInv, Types, Handle, States
    <3>3. \A i \in Handles : h'[i].proc = "alive" /\ i \notin dropped' => i = k
      BY <1>0, <2>0, <2>2, Alone DEF IInv, Types
    <3>4. holder' = w /\ reg' = 0 /\ "start.wait" \in Held
      BY <2>0, <2>2 DEF Stay, Held
    <3>5. Guarded(w, "start.wait", wk[w].ret)
      BY <1>a, <1>b, <3>4, StayGuarded DEF Starts
    <3>6. ShutInv'
      BY <1>a, <1>b, <2>2, <3>1, ShutStep
    <3> QED BY <2>0, <3>1, <3>2, <3>3, <3>4, <3>5, <3>6, StayKeeps
  <2>3. \/ Return(w, "ok") /\ h' = h /\ starting' = starting
        \/ /\ reg = 0 /\ ~shutdown
           /\ \E k \in Handles : \E x \in {"alive", "dead"} :
                  Stay(w, "start.wait", k) /\ h' = [h EXCEPT ![k] = [st |-> "STARTING", proc |-> x]]
    BY <1>1 DEF StartEnter
  <2> QED BY <2>1, <2>2, <2>3
<1>2. ASSUME wk[w].pc \in Held
      PROVE  holder = w /\ reg \in {0, wk[w].h}
  BY <1>2 DEF IInv, LockInv, Held
<1>3. CASE StartReady(w)
  <2>1. holder = w /\ reg = 0 /\ holder' = w /\ dropped' = dropped /\ count' = count
    BY <1>3 DEF StartReady, At, IInv, LockInv, Held, lock, bounds
  <2>2. h' \in [Handles -> Handle] /\ \A i \in Handles : h'[i].proc = h[i].proc
    BY <1>0, <1>3, StateOnly DEF StartReady, IInv, States
  <2>3. \A i \in Handles : h'[i].proc = "alive" /\ i \notin dropped' => i = wk[w].h
    BY <1>0, <2>1, <2>2, Alone
  <2>a. ASSUME NEW l \in {"start.undo", "start.status"}
        PROVE  Guarded(w, l, wk[w].ret)
    <3>1. l \in Held /\ l \in Starts
      BY DEF Held, Starts
    <3> QED BY <1>a, <1>b, <3>1, StayGuarded
  <2>4. CASE Goto(w, "start.undo") /\ reg' = reg
    <3>1. Moves(w, "start.undo", wk[w].ret, wk[w].h)
      BY <2>4, GotoMoves DEF IInv, Labels
    <3>2. ShutInv'
      BY <1>a, <1>b, <2>1, <2>2, <2>4, <3>1, ShutStep
    <3> QED BY <1>0, <2>a, <2>1, <2>2, <2>3, <2>4, <3>1, <3>2, StayKeeps DEF IInv, Types, Held
  <2>5. CASE Goto(w, "start.status") /\ reg' = wk[w].h /\ ~shutdown
    <3>1. Moves(w, "start.status", wk[w].ret, wk[w].h)
      BY <2>5, GotoMoves DEF IInv, Labels
    <3>2. ShutInv'
      BY <1>a, <1>b, <2>1, <2>2, <2>5, <3>1, ShutStep
    <3> QED BY <1>0, <2>a, <2>1, <2>2, <2>3, <2>5, <3>1, <3>2, StayKeeps DEF IInv, Types, Held
  <2> QED BY <1>3, <2>4, <2>5 DEF StartReady
<1>4. CASE StartFails(w)
  <2>1. wk[w].pc \in Held /\ reg = 0
    BY <1>4 DEF StartFails, At, Held, IInv, LockInv
  <2> QED BY <1>0, <1>2, <1>4, <2>1, <1>a, GivenUp DEF StartFails, record
<1>5. CASE StartDone(w)
  <2>1. holder = w /\ reg = wk[w].h
    BY <1>5 DEF StartDone, At, Held, IInv, LockInv
  <2>2. \A i \in Handles : h'[i].proc = "alive" /\ i \notin dropped' => i = reg'
    BY <1>5, <2>1, Alone DEF StartDone, bounds
  <2>3. reg' = reg /\ h' = h /\ count' = count /\ dropped' = dropped /\ starting' = FALSE /\ Return(w, "ok")
    BY <1>5 DEF StartDone, record, bounds
  <2>4. Guarded(w, wk[w].ret, "idle")
    BY <1>a, <2>3, ReturnGuarded
  <2>5. ShutInv'
    BY <1>a, <1>b, <2>3, ReturnLeaves, ShutStep
  <2> QED BY <2>1, <2>2, <2>3, <2>4, <2>5, ReturnLeaves, LeaveKeeps DEF IInv, Types
<1>6. CASE StartUndo(w)
  <2>1. wk[w].pc \in Held /\ reg = 0
    BY <1>6 DEF StartUndo, At, Held, IInv, LockInv
  <2> QED BY <1>0, <1>2, <1>6, <2>1, <1>a, GivenUp DEF StartUndo, record, bounds
<1> QED BY <1>1, <1>3, <1>4, <1>5, <1>6

LEMMA StopKeeps ==
    ASSUME IInv, NEW w \in Workers, StopEnter(w) \/ StopDrained(w) \/ StopDone(w)
    PROVE  IInv'
<1>0. wk[w].h \in Handles \cup {0} /\ reg \in Handles \cup {0} /\ 0 \notin Handles
  BY RecordFields, BoundsAssumption DEF IInv, Types
<1>1. holder = w /\ dropped' = dropped /\ count' = count
  BY DEF StopEnter, StopDrained, StopDone, At, Holds, IInv, LockInv, Held, bounds
<1>a. /\ wk[w].pc \in Calls /\ wk[w].pc \notin Starts
      /\ shutdown' = shutdown /\ restarting' = restarting /\ starting' = starting
  BY DEF StopEnter, StopDrained, StopDone, At, Calls, Held, Starts, guards
<1>b. w = "shut" => wk[w].ret = "shut.barrier"
  BY <1>a DEF IInv, FlowInv, Routed
<1>2. ASSUME Stopped(w, reg), wk[w].h \in {0, reg}
      PROVE  IInv'
  BY <1>0, <1>1, <1>2, <1>a, GivenUp DEF Stopped
<1>3. CASE StopEnter(w)
  <2>1. wk[w].h = 0
    BY <1>3 DEF StopEnter, At, IInv, LockInv, Held
  <2>2. CASE reg = 0 /\ Return(w, "ok") /\ UNCHANGED <<h, reg>>
    <3>1. \A i \in Handles : h'[i].proc = "alive" /\ i \notin dropped' => i = reg'
      BY <1>0, <1>1, <2>1, <2>2, Alone
    <3>2. Guarded(w, wk[w].ret, "idle")
      BY <1>a, ReturnGuarded
    <3>3. ShutInv'
      BY <1>a, <1>b, <1>1, <2>2, ReturnLeaves, ShutStep
    <3> QED BY <1>1, <2>2, <3>1, <3>2, <3>3, ReturnLeaves, LeaveKeeps DEF IInv, Types
  <2>3. CASE Stopped(w, reg)
    BY <1>2, <2>1, <2>3
  <2>4. CASE Stay(w, "stop.drain", reg) /\ UNCHANGED <<h, reg>>
    <3>1. Moves(w, "stop.drain", wk[w].ret, reg)
      BY <1>0, <2>4, StayMoves DEF IInv, Labels
    <3>2. \A i \in Handles : h'[i].proc = "alive" /\ i \notin dropped' => i = reg
      BY <1>0, <1>1, <2>1, <2>4, Alone
    <3>3. holder' = w /\ "stop.drain" \in Held /\ h' \in [Handles -> Handle] /\ count' \in 0 .. MaxRetries /\ reg' = reg
      BY <1>1, <2>4 DEF Stay, Held, IInv, Types
    <3>4. Guarded(w, "stop.drain", wk[w].ret)
      BY <1>a, <3>3, StayGuarded DEF ShutLabels
    <3>5. ShutInv'
      BY <1>a, <1>1, <2>4, <3>1, <3>3, ShutStep
    <3> QED BY <1>0, <1>1, <3>1, <3>2, <3>3, <3>4, <3>5, StayKeeps
  <2> QED BY <1>3, <2>2, <2>3, <2>4 DEF StopEnter
<1>4. CASE StopDrained(w)
  <2>1. reg = wk[w].h
    BY <1>4 DEF StopDrained, At, IInv, LockInv
  <2>2. CASE Stopped(w, wk[w].h)
    BY <1>2, <2>1, <2>2
  <2>3. CASE /\ h' = [h EXCEPT ![wk[w].h].st = "STOPPING"]
             /\ Goto(w, "stop.wait")
             /\ UNCHANGED <<lock, reg>>
    <3>1. Moves(w, "stop.wait", wk[w].ret, wk[w].h)
      BY <2>3, GotoMoves DEF IInv, Labels
    <3>2. h' \in [Handles -> Handle] /\ \A i \in Handles : h'[i].proc = h[i].proc
      BY <1>0, <2>3, StateOnly DEF IInv, States
    <3>3. \A i \in Handles : h'[i].proc = "alive" /\ i \notin dropped' => i = wk[w].h
      BY <1>0, <1>1, <2>1, <3>2, Alone
    <3>4. holder' = w /\ "stop.wait" \in Held /\ count' \in 0 .. MaxRetries /\ reg' = wk[w].h
      BY <1>1, <2>1, <2>3 DEF lock, Held, IInv, Types
    <3>5. Guarded(w, "stop.wait", wk[w].ret)
      BY <1>a, <3>4, StayGuarded DEF ShutLabels
    <3>6. ShutInv'
      BY <1>a, <1>1, <2>3, <3>1, <3>2, <3>4, ShutStep
    <3> QED BY <1>0, <1>1, <3>1, <3>2, <3>3, <3>4, <3>5, <3>6, StayKeeps
  <2> QED BY <1>4, <2>2, <2>3 DEF StopDrained
<1>5. CASE StopDone(w)
  <2>1. reg = wk[w].h
    BY <1>5 DEF StopDone, At, IInv, LockInv
  <2> QED BY <1>2, <1>5, <2>1 DEF StopDone
<1> QED BY <1>3, <1>4, <1>5

LEMMA RecPopKeeps ==
    ASSUME IInv, RecPop
    PROVE  IInv'
<1>1. holder = "rec" /\ wk["rec"].h = 0
  BY WorkerKinds DEF RecPop, At, Holds, IInv, LockInv, Held
<1>2. "start" \in Labels \ Held /\ Moves("rec", "start", wk["rec"].ret, 0)
  <2>1. "start" \in Labels \ Held
    BY DEF Labels, Held
  <2>2. Moves("rec", "start", wk["rec"].ret, wk["rec"].h)
    BY <2>1, WorkerKinds, GotoMoves DEF RecPop, IInv
  <2> QED BY <1>1, <2>1, <2>2
<1>3. h' = h /\ reg' = 0 /\ count' = 0 /\ reg \in Handles \cup {0} /\ 0 \notin Handles
  BY BoundsAssumption DEF RecPop, IInv, Types
<1>4. ASSUME NEW i \in Handles, h[i].proc = "alive", i \notin dropped'
      PROVE  FALSE
  <2>1. i \notin dropped /\ i # reg /\ i # 0
    BY <1>3, <1>4 DEF RecPop, Alive
  <2> QED BY <1>1, <1>4, <2>1, WorkerKinds, Alone
<1>5. Guarded("rec", "start", wk["rec"].ret)
  <2>1. /\ wk["rec"].pc = "rec.pop" /\ "rec.pop" \notin Calls \cup RestartReturns \cup Starts /\ "start" \in Calls
    BY DEF RecPop, At, Calls, Held, RestartReturns, Starts
  <2>2. wk["rec"].ret \notin RestartReturns
    BY <2>1, WorkerKinds DEF IInv, FlowInv, Routed
  <2> QED BY <2>1, <2>2, KindsDiffer DEF RecPop, Guarded, Routed, Owns, guards
<1>6. ShutInv'
  <2>1. shutdown' = shutdown /\ dropped \subseteq dropped'
    BY DEF RecPop
  <2>2. wk'["shut"] = wk["shut"]
    BY <1>2, WorkerKinds, KindsDiffer DEF Moves
  <2> QED BY <1>3, <2>1, <2>2, ShutKept
<1> QED BY <1>1, <1>2, <1>3, <1>4, <1>5, <1>6, CountFacts, WorkerKinds, LeaveKeeps DEF IInv, Types

LEMMA ShutEndKeeps ==
    ASSUME IInv, ShutEnd
    PROVE  IInv'
<1>1. holder = "shut" /\ wk["shut"].h = 0 /\ 0 \notin Handles
  BY WorkerKinds, BoundsAssumption DEF ShutEnd, At, Holds, IInv, LockInv, Held
<1>2. h' = h /\ reg' = reg /\ count' = count /\ dropped' = dropped /\ Return("shut", "ok")
  BY DEF ShutEnd, record, bounds
<1>3. \A i \in Handles : h'[i].proc = "alive" /\ i \notin dropped' => i = reg'
  BY <1>1, <1>2, WorkerKinds, Alone
<1>4. wk["shut"].pc = "barrier" /\ wk["shut"].ret = "end" /\ reg = 0 /\ shutdown
  BY WorkerKinds DEF ShutEnd, At, IInv, FlowInv, Routed, ShutInv
<1>5. Guarded("shut", wk["shut"].ret, "idle")
  BY <1>4, ShutGuarded DEF ShutEnd, Calls, Held, RestartReturns, ShutLabels
<1>6. ShutInv'
  <2>1. Children' \subseteq dropped'
    BY <1>2, <1>3, <1>4 DEF Children, Alive
  <2> QED BY <1>2, <1>4, <2>1 DEF ShutEnd, ShutInv, ShutdownStops
<1> QED BY <1>1, <1>2, <1>3, <1>5, <1>6, WorkerKinds, ReturnLeaves, LeaveKeeps DEF IInv, Types

(* Cancelling the reconciliation, inside the lock's section or out of it.   *)
LEMMA ShutCancelKeeps ==
    ASSUME IInv, ShutCancel
    PROVE  IInv'
<1> USE WorkerKinds
<1> DEFINE e == [Idle EXCEPT !.pc = "end"]
           g == [wk["shut"] EXCEPT !.pc = "shut.stop"]
<1>0. wk["rec"].h \in Handles \cup {0} /\ 0 \notin Handles /\ "rec" # "shut"
  BY RecordFields, BoundsAssumption DEF IInv, Types
<1>1. e \in Record /\ e.pc = "end" /\ e.ret = "idle" /\ e.h = 0
  BY IdleRecord DEF Record, Labels
<1>2. g \in Record /\ g.pc = "shut.stop" /\ g.ret = wk["shut"].ret /\ g.h = wk["shut"].h
  <2>1. wk["shut"] \in Record
    BY DEF IInv, Types
  <2> QED BY <2>1 DEF Record, Labels
<1>3. wk' = [[wk EXCEPT !["rec"] = e] EXCEPT !["shut"] = g]
  BY <1>0 DEF ShutCancel, IInv, Types
<1> HIDE DEF e, g
<1>4. /\ wk' \in [Workers -> Record]
      /\ wk'["rec"].pc = "end" /\ wk'["rec"].ret = "idle" /\ wk'["rec"].h = 0
      /\ wk'["shut"].ret = wk["shut"].ret
      /\ wk'["shut"].pc = "shut.stop" /\ wk'["shut"].h = 0 /\ wk["shut"].h = 0
      /\ \A v \in Workers \ {"rec", "shut"} : wk'[v] = wk[v]
  BY <1>0, <1>1, <1>2, <1>3, SMT DEF IInv, Types, LockInv, ShutCancel, At, Held
<1>5. /\ h' \in [Handles -> Handle]
      /\ \A i \in Handles : h'[i].proc = "alive" => h[i].proc = "alive" /\ ~(wk["rec"].pc = "start.wait" /\ i = wk["rec"].h)
  BY NoHandleDead DEF ShutCancel, IInv, Types
<1>6. reg' = reg /\ count' = count /\ dropped \subseteq dropped'
  BY DEF ShutCancel, record
<1>7. Types'
  BY <1>4, <1>5, <1>6 DEF IInv, Types
<1>8. ASSUME NEW v \in Workers
      PROVE  /\ wk'[v].pc \in Held => v \notin {"rec", "shut"} /\ wk'[v] = wk[v] /\ holder' = v
             /\ wk'[v].pc \notin Held => wk'[v].h = 0
  <2>1. CASE v \in {"rec", "shut"}
    BY <1>4, <2>1 DEF Held
  <2>2. CASE v \notin {"rec", "shut"}
    <3>1. wk'[v] = wk[v]
      BY <1>4, <2>2
    <3>2. wk[v].pc \in Held => holder = v /\ holder' = holder
      BY <2>2 DEF ShutCancel, IInv, LockInv
    <3> QED BY <2>2, <3>1, <3>2 DEF IInv, LockInv
  <2> QED BY <2>1, <2>2
<1>9. LockInv'
  <2> SUFFICES ASSUME NEW v \in Workers
               PROVE  /\ wk'[v].pc \in Held => holder' = v
                      /\ wk'[v].pc \notin Held => wk'[v].h = 0
                      /\ wk'[v].pc \in {"start.wait", "start.undo"} => reg' = 0
                      /\ wk'[v].pc \in {"start.status", "stop.drain", "stop.wait"} => reg' = wk'[v].h
    BY DEF LockInv
  <2>1. CASE wk'[v].pc \in Held
    BY <1>6, <1>8, <2>1 DEF IInv, LockInv
  <2>2. CASE wk'[v].pc \notin Held
    BY <1>8, <2>2 DEF Held
  <2> QED BY <2>1, <2>2
<1>10. Managed'
  <2> SUFFICES ASSUME NEW i \in Handles, i # 0, h'[i].proc = "alive", i \notin dropped'
               PROVE  i = reg' \/ \E v \in Workers : wk'[v].h = i
    BY DEF Managed, Children, Alive
  <2>1. i = reg \/ \E v \in Workers : wk[v].h = i
    BY <1>5, <1>6 DEF IInv, Managed, Children, Alive
  <2>2. ASSUME NEW v \in Workers, wk[v].h = i, v # "rec"
        PROVE  wk'[v].h = i
    BY <1>4, <2>2
  <2>3. ASSUME wk["rec"].h = i
        PROVE  i = reg
    <3>1. wk["rec"].pc \in Held \ {"start.wait"}
      BY <1>5, <2>3 DEF IInv, LockInv
    <3>2. wk["rec"].pc # "start.undo"
      BY <1>5, <2>3 DEF ShutCancel, Alive
    <3> QED BY <2>3, <3>1, <3>2 DEF IInv, LockInv, Held
  <2> QED BY <1>6, <2>1, <2>2, <2>3
<1>11. wk["shut"].pc = "shut.cancel" /\ wk["shut"].ret \notin RestartReturns /\ wk["rec"].pc \notin RestartReturns
  <2>1. wk["shut"].pc = "shut.cancel"
    BY DEF ShutCancel, At
  <2>2. wk["shut"].ret \notin RestartReturns
    BY <2>1 DEF IInv, FlowInv, Routed, Calls, Held
  <2>3. wk["rec"].pc \notin RestartReturns
    BY <1>0 DEF ShutCancel, At, Running, RestartReturns
  <2> QED BY <2>1, <2>2, <2>3
<1>12. FlowInv'
  <2> SUFFICES ASSUME NEW v \in Workers
               PROVE  Routed(v, wk'[v].pc, wk'[v].ret)
    BY DEF FlowInv, Routed
  <2>1. CASE v = "rec"
    BY <1>4, <2>1, KindsDiffer DEF Routed, RestartReturns
  <2>2. CASE v = "shut"
    BY <1>4, <1>11, <2>2, KindsDiffer DEF Routed, ShutLabels, Calls, Held
  <2>3. CASE v \notin {"rec", "shut"}
    BY <1>4, <2>3 DEF IInv, FlowInv
  <2> QED BY <2>1, <2>2, <2>3
<1>13. ASSUME restarting'
       PROVE  \E v \in Workers : Owns(v, wk'[v].pc, wk'[v].ret)
  <2>1. restarting /\ wk["rec"].ret \notin RestartReturns
    BY <1>13 DEF ShutCancel, RestartReturns
  <2>2. PICK v \in Workers : Owns(v, wk[v].pc, wk[v].ret)
    BY <2>1 DEF IInv, OwnInv
  <2>3. v \notin {"rec", "shut"}
    <3>1. wk["shut"].pc \notin RestartReturns
      BY <1>11 DEF RestartReturns
    <3> QED BY <1>11, <2>1, <2>2, <3>1, KindsDiffer DEF Owns
  <2> QED BY <1>4, <2>2, <2>3
<1>14. ASSUME starting'
       PROVE  \E v \in Workers : wk'[v].pc \in Starts
  <2>1. starting /\ wk["rec"].pc \notin Starts
    BY <1>14 DEF ShutCancel
  <2>2. PICK v \in Workers : wk[v].pc \in Starts
    BY <2>1 DEF IInv, OwnInv
  <2>3. v \notin {"rec", "shut"}
    BY <1>11, <2>1, <2>2 DEF Starts
  <2> QED BY <1>4, <2>2, <2>3
<1>15. ShutInv'
  BY <1>4, <1>11 DEF ShutCancel, IInv, ShutInv, ShutdownStops
<1> QED BY <1>7, <1>9, <1>10, <1>12, <1>13, <1>14, <1>15 DEF IInv, OwnInv, Owns

-----------------------------------------------------------------------------
LEMMA InitIInv == Init => IInv
<1> SUFFICES ASSUME Init PROVE IInv
  OBVIOUS
<1>1. Types
  BY InitTypes
<1>2. \A w \in Workers : wk[w].pc = "idle" /\ wk[w].ret = "idle" /\ wk[w].h = 0
  BY IdleRecord DEF Init
<1>3. LockInv
  BY <1>2 DEF LockInv, Held
<1>4. Managed
  BY NoHandleDead DEF Init, Managed, Children, Alive
<1>5. FlowInv
  <2>1. /\ "idle" \notin RestartReturns \cup Calls /\ "idle" \in TaskLabels /\ "idle" \in ShutLabels
    BY DEF RestartReturns, Calls, Held, TaskLabels, ShutLabels
  <2> QED BY <1>2, <2>1 DEF FlowInv, Routed
<1>6. OwnInv /\ ShutInv
  BY <1>2, WorkerKinds DEF Init, OwnInv, ShutInv, ShutdownStops
<1> QED BY <1>1, <1>3, <1>4, <1>5, <1>6 DEF IInv

LEMMA NextIInv == IInv /\ [Next]_vars => IInv'
<1> SUFFICES ASSUME IInv, [Next]_vars PROVE IInv'
  OBVIOUS
<1>1. ASSUME NEW w \in Workers, Locked(w)
      PROVE  IInv'
  BY <1>1, StartKeeps, StopKeeps DEF Locked
<1>2. ASSUME NEW w \in Workers, Restarts(w)
      PROVE  IInv'
  BY <1>2, RestartsNeutral, NeutralKeeps
<1>3. ASSUME NEW t \in Tasks, Handler(t) \/ HealthStuck(t) \/ HealthFailed(t) \/ HealthHang(t)
      PROVE  IInv'
  BY <1>3, HandlerNeutral, HealthNeutral, NeutralKeeps
<1>4. CASE Reconcile
  BY <1>4, RecPopKeeps, ReconcileNeutral, NeutralKeeps DEF Reconcile
<1>5. CASE Shutdown
  BY <1>5, ShutCancelKeeps, ShutEndKeeps, OtherNeutral, NeutralKeeps DEF Shutdown
<1>6. ASSUME NEW c \in Callers, Api(c)
      PROVE  IInv'
  BY <1>6, ApiNeutral, NeutralKeeps
<1>7. CASE \/ HealthStable \/ PollStatus \/ Edit \/ ShutBegin
           \/ \E k \in Handles : Crash(k)
           \/ \E c \in {"stop", "start", "failed"} : CooldownPasses(c)
  BY <1>7, OtherNeutral, NeutralKeeps
<1>8. CASE UNCHANGED vars
  BY <1>8 DEF vars, IInv, Types, LockInv, Managed, Children, Alive, FlowInv, OwnInv, ShutInv, ShutdownStops
<1> QED BY <1>1, <1>2, <1>3, <1>4, <1>5, <1>6, <1>7, <1>8 DEF Next

-----------------------------------------------------------------------------
(* The lifecycle lock's queue.  The lock is held by, or queued for by, just *)
(* the coroutines that are inside a locked section or about to enter one,   *)
(* each of them once, and it is free only when nobody waits.                *)
Wants == {"start", "stop", "rec.pop", "barrier"} \cup Held

Waits(w) == \E i \in DOMAIN queue : queue[i] = w

LockQueue ==
    /\ holder \in Workers \cup {"none"} /\ queue \in Seq(Workers)
    /\ holder = "none" => queue = <<>>
    /\ ~Waits(holder)
    /\ \A i, j \in DOMAIN queue : queue[i] = queue[j] => i = j
    /\ \A w \in Workers : wk[w].pc \in Wants <=> w = holder \/ Waits(w)

(* A step moves w to l, and nobody else to or from the lock.                *)
Goes(w, l) == wk'[w].pc = l /\ \A v \in Workers \ {w} : wk'[v].pc \in Wants <=> wk[v].pc \in Wants

LEMMA NobodyWorks == "none" \notin Workers
  BY BoundsAssumption DEF Workers

(* w comes to the lock: it takes it, or waits behind the others.            *)
LEMMA AcquireKeeps ==
    ASSUME LockQueue, NEW w \in Workers, wk[w].pc \notin Wants, NEW l \in Wants, Goes(w, l), Acquire(w)
    PROVE  LockQueue'
<1>1. w # holder /\ ~Waits(w) /\ w # "none"
  BY NobodyWorks DEF LockQueue
<1>2. CASE holder = "none"
  <2>1. holder' = w /\ queue' = <<>> /\ queue = <<>>
    BY <1>2 DEF LockQueue, Acquire
  <2>2. DOMAIN queue = {} /\ DOMAIN queue' = {} /\ queue' \in Seq(Workers)
    BY <2>1, SMT
  <2>3. ASSUME NEW v \in Workers
        PROVE  wk'[v].pc \in Wants <=> v = holder'
    <3>1. v # w => wk[v].pc \notin Wants
      BY <1>2, <2>2, NobodyWorks DEF LockQueue, Waits
    <3> QED BY <2>1, <3>1 DEF Goes
  <2> QED BY <1>1, <2>1, <2>2, <2>3 DEF LockQueue, Waits
<1>3. CASE holder # "none"
  <2>1. holder' = holder /\ queue' = Append(queue, w) /\ queue \in Seq(Workers)
    BY <1>3 DEF LockQueue, Acquire
  <2>2. /\ queue' \in Seq(Workers)
        /\ DOMAIN queue' = DOMAIN queue \cup {Len(queue) + 1} /\ Len(queue) + 1 \notin DOMAIN queue
        /\ queue'[Len(queue) + 1] = w /\ \A i \in DOMAIN queue : queue'[i] = queue[i]
    BY <2>1, SMT
  <2>3. ASSUME NEW v
        PROVE  Waits(v)' <=> Waits(v) \/ v = w
    BY <2>2 DEF Waits
  <2>4. \A i, j \in DOMAIN queue' : queue'[i] = queue'[j] => i = j
    BY <1>1, <2>2, SMT DEF LockQueue, Waits
  <2>5. \A v \in Workers : wk'[v].pc \in Wants <=> v = holder' \/ Waits(v)'
    BY <1>1, <2>1, <2>3 DEF LockQueue, Goes
  <2>6. ~Waits(holder)'
    BY <1>1, <2>1, <2>2 DEF LockQueue, Waits
  <2> QED BY <1>3, <2>1, <2>2, <2>4, <2>5, <2>6 DEF LockQueue
<1> QED BY <1>2, <1>3

(* w leaves the section, and the first waiter is let in.                    *)
LEMMA ReleaseKeeps ==
    ASSUME LockQueue, NEW w \in Workers, holder = w, NEW l, l \notin Wants, Goes(w, l), Release(queue)
    PROVE  LockQueue'
<1>1. CASE queue = <<>>
  <2>1. holder' = "none" /\ queue' = <<>> /\ DOMAIN queue' = {} /\ DOMAIN queue = {} /\ queue' \in Seq(Workers)
    BY <1>1, SMT DEF Release
  <2> QED BY <2>1, NobodyWorks DEF LockQueue, Waits, Goes
<1>2. CASE queue # <<>>
  <2>1. queue \in Seq(Workers) /\ holder' = Head(queue) /\ queue' = Tail(queue)
    BY <1>2 DEF LockQueue, Release
  <2>2. /\ queue' \in Seq(Workers) /\ 1 \in DOMAIN queue /\ holder' = queue[1]
        /\ \A i \in DOMAIN queue' : i + 1 \in DOMAIN queue /\ i + 1 # 1 /\ queue'[i] = queue[i + 1]
        /\ \A i \in DOMAIN queue : i # 1 => i - 1 \in DOMAIN queue' /\ queue'[i - 1] = queue[i]
        /\ \A i, j \in DOMAIN queue' : i + 1 = j + 1 => i = j
    BY <1>2, <2>1, SMT
  <2>3. holder' \in Workers /\ holder' # w
    BY <2>1, <2>2, SMT DEF LockQueue, Waits
  <2>4. ~Waits(holder)'
    BY <2>2, SMT DEF LockQueue, Waits
  <2>5. \A i, j \in DOMAIN queue' : queue'[i] = queue'[j] => i = j
    BY <2>2, SMT DEF LockQueue
  <2>6. ASSUME NEW v \in Workers
        PROVE  Waits(v) <=> v = holder' \/ Waits(v)'
    BY <2>2, SMT DEF Waits
  <2>7. \A v \in Workers : wk'[v].pc \in Wants <=> v = holder' \/ Waits(v)'
    BY <2>3, <2>6 DEF LockQueue, Goes
  <2> QED BY <2>2, <2>3, <2>4, <2>5, <2>7, NobodyWorks DEF LockQueue
<1> QED BY <1>1, <1>2

(* w moves within the section or away from the lock.                        *)
LEMMA SameKeeps ==
    ASSUME LockQueue, NEW w \in Workers, NEW l, wk[w].pc \in Wants <=> l \in Wants, Goes(w, l), UNCHANGED <<holder, queue>>
    PROVE  LockQueue'
  BY DEF LockQueue, Waits, Goes

LEMMA StillKeeps ==
    ASSUME LockQueue, wk' = wk, UNCHANGED lock
    PROVE  LockQueue'
  BY DEF LockQueue, Waits, lock

-----------------------------------------------------------------------------
LEMMA MovesGoes ==
    ASSUME NEW w, NEW l, NEW m, NEW k, Moves(w, l, m, k)
    PROVE  Goes(w, l)
  BY DEF Moves, Goes

LEMMA CallKeeps ==
    ASSUME IInv, LockQueue, NEW w \in Workers, wk[w].pc \notin Wants,
           NEW l \in Labels \cap Wants, NEW m \in Returns, Call(w, l, m)
    PROVE  LockQueue'
<1>1. Goes(w, l) /\ Acquire(w)
  BY CallMoves, MovesGoes DEF IInv, Call
<1> QED BY <1>1, AcquireKeeps

LEMMA ReturnKeeps ==
    ASSUME IInv, LockQueue, NEW w \in Workers, holder = w, NEW o \in {"ok", "error"}, Return(w, o)
    PROVE  LockQueue'
<1>1. Goes(w, wk[w].ret) /\ Release(queue)
  BY ReturnMoves, MovesGoes DEF IInv, Return
<1>2. wk[w].ret \notin Wants
  <2>1. wk[w].ret \in Returns
    BY RecordFields DEF IInv, Types
  <2> QED BY <2>1 DEF Returns, Wants, Held
<1> QED BY <1>1, <1>2, ReleaseKeeps

LEMMA GotoKeeps ==
    ASSUME IInv, LockQueue, NEW w \in Workers, NEW l \in Labels, wk[w].pc \in Wants <=> l \in Wants,
           Goto(w, l), UNCHANGED lock
    PROVE  LockQueue'
<1>1. Goes(w, l)
  BY GotoMoves, MovesGoes DEF IInv
<1> QED BY <1>1, SameKeeps DEF lock

LEMMA IdleKeeps ==
    ASSUME IInv, LockQueue, NEW w \in Workers, wk[w].pc \notin Wants, wk' = [wk EXCEPT ![w] = Idle], UNCHANGED lock
    PROVE  LockQueue'
<1>1. Goes(w, "idle") /\ "idle" \notin Wants
  BY IdleMoves, MovesGoes DEF IInv, Wants, Held
<1> QED BY <1>1, SameKeeps DEF lock

(* start_anima and stop_anima let go of the lock when they return.          *)
LEMMA LockedLock ==
    ASSUME IInv, LockQueue, NEW w \in Workers, Locked(w)
    PROVE  LockQueue'
<1>1. wk[w].pc \in Wants /\ (wk[w].pc \in Held => holder = w)
  BY SMT DEF Locked, StartEnter, StartReady, StartFails, StartDone, StartUndo, StopEnter, StopDrained, StopDone,
             At, Wants, Held, IInv, LockInv
<1>2. holder = w
  BY <1>1, SMT DEF Locked, StartEnter, StartReady, StartFails, StartDone, StartUndo, StopEnter, StopDrained, StopDone,
             At, Holds, Held
<1>3. ASSUME NEW o \in {"ok", "error"}, Return(w, o)
      PROVE  LockQueue'
  BY <1>2, <1>3, ReturnKeeps
<1>4. ASSUME NEW l \in Labels \cap Wants, NEW k \in Handles \cup {0}, Stay(w, l, k)
      PROVE  LockQueue'
  <2>1. Goes(w, l)
    BY <1>4, StayMoves, MovesGoes DEF IInv
  <2> QED BY <1>1, <1>4, <2>1, SameKeeps DEF Stay
<1>5. ASSUME NEW l \in Labels \cap Wants, Goto(w, l), UNCHANGED lock
      PROVE  LockQueue'
  BY <1>1, <1>5, GotoKeeps
<1>6. {"start.wait", "start.status", "start.undo", "stop.drain", "stop.wait"} \subseteq Labels \cap Wants
  BY DEF Labels, Wants, Held
<1>7. CASE StartEnter(w)
  BY <1>3, <1>4, <1>6, <1>7 DEF StartEnter
<1>8. CASE StartReady(w)
  BY <1>5, <1>6, <1>8 DEF StartReady
<1>9. CASE StartFails(w) \/ StartDone(w) \/ StartUndo(w) \/ StopDone(w)
  BY <1>3, <1>9 DEF StartFails, StartDone, StartUndo, StopDone, Stopped
<1>10. CASE StopEnter(w)
  <2>1. reg \in Handles \cup {0}
    BY DEF IInv, Types
  <2> QED BY <1>3, <1>4, <1>6, <1>10, <2>1 DEF StopEnter, Stopped
<1>11. CASE StopDrained(w)
  BY <1>3, <1>5, <1>6, <1>11 DEF StopDrained, Stopped
<1> QED BY <1>7, <1>8, <1>9, <1>10, <1>11 DEF Locked

LEMMA RestartsLock ==
    ASSUME IInv, LockQueue, NEW w \in Workers, Restarts(w)
    PROVE  LockQueue'
<1>1. wk[w].pc \notin Wants
  BY DEF Restarts, RestartEnter, RestartStart, RestartEnd, At, Wants, Held
<1>2. CASE RestartEnter(w) \/ RestartStart(w)
  <2>1. {"start", "stop"} \subseteq Labels \cap Wants /\ {"restart.start", "restart.end"} \subseteq Returns
    BY DEF Labels, Wants, Returns
  <2> QED BY <1>1, <1>2, <2>1, CallKeeps DEF RestartEnter, RestartStart
<1>3. CASE RestartEnd(w)
  <2>1. CASE w = "rec"
    <3>1. Goto(w, "rec.look")
      BY <1>3, <2>1 DEF RestartEnd, Goto, IInv, Types
    <3> QED BY <1>1, <1>3, <3>1, GotoKeeps DEF RestartEnd, Labels, Wants, Held
  <2>2. CASE w # "rec"
    BY <1>1, <1>3, <2>2, IdleKeeps DEF RestartEnd
  <2> QED BY <2>1, <2>2
<1> QED BY <1>2, <1>3 DEF Restarts

(* A failure handler queues for the lock only to stop the child.            *)
LEMMA FailureLock ==
    ASSUME IInv, LockQueue, NEW t \in Tasks, NEW k \in Handles \cup {0}, NEW g, HandleFailure(t, k, g), wk[t].pc \notin Wants
    PROVE  LockQueue'
<1> USE WorkerKinds
<1> DEFINE r(l, n) == [Idle EXCEPT !.pc = l, !.ret = "fail.end", !.mine = k, !.n = n]
<1>1. ASSUME NEW l \in {"stop", "fail.end", "fail.told", "fail.sleep"}, NEW n \in Counts, wk' = [wk EXCEPT ![t] = r(l, n)]
      PROVE  Goes(t, l)
  <2>1. r(l, n).pc = l
    BY DEF Idle
  <2> HIDE DEF r
  <2> QED BY <1>1, <2>1 DEF IInv, Types, Goes
<1>2. ~Spent => count \in Counts
  BY BoundsAssumption, SMT DEF Spent, Counts, IInv, Types
<1>3. CASE shutdown \/ restarting
  BY <1>3, IdleKeeps DEF HandleFailure
<1>4. CASE ~(shutdown \/ restarting)
  <2>1. \/ /\ \E l \in {"fail.end", "fail.told", "fail.sleep"} : \E n \in Counts : wk' = [wk EXCEPT ![t] = r(l, n)]
           /\ UNCHANGED lock
        \/ wk' = [wk EXCEPT ![t] = r("stop", 0)] /\ Acquire(t)
    BY <1>2, <1>4, CountFacts DEF HandleFailure
  <2> HIDE DEF r
  <2>2. ASSUME NEW l \in {"fail.end", "fail.told", "fail.sleep"}, NEW n \in Counts, wk' = [wk EXCEPT ![t] = r(l, n)],
               UNCHANGED lock
        PROVE  LockQueue'
    <3>1. l \notin Wants
      BY DEF Wants, Held
    <3> QED BY <1>1, <2>2, <3>1, SameKeeps DEF lock
  <2>3. ASSUME wk' = [wk EXCEPT ![t] = r("stop", 0)], Acquire(t)
        PROVE  LockQueue'
    <3>1. "stop" \in Wants /\ Goes(t, "stop")
      BY <1>1, <2>3, CountFacts DEF Wants
    <3> QED BY <2>3, <3>1, AcquireKeeps
  <2> QED BY <2>1, <2>2, <2>3
<1> QED BY <1>3, <1>4

LEMMA HealthLock ==
    ASSUME IInv, LockQueue, NEW t \in Tasks, HealthStuck(t) \/ HealthFailed(t) \/ HealthHang(t) \/ Killed(t)
    PROVE  LockQueue'
<1>1. t \in Workers /\ reg \in Handles \cup {0} /\ wk[t].mine \in Handles \cup {0}
  BY WorkerKinds, RecordFields DEF IInv, Types
<1>2. wk[t].pc \notin Wants
  BY DEF HealthStuck, HealthFailed, HealthHang, Killed, Free, At, Wants, Held
<1>3. CASE HealthStuck(t) \/ HealthFailed(t)
  BY <1>1, <1>2, <1>3, FailureLock DEF HealthStuck, HealthFailed
<1>4. CASE HealthHang(t)
  <2>1. Goes(t, "kill")
    <3> DEFINE r == [Idle EXCEPT !.pc = "kill", !.mine = reg]
    <3>1. r.pc = "kill"
      BY DEF Idle
    <3>2. wk' = [wk EXCEPT ![t] = r]
      BY <1>4 DEF HealthHang
    <3> HIDE DEF r
    <3> QED BY <1>1, <3>1, <3>2 DEF IInv, Types, Goes
  <2>2. "kill" \notin Wants
    BY DEF Wants, Held
  <2> QED BY <1>1, <1>2, <1>4, <2>1, <2>2, SameKeeps DEF HealthHang, lock
<1>5. CASE Killed(t)
  BY <1>1, <1>2, <1>5, IdleKeeps, FailureLock DEF Killed
<1> QED BY <1>3, <1>4, <1>5

LEMMA HandlerLock ==
    ASSUME IInv, LockQueue, NEW t \in Tasks, Handler(t)
    PROVE  LockQueue'
<1> USE WorkerKinds
<1>1. CASE Killed(t)
  BY <1>1, HealthLock
<1>2. ASSUME ~Killed(t)
      PROVE  wk[t].pc \notin Wants
  BY <1>2, SMT DEF Handler, FailRepaired, FailWake, Respawn, RespawnStart, RespawnSucceeds, RespawnRefused, RespawnFails,
                   RespawnNone, FailEnd, At, Wants, Held
<1>3. /\ {"start", "stop"} \subseteq Labels \cap Wants
      /\ {"fail.end", "respawn.none", "respawn.start", "respawn.check"} \subseteq Returns
      /\ {"respawn", "respawn.sleep", "respawn.told", "respawn.none", "fail.end"} \subseteq Labels \ Wants
  BY DEF Labels, Wants, Returns, Held
<1>4. ASSUME NEW l \in Labels \ Wants, NEW a \in Nat, ~Killed(t), UNCHANGED lock,
             \/ wk' = [wk EXCEPT ![t].pc = l, ![t].att = a]
             \/ wk' = [wk EXCEPT ![t].pc = l, ![t].out = "ok"]
             \/ wk' = [wk EXCEPT ![t].pc = l, ![t].att = a, ![t].out = "ok"]
      PROVE  LockQueue'
  <2>1. Goes(t, l)
    BY <1>4, FieldMoves, MovesGoes DEF IInv
  <2> QED BY <1>2, <1>4, <2>1, SameKeeps DEF lock
<1>5. CASE FailRepaired(t) /\ ~Killed(t)
  <2>1. wk[t] \in Record
    BY DEF IInv, Types
  <2>2. Goes(t, wk[t].pc)
    BY <1>5, <2>1, SMT DEF FailRepaired, IInv, Types, Record, Goes
  <2> QED BY <1>5, <2>2, SameKeeps DEF FailRepaired, lock
<1>6. CASE FailWake(t) /\ ~Killed(t)
  BY <1>2, <1>3, <1>4, <1>6, CallKeeps, GotoKeeps DEF FailWake
<1>7. CASE (Respawn(t) \/ RespawnStart(t)) /\ ~Killed(t)
  BY <1>2, <1>3, <1>7, CallKeeps, GotoKeeps DEF Respawn, RespawnStart
<1>8. CASE (RespawnSucceeds(t) \/ RespawnRefused(t) \/ RespawnNone(t)) /\ ~Killed(t)
  BY <1>2, <1>3, <1>8, GotoKeeps DEF RespawnSucceeds, RespawnRefused, RespawnNone
<1>9. CASE RespawnFails(t) /\ ~Killed(t)
  <2>1. wk[t].att + 1 \in Nat
    BY RecordFields, SMT DEF IInv, Types
  <2>2. \E l \in {"respawn", "respawn.sleep", "respawn.told", "respawn.none"} :
            \/ wk' = [wk EXCEPT ![t].pc = l, ![t].att = wk[t].att + 1, ![t].out = "ok"]
            \/ wk' = [wk EXCEPT ![t].pc = l, ![t].out = "ok"]
    BY <1>9 DEF RespawnFails, IInv, Types, Record
  <2>3. UNCHANGED lock
    BY <1>9 DEF RespawnFails
  <2> QED BY <1>3, <1>4, <1>9, <2>1, <2>2, <2>3
<1>10. CASE FailEnd(t) /\ ~Killed(t)
  BY <1>2, <1>10, IdleKeeps DEF FailEnd
<1> QED BY <1>1, <1>5, <1>6, <1>7, <1>8, <1>9, <1>10 DEF Handler

(* The recovery lets the first waiter in and queues again for its own start. *)
LEMMA RecPopLock ==
    ASSUME IInv, LockQueue, RecPop
    PROVE  LockQueue'
<1> USE WorkerKinds
<1>1. Goes("rec", "start") /\ "start" \in Wants /\ wk["rec"].pc \in Wants /\ holder = "rec"
  <2>1. Moves("rec", "start", wk["rec"].ret, wk["rec"].h)
    BY GotoMoves DEF RecPop, IInv, Labels
  <2> QED BY <2>1, MovesGoes DEF RecPop, At, Holds, Wants
<1>2. CASE queue = <<>>
  BY <1>1, <1>2, SameKeeps DEF RecPop
<1>3. CASE queue # <<>>
  <2>1. queue \in Seq(Workers) /\ holder' = Head(queue) /\ queue' = Append(Tail(queue), "rec")
    BY <1>3 DEF LockQueue, RecPop
  <2> DEFINE n == Len(queue)
  <2>2. /\ queue' \in Seq(Workers) /\ 1 \in DOMAIN queue /\ holder' = queue[1]
        /\ n \in DOMAIN queue' /\ queue'[n] = "rec"
        /\ \A i \in DOMAIN queue' : i # n => i + 1 \in DOMAIN queue /\ i + 1 # 1 /\ queue'[i] = queue[i + 1]
        /\ \A i \in DOMAIN queue : i # 1 => i - 1 \in DOMAIN queue' /\ i - 1 # n /\ queue'[i - 1] = queue[i]
        /\ \A i, j \in DOMAIN queue' : i + 1 = j + 1 => i = j
    BY <1>3, <2>1, SMT
  <2> HIDE DEF n
  <2>3. \A i \in DOMAIN queue : queue[i] # "rec"
    BY <1>1 DEF LockQueue, Waits
  <2>4. holder' \in Workers /\ holder' # "rec"
    BY <2>1, <2>2, <2>3, SMT DEF LockQueue
  <2>5. ~Waits(holder)'
    <3>1. \A i \in DOMAIN queue' : queue'[i] # queue[1]
      BY <2>2, <2>3, SMT DEF LockQueue
    <3> QED BY <2>2, <3>1 DEF Waits
  <2>6. \A i, j \in DOMAIN queue' : queue'[i] = queue'[j] => i = j
    BY <2>2, <2>3, SMT DEF LockQueue
  <2>7. ASSUME NEW v \in Workers
        PROVE  v = "rec" \/ Waits(v) <=> v = holder' \/ Waits(v)'
    BY <2>2, SMT DEF Waits
  <2>8. \A v \in Workers : wk'[v].pc \in Wants <=> v = holder' \/ Waits(v)'
    BY <1>1, <2>7 DEF LockQueue, Goes
  <2> QED BY <2>2, <2>4, <2>5, <2>6, <2>8, NobodyWorks DEF LockQueue
<1> QED BY <1>2, <1>3

(* A cancelled wait takes its coroutine out of the queue, and nobody else.  *)
LEMMA WithoutFacts ==
    ASSUME LockQueue, NEW w \in Workers, NEW q, q = Without(queue, w)
    PROVE  /\ q \in Seq(Workers)
           /\ \A i, j \in DOMAIN q : q[i] = q[j] => i = j
           /\ \A v : (\E i \in DOMAIN q : q[i] = v) <=> v # w /\ Waits(v)
           /\ queue = <<>> => q = <<>>
           /\ ~Waits(w) => q = queue
<1>1. CASE ~Waits(w)
  <2>1. q = queue
    BY <1>1 DEF Without, Waits
  <2> QED BY <1>1, <2>1 DEF LockQueue, Waits
<1>2. CASE Waits(w)
  <2> DEFINE k == CHOOSE i \in DOMAIN queue : queue[i] = w
             n == Len(queue)
  <2>1. k \in DOMAIN queue /\ queue[k] = w
    BY <1>2 DEF Waits
  <2>2. q = [j \in 1 .. n - 1 |-> queue[IF j < k THEN j ELSE j + 1]]
    BY <1>2 DEF Without, Waits
  <2> HIDE DEF k
  <2>3. n \in Nat /\ DOMAIN queue = 1 .. n /\ k \in 1 .. n
    BY <2>1, SMT DEF LockQueue
  <2> HIDE DEF n
  <2>4. /\ DOMAIN q = 1 .. n - 1
        /\ \A j \in DOMAIN q : j < k => j \in DOMAIN queue /\ j # k /\ q[j] = queue[j]
        /\ \A j \in DOMAIN q : ~(j < k) => j + 1 \in DOMAIN queue /\ j + 1 # k /\ q[j] = queue[j + 1]
    BY <2>2, <2>3, SMT
  <2>5. q \in Seq(Workers)
    <3>1. \A j \in 1 .. n - 1 : q[j] \in Workers
      BY <2>4, SMT DEF LockQueue
    <3>2. n - 1 \in Nat
      BY <2>3, SMT
    <3> QED BY <2>2, <3>1, <3>2, SMT
  <2>6. \A i, j \in DOMAIN q : q[i] = q[j] => i = j
    BY <2>3, <2>4, SMT DEF LockQueue
  <2>7. ASSUME NEW v, v # w, Waits(v)
        PROVE  \E i \in DOMAIN q : q[i] = v
    <3>1. PICK i \in DOMAIN queue : queue[i] = v
      BY <2>7 DEF Waits
    <3>2. CASE i < k
      BY <2>3, <2>4, <3>1, <3>2, SMT
    <3>3. CASE ~(i < k)
      <4>1. i # k
        BY <2>1, <2>7, <3>1
      <4>2. i - 1 \in DOMAIN q /\ ~(i - 1 < k) /\ (i - 1) + 1 = i
        BY <2>3, <2>4, <3>1, <3>3, <4>1, SMT
      <4> QED BY <2>4, <3>1, <4>2
    <3> QED BY <3>2, <3>3
  <2>8. ASSUME NEW v, NEW i \in DOMAIN q, q[i] = v
        PROVE  v # w /\ Waits(v)
    BY <2>1, <2>4, <2>8, SMT DEF LockQueue, Waits
  <2>9. queue # <<>>
    BY <2>1, SMT
  <2> QED BY <1>2, <2>5, <2>6, <2>7, <2>8, <2>9
<1> QED BY <1>1, <1>2

(* The cancelled reconciliation gives the lock up, or its place in line.    *)
LEMMA ShutCancelLock ==
    ASSUME IInv, LockQueue, ShutCancel
    PROVE  LockQueue'
<1> USE WorkerKinds
<1>1. Goes("rec", "end") /\ "end" \notin Wants
  <2> DEFINE e == [Idle EXCEPT !.pc = "end"]
             g == [wk["shut"] EXCEPT !.pc = "shut.stop"]
  <2>1. e.pc = "end" /\ g.pc = "shut.stop"
    <3>1. wk["shut"] \in Record
      BY DEF IInv, Types
    <3> QED BY <3>1 DEF Idle, Record
  <2>2. wk' = [[wk EXCEPT !["rec"] = e] EXCEPT !["shut"] = g]
    BY KindsDiffer DEF ShutCancel, IInv, Types
  <2> HIDE DEF e, g
  <2>3. /\ wk'["rec"].pc = "end" /\ wk'["shut"].pc = "shut.stop"
        /\ \A v \in Workers \ {"rec", "shut"} : wk'[v] = wk[v]
    BY <2>1, <2>2, KindsDiffer, SMT DEF IInv, Types
  <2>4. wk["shut"].pc = "shut.cancel" /\ {"end", "shut.cancel", "shut.stop"} \cap Wants = {}
    BY DEF ShutCancel, At, Wants, Held
  <2> QED BY <2>3, <2>4 DEF Goes
<1> DEFINE q == Without(queue, "rec")
<1>2. /\ q \in Seq(Workers)
      /\ \A i, j \in DOMAIN q : q[i] = q[j] => i = j
      /\ \A v : (\E i \in DOMAIN q : q[i] = v) <=> v # "rec" /\ Waits(v)
      /\ queue = <<>> => q = <<>>
      /\ ~Waits("rec") => q = queue
  BY WithoutFacts
<1>3. IF holder = "rec" THEN Release(q) ELSE queue' = q /\ holder' = holder
  BY DEF ShutCancel
<1> HIDE DEF q
<1>4. CASE holder = "rec"
  <2>1. Release(queue)
    BY <1>2, <1>3, <1>4 DEF LockQueue
  <2> QED BY <1>1, <1>4, <2>1, ReleaseKeeps
<1>5. CASE holder # "rec"
  <2>1. holder' = holder /\ \A v : Waits(v)' <=> v # "rec" /\ Waits(v)
    BY <1>2, <1>3, <1>5 DEF Waits
  <2>2. ~Waits(holder)'
    BY <1>2, <1>3, <1>5 DEF LockQueue, Waits
  <2>3. \A v \in Workers : wk'[v].pc \in Wants <=> v = holder' \/ Waits(v)'
    BY <1>1, <1>5, <2>1 DEF LockQueue, Goes
  <2> QED BY <1>2, <1>3, <1>5, <2>2, <2>3 DEF LockQueue
<1> QED BY <1>4, <1>5

LEMMA ReconcileLock ==
    ASSUME IInv, LockQueue, Reconcile
    PROVE  LockQueue'
<1> USE WorkerKinds
<1>1. /\ {"start", "stop", "rec.pop"} \subseteq Labels \cap Wants /\ {"rec.wanted", "rec.started", "idle"} \subseteq Returns
      /\ {"rec.failed", "rec.wanted", "restart", "rec.look", "rec.start", "rec.stop"} \subseteq Labels \ Wants
  BY DEF Labels, Wants, Returns, Held
<1>2. CASE RecPop
  BY <1>2, RecPopLock
<1>3. ASSUME ~RecPop
      PROVE  wk["rec"].pc \notin Wants
  BY <1>3 DEF Reconcile, RecScan, RecFailed, RecWanted, RecLook, RecStart, RecStarted, RecStop, At, Wants, Held
<1>4. CASE (RecScan \/ RecWanted \/ RecStarted) /\ ~RecPop
  BY <1>1, <1>3, <1>4, GotoKeeps DEF RecScan, RecWanted, RecStarted
<1>5. CASE (RecFailed \/ RecStart) /\ ~RecPop
  BY <1>1, <1>3, <1>5, GotoKeeps, CallKeeps DEF RecFailed, RecStart
<1>6. CASE RecLook /\ ~RecPop
  <2>1. Goes("rec", "rec.start")
    BY <1>1, <1>6, FieldMoves, MovesGoes DEF RecLook, IInv
  <2> QED BY <1>1, <1>3, <1>6, <2>1, SameKeeps DEF RecLook, lock
<1>7. CASE RecStop /\ ~RecPop
  BY <1>1, <1>3, <1>7, IdleKeeps, CallKeeps DEF RecStop
<1> QED BY <1>2, <1>4, <1>5, <1>6, <1>7 DEF Reconcile

LEMMA ApiLock ==
    ASSUME IInv, LockQueue, NEW c \in Callers, Api(c)
    PROVE  LockQueue'
<1> USE WorkerKinds
<1>1. wk[c].pc \notin Wants
  BY DEF Api, Start, Stop, Restart, Enable, Disable, Request, At, Wants, Held
<1>2. {"start", "stop"} \subseteq Labels \cap Wants /\ "idle" \in Returns /\ "restart" \in Labels \ Wants
  BY DEF Labels, Wants, Returns, Held
<1>3. CASE Start(c) \/ Stop(c) \/ Disable(c)
  BY <1>1, <1>2, <1>3, CallKeeps DEF Start, Stop, Disable
<1>4. CASE Restart(c)
  BY <1>1, <1>2, <1>4, GotoKeeps DEF Restart
<1>5. CASE Enable(c)
  BY <1>1, <1>2, <1>5, CallKeeps, StillKeeps DEF Enable
<1> QED BY <1>3, <1>4, <1>5 DEF Api

LEMMA ShutdownLock ==
    ASSUME IInv, LockQueue, Shutdown \/ ShutBegin
    PROVE  LockQueue'
<1> USE WorkerKinds
<1>1. /\ {"stop", "barrier"} \subseteq Labels \cap Wants /\ {"shut.barrier", "end"} \subseteq Returns
      /\ {"shut.cancel", "shut.barrier"} \subseteq Labels \ Wants
  BY DEF Labels, Wants, Returns, Held
<1>2. CASE ShutBegin
  <2>1. wk["shut"].pc \notin Wants
    BY <1>2 DEF ShutBegin, At, Wants, Held
  <2> QED BY <1>1, <1>2, <2>1, GotoKeeps DEF ShutBegin
<1>3. CASE ShutStop \/ ShutBarrier
  <2>1. wk["shut"].pc \notin Wants
    BY <1>3 DEF ShutStop, ShutBarrier, At, Wants, Held
  <2> QED BY <1>1, <1>3, <2>1, GotoKeeps, CallKeeps DEF ShutStop, ShutBarrier
<1>4. CASE ShutEnd
  BY <1>4, ReturnKeeps DEF ShutEnd, Holds
<1> QED BY <1>2, <1>3, <1>4, ShutCancelLock DEF Shutdown

LEMMA InitLock == Init => LockQueue
<1> SUFFICES ASSUME Init PROVE LockQueue
  OBVIOUS
<1>1. holder = "none" /\ queue = <<>> /\ queue \in Seq(Workers) /\ DOMAIN queue = {}
  BY SMT DEF Init
<1>2. \A w \in Workers : wk[w].pc \notin Wants
  BY IdleRecord DEF Init, Wants, Held
<1> QED BY <1>1, <1>2, NobodyWorks DEF LockQueue, Waits

LEMMA NextLock == IInv /\ LockQueue /\ [Next]_vars => LockQueue'
<1> SUFFICES ASSUME IInv, LockQueue, [Next]_vars PROVE LockQueue'
  OBVIOUS
<1>1. ASSUME NEW w \in Workers, Locked(w) \/ Restarts(w)
      PROVE  LockQueue'
  BY <1>1, LockedLock, RestartsLock
<1>2. ASSUME NEW t \in Tasks, Handler(t) \/ HealthStuck(t) \/ HealthFailed(t) \/ HealthHang(t)
      PROVE  LockQueue'
  BY <1>2, HandlerLock, HealthLock
<1>3. ASSUME NEW c \in Callers, Api(c)
      PROVE  LockQueue'
  BY <1>3, ApiLock
<1>4. CASE \/ HealthStable \/ PollStatus \/ Edit
           \/ \E k \in Handles : Crash(k)
           \/ \E c \in {"stop", "start", "failed"} : CooldownPasses(c)
  BY <1>4, StillKeeps DEF HealthStable, PollStatus, Edit, Crash, CooldownPasses
<1>5. CASE UNCHANGED vars
  BY <1>5, StillKeeps DEF vars, lock
<1> QED BY <1>1, <1>2, <1>3, <1>4, <1>5, ReconcileLock, ShutdownLock DEF Next

-----------------------------------------------------------------------------
(* The cooldowns are those of a stop, a start and a permanent failure.      *)
Cools == {"stop", "start", "failed"}

LEMMA NextCool == Next => cool' \subseteq cool \cup Cools
<1> SUFFICES ASSUME Next PROVE cool' \subseteq cool \cup Cools
  OBVIOUS
<1>1. ASSUME NEW w \in Workers, Locked(w)
      PROVE  cool' \subseteq cool \cup Cools
  BY <1>1 DEF Locked, StartEnter, StartReady, StartFails, StartDone, StartUndo, StopEnter, StopDrained, StopDone,
              Stopped, record, Cools
<1>2. ASSUME NEW w \in Workers, Restarts(w)
      PROVE  cool' \subseteq cool \cup Cools
  BY <1>2 DEF Restarts, RestartEnter, RestartStart, RestartEnd, record
<1>3. ASSUME NEW t \in Tasks, Handler(t) \/ HealthStuck(t) \/ HealthFailed(t) \/ HealthHang(t)
      PROVE  cool' \subseteq cool \cup Cools
  <2>1. CASE HealthStuck(t) \/ HealthFailed(t) \/ HealthHang(t) \/ Killed(t)
    BY <2>1 DEF HealthStuck, HealthFailed, HealthHang, Killed, HandleFailure, record, Cools
  <2>2. CASE FailRepaired(t) \/ FailWake(t) \/ Respawn(t) \/ RespawnStart(t) \/ FailEnd(t)
    BY <2>2 DEF FailRepaired, FailWake, Respawn, RespawnStart, FailEnd, record
  <2>3. CASE RespawnSucceeds(t) \/ RespawnRefused(t) \/ RespawnFails(t) \/ RespawnNone(t)
    BY <2>3 DEF RespawnSucceeds, RespawnRefused, RespawnFails, RespawnNone, MarkError, record, Cools
  <2> QED BY <1>3, <2>1, <2>2, <2>3 DEF Handler
<1>4. CASE Reconcile
  BY <1>4 DEF Reconcile, RecScan, RecFailed, RecPop, RecWanted, RecLook, RecStart, RecStarted, RecStop, record, Cools
<1>5. CASE ShutBegin \/ Shutdown
  BY <1>5 DEF ShutBegin, Shutdown, ShutCancel, ShutStop, ShutBarrier, ShutEnd, record
<1>6. ASSUME NEW c \in Callers, Api(c)
      PROVE  cool' \subseteq cool \cup Cools
  BY <1>6 DEF Api, Start, Stop, Restart, Enable, Disable, record
<1>7. CASE \/ HealthStable \/ PollStatus \/ Edit
           \/ \E k \in Handles : Crash(k)
           \/ \E c \in {"stop", "start", "failed"} : CooldownPasses(c)
  BY <1>7 DEF HealthStable, PollStatus, Edit, Crash, CooldownPasses, record
<1> QED BY <1>1, <1>2, <1>3, <1>4, <1>5, <1>6, <1>7 DEF Next

(* The lifecycle lock never leaks and no wait for it is orphaned: it is held *)
(* exactly when a coroutine is inside a locked section or was let in, each   *)
(* waiter stands in line once, and a cancelled reconciliation leaves neither *)
(* the lock nor a place in line behind.                                      *)
THEOREM LockNeverLeaks == Spec => []LockQueue
  BY InitIInv, NextIInv, InitLock, NextLock, PTL DEF Spec

(* Every field of the supervisor keeps its type: no step leaves a handle, a *)
(* coroutine's place, the lock or a cooldown in a state the code lacks.     *)
THEOREM SupervisorTypes == Spec => []TypeOK
<1> DEFINE Cooled == cool \subseteq Cools
<1>1. Init => Cooled
  BY DEF Init
<1>2. Cooled /\ [Next]_vars => Cooled'
  BY NextCool DEF vars
<1>3. IInv /\ LockQueue /\ Cooled => TypeOK
  <2> SUFFICES ASSUME IInv, LockQueue, Cooled PROVE TypeOK
    OBVIOUS
  <2>1. Counts \subseteq Nat
    BY BoundsAssumption, SMT DEF Counts
  <2>2. Record \subseteq [pc : Labels, ret : Returns, h : Handles \cup {0}, mine : Handles \cup {0},
                          n : Nat, att : Nat, out : {"ok", "error"}]
    BY <2>1 DEF Record
  <2>3. wk \in [Workers -> [pc : Labels, ret : Returns, h : Handles \cup {0}, mine : Handles \cup {0},
                            n : Nat, att : Nat, out : {"ok", "error"}]]
    BY <2>2 DEF IInv, Types
  <2> QED BY <2>3 DEF IInv, Types, Handle, LockQueue, TypeOK, Cools
<1> QED BY <1>1, <1>2, <1>3, InitIInv, NextIInv, InitLock, NextLock, PTL DEF Spec

(* No child is lost, however many requests, handlers and faults there are:  *)
(* a live child that was not given up is the registered one or is being     *)
(* started or stopped by a coroutine inside the lifecycle lock.             *)
THEOREM ChildrenManaged == Spec => []Managed
<1>1. IInv => Managed
  BY DEF IInv
<1> QED BY <1>1, InitIInv, NextIInv, PTL DEF Spec

(* The guards _starting and _restarting never outlive the coroutine that    *)
(* set them: each is owned by one that is on its way to take it back.       *)
THEOREM GuardsNeverLeak == Spec => []GuardsOwned
<1>1. IInv => GuardsOwned
  BY DEF IInv, OwnInv, Owns, RestartReturns, GuardsOwned
<1> QED BY <1>1, InitIInv, NextIInv, PTL DEF Spec

(* When shutdown_all has returned no child lives, except those that a       *)
(* recovery or a cancelled stop had given up before.                        *)
THEOREM ShutdownLeavesNone == Spec => []ShutdownStops
<1>1. IInv => ShutdownStops
  BY DEF IInv, ShutInv
<1> QED BY <1>1, InitIInv, NextIInv, PTL DEF Spec

(* _restart_counts never passes max_retries, although a handler writes back *)
(* after its backoff the count it had read before it.                       *)
THEOREM RetriesBounded == Spec => [](count \in 0 .. MaxRetries)
<1>1. IInv => count \in 0 .. MaxRetries
  BY DEF IInv, Types
<1> QED BY <1>1, InitIInv, NextIInv, PTL DEF Spec

(* Two coroutines are never inside the lifecycle lock's section together.   *)
THEOREM SectionsExclusive == Spec => [](\A v, w \in Workers : {wk[v].pc, wk[w].pc} \subseteq Held => v = w)
<1>1. IInv => \A v, w \in Workers : {wk[v].pc, wk[w].pc} \subseteq Held => v = w
  BY DEF IInv, LockInv
<1> QED BY <1>1, InitIInv, NextIInv, PTL DEF Spec
=============================================================================
