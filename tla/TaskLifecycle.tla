---------------------------- MODULE TaskLifecycle ----------------------------
(***************************************************************************)
(* What the task store promises about one execution of a task, with no     *)
(* tables, tokens or processes:                                            *)
(*                                                                         *)
(*   - a run starts only from a grant, and uses the grant up: nothing that *)
(*     was started once is started again unless somebody asks again;       *)
(*   - a task has at most one run at a time, and a grant cannot be given   *)
(*     while it lasts;                                                     *)
(*   - a run that stops leaves a verdict, or an unfinished task that owes  *)
(*     somebody a notice about that run;                                   *)
(*   - a cancel during a run is final for that run.                        *)
(***************************************************************************)
EXTENDS Naturals

CONSTANT Jobs

VARIABLES
    phase,     \* idle, queued (granted, not started) or running
    verdict,   \* open, done or cancelled
    runs,      \* number of runs started so far
    owed       \* runs that ended unfinished and were not attended to

vars == <<phase, verdict, runs, owed>>

Init ==
    /\ phase = [j \in Jobs |-> "idle"]
    /\ verdict = [j \in Jobs |-> "open"]
    /\ runs = [j \in Jobs |-> 0]
    /\ owed = [j \in Jobs |-> {}]

(* Somebody asks for (another) run; attention owed so far is moot.         *)
Grant(j) ==
    /\ phase[j] # "running"
    /\ phase' = [phase EXCEPT ![j] = "queued"]
    /\ verdict' = [verdict EXCEPT ![j] = "open"]
    /\ owed' = [owed EXCEPT ![j] = {}]
    /\ UNCHANGED runs

(* The grant is withdrawn before the run started.                          *)
Withdraw(j) ==
    /\ phase[j] = "queued"
    /\ phase' = [phase EXCEPT ![j] = "idle"]
    /\ UNCHANGED <<verdict, runs, owed>>

(* Somebody states a verdict or takes it back; closing a queued task also  *)
(* takes it out of the queue.                                              *)
Declare(j, v) ==
    /\ verdict[j] = "cancelled" => v = "cancelled" \/ (v = "open" /\ phase[j] # "running")
    /\ verdict' = [verdict EXCEPT ![j] = v]
    /\ phase' = [phase EXCEPT ![j] = IF @ = "queued" /\ v # "open" THEN "idle" ELSE @]
    /\ UNCHANGED <<runs, owed>>

Start(j) ==
    /\ phase[j] = "queued"
    /\ verdict[j] = "open"
    /\ phase' = [phase EXCEPT ![j] = "running"]
    /\ runs' = [runs EXCEPT ![j] = @ + 1]
    /\ UNCHANGED <<verdict, owed>>

Stop(j, v) ==
    /\ phase[j] = "running"
    /\ verdict[j] = "cancelled" => v = "cancelled"
    /\ phase' = [phase EXCEPT ![j] = "idle"]
    /\ verdict' = [verdict EXCEPT ![j] = v]
    /\ owed' = [owed EXCEPT ![j] = IF v = "open" THEN @ \union {runs[j]} ELSE @]
    /\ UNCHANGED runs

Attend(j, n) ==
    /\ n \in owed[j]
    /\ owed' = [owed EXCEPT ![j] = @ \ {n}]
    /\ UNCHANGED <<phase, verdict, runs>>

Next ==
    \E j \in Jobs :
        \/ Grant(j)
        \/ Withdraw(j)
        \/ \E v \in {"open", "done", "cancelled"} : Declare(j, v) \/ Stop(j, v)
        \/ Start(j)
        \/ \E n \in owed[j] : Attend(j, n)

Spec == Init /\ [][Next]_vars

=============================================================================
