----------------------------- MODULE Supervision -----------------------------
(***************************************************************************)
(* The watchdog of the hosted worker (supervisor.py): it starts the worker *)
(* in a process group, probes it, and replaces it when it has stopped or   *)
(* no longer answers.  The worker has two kinds of children: the search    *)
(* engine, in its group, and the page renderer, which rendering.py starts  *)
(* in a session of its own.                                                *)
(*                                                                         *)
(* A step of the clock is one probe interval.                              *)
(***************************************************************************)
EXTENDS Naturals

CONSTANTS Grace,    \* startup_grace, in probe intervals
          Failures  \* failures: the misses that end a worker

ASSUME SupervisionAssumption == Grace \in Nat /\ Failures \in Nat \ {0}

VARIABLES
    watch,     \* the supervisor: [pc, age, misses, seen]
    worker,    \* "none" | "starting" | "well" | "hung" | "gone"
    searchProcess,    \* the engine process: "none" | "own" | "stray"
    renderer,  \* a renderer process: "none" | "own" | "stray"
    stop       \* the stop event

watchVars == <<watch, worker, searchProcess, renderer, stop>>

SupervisionInit ==
    /\ watch = [pc |-> "spawn", age |-> 0, misses |-> 0, seen |-> FALSE]
    /\ worker = "none"
    /\ searchProcess = "none"
    /\ renderer = "none"
    /\ stop = FALSE

Watching(pc) == watch.pc = pc
Running == worker \in {"starting", "well", "hung"}

----------------------------------------------------------------------------
(* The supervisor *)

\* Whatever is left of an earlier worker is nobody's from now on.
Left(process) == IF process = "none" THEN "none" ELSE "stray"

StartWorker ==
    /\ Watching("spawn")
    /\ ~stop
    /\ worker' = "starting"
    /\ searchProcess' = Left(searchProcess)
    /\ renderer' = Left(renderer)
    /\ watch' = [pc |-> "watch", age |-> 0, misses |-> 0, seen |-> FALSE]
    /\ UNCHANGED stop

NoticeExit ==
    /\ Watching("watch")
    /\ worker = "gone"
    /\ watch' = [watch EXCEPT !.pc = "terminate"]
    /\ UNCHANGED <<worker, searchProcess, renderer, stop>>

NoticeStop ==
    /\ Watching("watch")
    /\ stop
    /\ watch' = [watch EXCEPT !.pc = "terminate"]
    /\ UNCHANGED <<worker, searchProcess, renderer, stop>>

Answered == [watch EXCEPT !.misses = 0, !.seen = TRUE]

\* mutant: a worker has grace only once it was seen healthy
CountsOnceSeen == watch.seen

\* A miss counts once the worker was healthy, or its grace is over.
Counts == watch.seen \/ watch.age >= Grace

Missed ==
    LET misses == watch.misses + (IF Counts THEN 1 ELSE 0)
    IN  [watch EXCEPT !.misses = misses,
                      !.age = IF @ < Grace THEN @ + 1 ELSE @,
                      !.pc = IF misses >= Failures THEN "terminate" ELSE @]

Probe ==
    /\ Watching("watch")
    /\ Running /\ ~stop
    /\ watch' = IF worker = "well" THEN Answered ELSE Missed
    /\ UNCHANGED <<worker, searchProcess, renderer, stop>>

\* SIGKILL to the worker's process group: the engine is in it, a renderer is not.
KillGroup == searchProcess' = IF searchProcess = "own" THEN "none" ELSE searchProcess

\* The worker has stopped by itself.
TerminateGone ==
    /\ Watching("terminate")
    /\ worker = "gone"
    /\ KillGroup
    /\ watch' = [watch EXCEPT !.pc = "pause"]
    /\ UNCHANGED <<worker, renderer, stop>>

\* SIGTERM to the group, then up to 15 seconds.
Terminate ==
    /\ Watching("terminate")
    /\ Running
    /\ watch' = [watch EXCEPT !.pc = "kill"]
    /\ UNCHANGED <<worker, searchProcess, renderer, stop>>

\* The worker left in time, or is killed; then the rest of its group.
Kill ==
    /\ Watching("kill")
    /\ worker' = "gone"
    /\ KillGroup
    /\ watch' = [watch EXCEPT !.pc = "pause"]
    /\ UNCHANGED <<renderer, stop>>

Pause ==
    /\ Watching("pause")
    /\ watch' = [watch EXCEPT !.pc = IF stop THEN "ended" ELSE "spawn"]
    /\ UNCHANGED <<worker, searchProcess, renderer, stop>>

StopBeforeStart ==
    /\ Watching("spawn")
    /\ stop
    /\ watch' = [watch EXCEPT !.pc = "ended"]
    /\ UNCHANGED <<worker, searchProcess, renderer, stop>>

Signal ==
    /\ ~stop
    /\ stop' = TRUE
    /\ UNCHANGED <<watch, worker, searchProcess, renderer>>

----------------------------------------------------------------------------
(* The worker *)

\* lifespan: the engine is started, then requests are answered.  Its ports must be free.
WorkerReady ==
    /\ worker = "starting"
    /\ searchProcess # "stray"
    /\ worker' = "well"
    /\ searchProcess' = "own"
    /\ UNCHANGED <<watch, renderer, stop>>

Hang ==
    /\ worker \in {"starting", "well"}
    /\ worker' = "hung"
    /\ UNCHANGED <<watch, searchProcess, renderer, stop>>

Recover ==
    /\ worker = "hung" /\ searchProcess = "own"
    /\ worker' = "well"
    /\ UNCHANGED <<watch, searchProcess, renderer, stop>>

\* A crash: nobody closes the engine, nor a renderer.
WorkerExits ==
    /\ Running
    /\ worker' = "gone"
    /\ UNCHANGED <<watch, searchProcess, renderer, stop>>

\* An orderly end: on SIGTERM, or when the start fails.
WorkerCloses ==
    /\ \/ worker = "starting"
       \/ worker = "well" /\ Watching("kill")
    /\ worker' = "gone"
    /\ searchProcess' = IF searchProcess = "own" THEN "none" ELSE searchProcess
    /\ UNCHANGED <<watch, renderer, stop>>

\* render_page: one at a time, killed in the end by the worker that waits for it.
StartRender ==
    /\ worker = "well" /\ renderer = "none"
    /\ renderer' = "own"
    /\ UNCHANGED <<watch, worker, searchProcess, stop>>

\* It is done, or at its limit of CPU time.
EndRender ==
    /\ renderer # "none"
    /\ renderer' = "none"
    /\ UNCHANGED <<watch, worker, searchProcess, stop>>

Supervisor ==
    \/ StartWorker \/ NoticeExit \/ NoticeStop \/ Probe \/ TerminateGone \/ Terminate \/ Kill
    \/ Pause \/ StopBeforeStart

SupervisionNext ==
    \/ Supervisor \/ Signal
    \/ WorkerReady \/ Hang \/ Recover \/ WorkerExits \/ WorkerCloses \/ StartRender \/ EndRender

\* The supervisor's loop goes on by itself.
SupervisionSpec ==
    SupervisionInit /\ [][SupervisionNext]_watchVars /\ WF_watchVars(Supervisor)

----------------------------------------------------------------------------
(* Properties *)

\* A new worker never meets the engine of an earlier one, which would hold its ports: whether
\* the earlier worker crashed, hung or was stopped, its group is gone (supervisor.py:26-48).
EngineAlone == searchProcess # "stray"

\* A worker that is gone, or no longer answers, is replaced, unless it recovers or the
\* supervisor is told to stop (hosted-runtime.md:37).
Replaced == (worker \in {"hung", "gone"}) ~> (worker \in {"starting", "well"} \/ watch.pc = "ended")

\* Whatever a worker does, another takes over, and finds its place free.
Supervised == []EngineAlone /\ Replaced
=============================================================================
