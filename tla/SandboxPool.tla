---------------------------- MODULE SandboxPool ----------------------------
(***************************************************************************)
(* The containers the tools of a run execute in: each worker keeps a warm  *)
(* pool, hands a container to a run at its first tool call, boots one in   *)
(* the background to replace it, and boots one on demand when the pool is  *)
(* empty.  All workers use the docker host they run on.                    *)
(*                                                                         *)
(* `docker run` is two steps, the container coming up and the worker       *)
(* hearing of it: the worker may be killed, or shut down, in between.      *)
(* Sources: backend/src/sandbox/orchestrator.ts, lib/runLoop.ts,           *)
(* worker.ts.                                                              *)
(***************************************************************************)
EXTENDS Integers, FiniteSets, FiniteSetsExt

CONSTANTS
  Workers,    \* worker processes on one docker host
  Runs,       \* bound: runs being executed at a time
  Boxes,      \* bound: containers that exist, or are being booted, at a time
  PoolSize,   \* config.poolSize
  Budget,     \* bound: how often each kind of fault happens
  None

FaultKinds == {"boot",     \* docker run fails
               "remove",   \* docker rm fails
               "crash"}    \* a worker process is killed

ASSUME PoolAssumption ==
  /\ IsFiniteSet(Boxes)
  /\ PoolSize \in Nat
  /\ Budget \in [FaultKinds -> Nat]
  /\ None \notin Workers \cup Boxes

VARIABLES
  up,       \* the containers on the docker host
  call,     \* the `docker run` of each container a worker waits for
  pool,     \* pool: each worker's warm containers
  booting,  \* booting: each worker's refills under way
  run,      \* the runs: their worker and their container
  proc,     \* each worker process
  spared,   \* history: containers their worker's clean-up did not remove: they
            \* came up behind it, or it failed
  left      \* faults that may still happen

vars == <<up, call, pool, booting, run, proc, spared, left>>

(***************************************************************************)
(* A call is for the pool, at the start or later, or for the run that      *)
(* waits for it; "ran" when the container is up and the worker has not     *)
(* heard of it yet.                                                        *)
(***************************************************************************)
Calls == [w : Workers, why : {"init", "refill", "claim"}, at : {"asked", "ran"}]
NoCall == [w |-> None, why |-> "none", at |-> "none"]

\* A run before its first tool call, waiting for a cold boot, or with its
\* container.
RunStates == [at : {"ready", "cold", "held"}, w : Workers \cup {None},
              box : Boxes \cup {None}]
Ready == [at |-> "ready", w |-> None, box |-> None]

\* "leave" is the time between shutdown()'s clean-up and process.exit.
Phases == {"down", "init", "up", "leave", "stopped"}

Spend(kind) == /\ left[kind] > 0
               /\ left' = [left EXCEPT ![kind] = @ - 1]

Pending(b) == call[b] # NoCall
Held(b) == {r \in Runs : run[r].box = b}
Unused == {b \in Boxes : /\ b \notin up
                         /\ ~Pending(b)
                         /\ \A w \in Workers : b \notin pool[w]
                         /\ Held(b) = {}}

CallsOf(w, why) == {b \in Boxes : call[b].w = w /\ call[b].why = why}

\* boot: `docker run` under the new names.
Boot(w, why, names) ==
  call' = [b \in Boxes |-> IF b \in names
                           THEN [w |-> w, why |-> why, at |-> "asked"]
                           ELSE call[b]]

-----------------------------------------------------------------------------
(* Plausible bugs, named after the definitions they stand in for. *)

\* The container is handed over and stays in the pool.
MutTaken(w, b) == pool[w] \cup {b}

\* The boots are compared with the pool, not added to it.
MutWanted(w, warm) == Cardinality(warm) < booting[w]

\* The catch clause counts the boot down, and so does the finally block.
MutRefillFails(b) ==
  /\ call[b].why = "refill"
  /\ call[b].at = "asked"
  /\ Spend("boot")
  /\ booting' = [booting EXCEPT ![call[b].w] = @ - 2]
  /\ call' = [call EXCEPT ![b] = NoCall]
  /\ UNCHANGED <<up, pool, run, proc, spared>>

\* shutdown tears down the worker's own pool only.
MutShutdown(w) ==
  /\ proc[w] = "up"
  /\ up' = up \ pool[w]
  /\ spared' = {}
  /\ proc' = [proc EXCEPT ![w] = "leave"]
  /\ UNCHANGED <<call, pool, booting, run, left>>

-----------------------------------------------------------------------------
(* The docker host. *)

Later(w, names) ==
  IF proc[w] = "leave" THEN spared \cup names ELSE spared \ names

\* The container is up.
DockerRuns(b) ==
  /\ Pending(b)
  /\ call[b].at = "asked"
  /\ up' = up \cup {b}
  /\ call' = [call EXCEPT ![b].at = "ran"]
  /\ spared' = Later(call[b].w, {b})
  /\ UNCHANGED <<pool, booting, run, proc, left>>

-----------------------------------------------------------------------------
(* init. *)

\* createSandbox: the whole pool is booted at once.
Start(w) ==
  /\ proc[w] = "down"
  /\ \E names \in kSubset(PoolSize, Unused) : Boot(w, "init", names)
  /\ proc' = [proc EXCEPT ![w] = IF PoolSize = 0 THEN "up" ELSE "init"]
  /\ UNCHANGED <<up, pool, booting, run, spared, left>>

\* Promise.all resolves with the last of them, and the worker goes on.
Booted(b) ==
  /\ call[b].why = "init"
  /\ call[b].at = "ran"
  /\ LET w == call[b].w
     IN /\ pool' = [pool EXCEPT ![w] = @ \cup {b}]
        /\ proc' = [proc EXCEPT ![w] = IF CallsOf(w, "init") = {b} THEN "up"
                                       ELSE @]
  /\ call' = [call EXCEPT ![b] = NoCall]
  /\ UNCHANGED <<up, booting, run, spared, left>>

-----------------------------------------------------------------------------
(* claim and release, as runLoop calls them. *)

Working(w) == proc[w] \in {"up", "leave"}

\* refill: one boot for each container taken, unless the pool is full.
Wanted(w, warm) == Cardinality(warm) + booting[w] < PoolSize
Taken(w, b) == pool[w] \ {b}

\* claim, warm.
ClaimWarm(r, w) ==
  /\ run[r].at = "ready"
  /\ Working(w)
  /\ \E b \in pool[w] :
       LET warm == Taken(w, b)
       IN /\ pool' = [pool EXCEPT ![w] = warm]
          /\ run' = [run EXCEPT ![r] = [at |-> "held", w |-> w, box |-> b]]
          /\ IF Wanted(w, warm)
             THEN /\ \E new \in Unused : Boot(w, "refill", {new})
                  /\ booting' = [booting EXCEPT ![w] = @ + 1]
             ELSE UNCHANGED <<call, booting>>
  /\ UNCHANGED <<up, proc, spared, left>>

\* The replacement is ready.
Refilled(b) ==
  /\ call[b].why = "refill"
  /\ call[b].at = "ran"
  /\ pool' = [pool EXCEPT ![call[b].w] = @ \cup {b}]
  /\ booting' = [booting EXCEPT ![call[b].w] = @ - 1]
  /\ call' = [call EXCEPT ![b] = NoCall]
  /\ UNCHANGED <<up, run, proc, spared, left>>

RefillFails(b) ==
  /\ call[b].why = "refill"
  /\ call[b].at = "asked"
  /\ Spend("boot")
  /\ booting' = [booting EXCEPT ![call[b].w] = @ - 1]
  /\ call' = [call EXCEPT ![b] = NoCall]
  /\ UNCHANGED <<up, pool, run, proc, spared>>

\* claim, cold: the run waits for a boot of its own; nothing refills the pool.
ClaimCold(r, w) ==
  /\ run[r].at = "ready"
  /\ Working(w)
  /\ pool[w] = {}
  /\ \E new \in Unused :
       /\ Boot(w, "claim", {new})
       /\ run' = [run EXCEPT ![r] = [at |-> "cold", w |-> w, box |-> new]]
  /\ UNCHANGED <<up, pool, booting, proc, spared, left>>

ColdReady(r) ==
  /\ run[r].at = "cold"
  /\ call[run[r].box].at = "ran"
  /\ run' = [run EXCEPT ![r].at = "held"]
  /\ call' = [call EXCEPT ![run[r].box] = NoCall]
  /\ UNCHANGED <<up, pool, booting, proc, spared, left>>

\* claim throws: the run fails without a container.
ColdFails(r) ==
  /\ run[r].at = "cold"
  /\ call[run[r].box].at = "asked"
  /\ Spend("boot")
  /\ run' = [run EXCEPT ![r] = Ready]
  /\ call' = [call EXCEPT ![run[r].box] = NoCall]
  /\ UNCHANGED <<up, pool, booting, proc, spared>>

\* The finally block of runLoop, however the run ended: docker rm -f.
Release(r) ==
  /\ run[r].at = "held"
  /\ up' = up \ {run[r].box}
  /\ run' = [run EXCEPT ![r] = Ready]
  /\ UNCHANGED <<call, pool, booting, proc, spared, left>>

\* Its error is ignored.
ReleaseFails(r) ==
  /\ run[r].at = "held"
  /\ Spend("remove")
  /\ run' = [run EXCEPT ![r] = Ready]
  /\ UNCHANGED <<up, call, pool, booting, proc, spared>>

-----------------------------------------------------------------------------
(* The end of a worker. *)

\* Worker w's process is gone with its pool and its runs; a `docker run` it had
\* asked for may still be carried out.
Gone(w, phase) ==
  /\ \E done \in SUBSET {b \in Boxes : call[b].w = w /\ call[b].at = "asked"} :
       up' = up \cup done /\ spared' = Later(w, done)
  /\ call' = [b \in Boxes |-> IF call[b].w = w THEN NoCall ELSE call[b]]
  /\ pool' = [pool EXCEPT ![w] = {}]
  /\ booting' = [booting EXCEPT ![w] = 0]
  /\ run' = [r \in Runs |-> IF run[r].w = w THEN Ready ELSE run[r]]
  /\ proc' = [proc EXCEPT ![w] = phase]

\* A boot of init that fails is fatal: the worker exits and is started again.
InitFails(b) ==
  /\ call[b].why = "init"
  /\ call[b].at = "asked"
  /\ Spend("boot")
  /\ Gone(call[b].w, "down")

Crash(w) ==
  /\ proc[w] \in {"init", "up", "leave"}
  /\ Spend("crash")
  /\ Gone(w, "down")

\* shutdown: every container that carries the label is removed, whoever made it.
\* Runs that the graceful shutdown gave up on are still being executed.
Shutdown(w) ==
  /\ proc[w] = "up"
  /\ up' = {}
  /\ spared' = {}
  /\ proc' = [proc EXCEPT ![w] = "leave"]
  /\ UNCHANGED <<call, pool, booting, run, left>>

\* docker ps or docker rm fails, with some containers removed or none: the error
\* is ignored, and the worker exits all the same.
ShutdownFails(w) ==
  /\ proc[w] = "up"
  /\ Spend("remove")
  /\ up' \in SUBSET up
  /\ spared' = spared \cup up'
  /\ proc' = [proc EXCEPT ![w] = "leave"]
  /\ UNCHANGED <<call, pool, booting, run>>

Exit(w) ==
  /\ proc[w] = "leave"
  /\ Gone(w, "stopped")
  /\ UNCHANGED left

-----------------------------------------------------------------------------
Init ==
  /\ up = {}
  /\ call = [b \in Boxes |-> NoCall]
  /\ pool = [w \in Workers |-> {}]
  /\ booting = [w \in Workers |-> 0]
  /\ run = [r \in Runs |-> Ready]
  /\ proc = [w \in Workers |-> "down"]
  /\ spared = {}
  /\ left = Budget

Claims(r) == \E w \in Workers : ClaimWarm(r, w) \/ ClaimCold(r, w)

\* What happens once it has been asked for.
Boots(b) == DockerRuns(b) \/ Booted(b) \/ Refilled(b)

Next ==
  \/ \E w \in Workers : \/ Start(w) \/ Shutdown(w) \/ ShutdownFails(w)
                        \/ Exit(w) \/ Crash(w)
  \/ \E b \in Boxes : Boots(b) \/ RefillFails(b) \/ InitFails(b)
  \/ \E r \in Runs : \/ Claims(r) \/ ColdReady(r) \/ ColdFails(r)
                     \/ Release(r) \/ ReleaseFails(r)

Spec == Init /\ [][Next]_vars

-----------------------------------------------------------------------------
(* Properties. *)

TypeOK ==
  /\ up \in SUBSET Boxes
  /\ call \in [Boxes -> Calls \cup {NoCall}]
  /\ pool \in [Workers -> SUBSET Boxes]
  /\ booting \in [Workers -> Nat]
  /\ run \in [Runs -> RunStates]
  /\ proc \in [Workers -> Phases]
  /\ spared \in SUBSET Boxes
  /\ left \in [FaultKinds -> Nat]

\* A run has its container to itself, "workspace is per-run" (orchestrator.ts):
\* no other run has it, no pool will hand it out, and it was handed over whole.
Exclusive ==
  \A r \in Runs : run[r].at = "held" =>
    /\ Held(run[r].box) = {r}
    /\ ~Pending(run[r].box)
    /\ \A w \in Workers : run[r].box \notin pool[w]

\* Claims, refills and cold boots keep the pool and what is being booted for it
\* at poolSize, less one for every boot that has failed; nothing makes that up.
PoolKept ==
  \A w \in Workers : Working(w) =>
    Cardinality(pool[w]) + booting[w]
      \in PoolSize - (Budget["boot"] - left["boot"]) .. PoolSize

\* A container that is in a pool or with a run goes away only when that run
\* releases it or when a worker, be it another one, shuts down.
Owned(b) == \/ Held(b) # {} /\ ~Pending(b)
            \/ \E w \in Workers : b \in pool[w]
GoesAway == \A b \in up \ up' : /\ Owned(b) => /\ Held(b) # {}
                                               /\ ~Owned(b)'
RemovedInUse ==
  [][GoesAway \/ \E w \in Workers : proc[w] = "up" /\ proc'[w] = "leave"]_vars

\* When the last worker has shut down, no container is left of those that
\* crashes, failed boots, failed releases or other workers' clean-ups had left
\* behind: only what came up behind its worker's clean-up, or what was there
\* when a clean-up failed and none has worked since.
CleanStop == (\A w \in Workers : proc[w] = "stopped") => up \subseteq spared

-----------------------------------------------------------------------------
(* The inductive invariant. *)

\* A container is in one place: booting, with one run, or in one pool.
RunPlaced(r) ==
  /\ \/ run[r] = Ready
     \/ /\ run[r].at # "ready"
        /\ run[r].w \in Workers
        /\ run[r].box \in Boxes
        /\ Held(run[r].box) = {r}
        /\ \A w \in Workers : run[r].box \notin pool[w]
  /\ run[r].at = "held" => ~Pending(run[r].box)
  /\ run[r].at = "cold" => /\ call[run[r].box].w = run[r].w
                           /\ call[run[r].box].why = "claim"
WarmPlaced(w) ==
  \A b \in pool[w] : ~Pending(b) /\ \A v \in Workers : b \in pool[v] => v = w
Placed == (\A r \in Runs : RunPlaced(r)) /\ \A w \in Workers : WarmPlaced(w)

\* What a worker is booting, by the state it is in.
BootsCounted(w) == booting[w] = Cardinality(CallsOf(w, "refill"))
InitCounted(w) ==
  IF proc[w] = "init"
  THEN /\ Cardinality(pool[w]) + Cardinality(CallsOf(w, "init")) = PoolSize
       /\ CallsOf(w, "init") # {}
       /\ booting[w] = 0
  ELSE CallsOf(w, "init") = {}
NothingLeft(w) ==
  proc[w] \in {"down", "stopped"} =>
    /\ pool[w] = {} /\ booting[w] = 0
    /\ \A b \in Boxes : call[b].w # w
    /\ \A r \in Runs : run[r].w # w
Counted == \A w \in Workers : BootsCounted(w) /\ InitCounted(w) /\ NothingLeft(w)

Spent == left["boot"] <= Budget["boot"]

\* From the last clean-up on, whatever comes up, or was left by it, is spared.
CleanedUp ==
  (\A w \in Workers : proc[w] \in {"leave", "stopped"}) => up \subseteq spared

PoolInv == TypeOK /\ Placed /\ Counted /\ Spent /\ PoolKept /\ CleanedUp
=============================================================================
