------------------------------ MODULE RunLoop ------------------------------
(***************************************************************************)
(* The agent loop of one run and its event log: every execution the        *)
(* dispatch starts emits events in two steps (reserve a seq in the run     *)
(* document, insert the event), asks the model, executes a tool per turn   *)
(* and writes the terminal status.  An execution may die, be cancelled or  *)
(* time out at any await; the reaper then starts another, which loads the  *)
(* turns already completed and skips them.                                 *)
(*                                                                         *)
(* How executions come about is the subject of RunDispatch; here a run is  *)
(* claimed when it is pending and reset when its lease has expired.        *)
(* Sources: backend/src/lib/runLoop.ts, emitEvent.ts, idempotency.ts,      *)
(* claimRun.ts, runTimeout.ts, mock/mockModel.ts.                          *)
(***************************************************************************)
EXTENDS Integers

CONSTANTS
  Executions,  \* bound: executions of the run, live, ended or dead
  MaxTurns,    \* deps.maxTurns
  Budget       \* bound: how often each kind of upset happens

UpsetKinds == {"crash",    \* the process of an execution dies
               "error",    \* a database operation, the sandbox or a tool throws
               "cancel",   \* the cancel endpoint writes
               "timeout",  \* a run takes longer than RUN_TIMEOUT_MS
               "slow"}     \* a turn takes longer than the reaper's lease

ASSUME LoopAssumption ==
  /\ MaxTurns \in Nat \ {0}
  /\ Budget \in [UpsetKinds -> Nat]

VARIABLES
  status,   \* runs.status
  lastSeq,  \* runs.lastEventSeq
  events,   \* run_events: the events inserted for this run
  exec,     \* the executions of runLoop
  effects,  \* the turns whose tool has taken effect
  repeats,  \* how often a tool took effect for a turn that had it already
  left      \* upsets that may still happen

vars == <<status, lastSeq, events, exec, effects, repeats, left>>

Terminal == {"done", "failed", "cancelled"}
Endings == {"run_done", "run_failed", "run_cancelled"}
EventTypes == {"run_started", "model_turn", "tool_call", "tool_result"}
                \cup Endings

Turns == 0 .. MaxTurns

\* An event; a payload without a turn counts as turn 0.
Events == [seq : Nat, type : EventTypes, turn : Turns]

(***************************************************************************)
(* An execution is at `pc`: "bump" and "insert" are the two steps of       *)
(* emitEvent for the event type `out`, "load" is getCompletedTurns, "step" *)
(* the head of the loop, "model" and "tool" the two calls of a turn,       *)
(* "finish" is finishRun(out).  `seen` is the snapshot of completed turns, *)
(* `caught` tells that the catch clause is running.                        *)
(***************************************************************************)
PCs == {"new", "bump", "insert", "load", "step", "model", "tool", "finish",
        "end", "dead"}

ExecStates == [pc : PCs, out : EventTypes, turn : Turns, seq : Nat,
               seen : SUBSET Events, abort : {"no", "timeout", "cancelled"},
               caught : BOOLEAN]

Alive(x) == exec[x].pc \notin {"new", "end", "dead"}

Spend(kind) == /\ left[kind] > 0
               /\ left' = [left EXCEPT ![kind] = @ - 1]

\* Execution x goes on to emit an event of this type.
Emit(x, type) == exec' = [exec EXCEPT ![x].pc = "bump", ![x].out = type]

-----------------------------------------------------------------------------
(* Plausible bugs, named after the definitions they stand in for when a     *)
(* property is tested for being able to fail.                               *)

\* Each execution counts its own events in memory.
MutBump(x) ==
  /\ exec[x].pc = "bump"
  /\ lastSeq' = exec[x].seq + 1
  /\ exec' = [exec EXCEPT ![x].pc = "insert", ![x].seq = @ + 1]
  /\ UNCHANGED <<status, events, effects, repeats, left>>

\* The break after run_done is missing.
MutAfter(e) ==
  CASE e.out = "run_started" -> [e EXCEPT !.pc = "load"]
    [] e.out = "model_turn" -> [e EXCEPT !.pc = "model"]
    [] e.out = "tool_call" -> [e EXCEPT !.pc = "tool"]
    [] e.out \in {"tool_result", "run_done"} ->
         [e EXCEPT !.pc = "step", !.turn = @ + 1]
    [] e.out \in {"run_failed", "run_cancelled"} -> [e EXCEPT !.pc = "finish"]

\* A turn counts as completed once its tool was called.
MutCompleted == {e \in events : e.type \in {"tool_call", "run_done"}}

\* A resumed execution starts from an empty history.
MutLoad(x) ==
  /\ exec[x].pc = "load"
  /\ exec' = [exec EXCEPT ![x].pc = "step"]
  /\ UNCHANGED <<status, lastSeq, events, effects, repeats, left>>

\* The loop runs one turn too many.
MutStep(x) ==
  /\ exec[x].pc = "step"
  /\ exec[x].turn <= MaxTurns
  /\ Emit(x, "model_turn")
  /\ UNCHANGED <<status, lastSeq, events, effects, repeats, left>>

\* The loop ends on the model's answer without announcing it.
MutModel(x) ==
  /\ exec[x].pc = "model"
  /\ \/ Emit(x, "tool_call")
     \/ /\ exec[x].turn > 0
        /\ exec' = [exec EXCEPT ![x].pc = "finish", ![x].out = "run_done"]
  /\ UNCHANGED <<status, lastSeq, events, effects, repeats, left>>

\* The reaper scans for the wrong status.
MutReset ==
  /\ status = "pending"
  /\ \A x \in Executions : exec[x].pc = "new"
  /\ UNCHANGED vars

-----------------------------------------------------------------------------
(* Idempotency. *)

\* getCompletedTurns: an execution's snapshot of the log.
Completed == {e \in events : e.type \in {"tool_result", "run_done"}}

\* isAlreadyExecuted: the first entry of the snapshot that carries this turn.
\* A run_done event has no turn, so it is filed under turn 0.
AlreadyExecuted(x, turn) ==
  {e \in exec[x].seen :
     /\ e.turn = turn
     /\ \A f \in exec[x].seen : f.turn = turn => e.seq <= f.seq}

-----------------------------------------------------------------------------
(* What starts and stops executions. *)

\* The worker claims the pending run and calls runLoop.
Claim(x) ==
  /\ status = "pending"
  /\ exec[x].pc = "new"
  /\ status' = "running"
  /\ Emit(x, "run_started")
  /\ UNCHANGED <<lastSeq, events, effects, repeats, left>>

\* The reaper finds the lease expired and resets the run, which may still be
\* executed: then a turn of it was slow.
Reset ==
  /\ status = "running"
  /\ IF \E x \in Executions : Alive(x) THEN Spend("slow") ELSE UNCHANGED left
  /\ \E x \in Executions : exec[x].pc = "new"
  /\ status' = "pending"
  /\ UNCHANGED <<lastSeq, events, exec, effects, repeats>>

\* The cancel endpoint writes, whatever the status has become since its read.
Cancel ==
  /\ Spend("cancel")
  /\ status' = "cancelled"
  /\ UNCHANGED <<lastSeq, events, exec, effects, repeats>>

Crash(x) ==
  /\ Alive(x)
  /\ Spend("crash")
  /\ exec' = [exec EXCEPT ![x].pc = "dead"]
  /\ UNCHANGED <<status, lastSeq, events, effects, repeats>>

\* An AbortController keeps the reason of its first abort.
Abort(x, reason) ==
  /\ Alive(x)
  /\ exec[x].abort = "no"
  /\ exec' = [exec EXCEPT ![x].abort = reason]

TimeOut(x) ==
  /\ Spend("timeout")
  /\ Abort(x, "timeout")
  /\ UNCHANGED <<status, lastSeq, events, effects, repeats>>

\* The worker's two-second poll finds the run cancelled.
PollCancel(x) ==
  /\ status = "cancelled"
  /\ Abort(x, "cancelled")
  /\ UNCHANGED <<status, lastSeq, events, effects, repeats, left>>

-----------------------------------------------------------------------------
(* runLoop. *)

\* emitEvent, first await: the run document's counter is incremented and read.
Bump(x) ==
  /\ exec[x].pc = "bump"
  /\ lastSeq' = lastSeq + 1
  /\ exec' = [exec EXCEPT ![x].pc = "insert", ![x].seq = lastSeq + 1]
  /\ UNCHANGED <<status, events, effects, repeats, left>>

\* Where runLoop continues after the event is inserted.
After(e) ==
  CASE e.out = "run_started" -> [e EXCEPT !.pc = "load"]
    [] e.out = "model_turn" -> [e EXCEPT !.pc = "model"]
    [] e.out = "tool_call" -> [e EXCEPT !.pc = "tool"]
    [] e.out = "tool_result" -> [e EXCEPT !.pc = "step", !.turn = @ + 1]
    [] e.out \in Endings -> [e EXCEPT !.pc = "finish"]

\* The event an execution inserts; the others carry no turn in their payload.
TurnTypes == {"model_turn", "tool_call", "tool_result"}
EventOf(x) == [seq |-> exec[x].seq, type |-> exec[x].out,
               turn |-> IF exec[x].out \in TurnTypes THEN exec[x].turn ELSE 0]

\* A plausible bug: a "thinking" event is pushed to the live layer only.
MutInsert(x) ==
  /\ exec[x].pc = "insert"
  /\ events' = IF exec[x].out = "model_turn" THEN events
               ELSE events \cup {EventOf(x)}
  /\ exec' = [exec EXCEPT ![x] = After(@)]
  /\ UNCHANGED <<status, lastSeq, effects, repeats, left>>

\* emitEvent, second await.
Insert(x) ==
  /\ exec[x].pc = "insert"
  /\ events' = events \cup {EventOf(x)}
  /\ exec' = [exec EXCEPT ![x] = After(@)]
  /\ UNCHANGED <<status, lastSeq, effects, repeats, left>>

Load(x) ==
  /\ exec[x].pc = "load"
  /\ exec' = [exec EXCEPT ![x].pc = "step", ![x].seen = Completed]
  /\ UNCHANGED <<status, lastSeq, events, effects, repeats, left>>

\* The head of the loop, for a turn the snapshot holds: the loop goes on to the
\* next turn, or ends if the entry says the run is done.
Skipped(e, entry) == IF entry.type = "run_done"
                     THEN [e EXCEPT !.pc = "finish", !.out = "run_done"]
                     ELSE [e EXCEPT !.turn = @ + 1]

Skip(x) ==
  /\ exec[x].pc = "step"
  /\ exec[x].turn < MaxTurns
  /\ \E entry \in AlreadyExecuted(x, exec[x].turn) :
       exec' = [exec EXCEPT ![x] = Skipped(exec[x], entry)]
  /\ UNCHANGED <<status, lastSeq, events, effects, repeats, left>>

\* The abort check, between turns only, and the start of a turn.
Step(x) ==
  /\ exec[x].pc = "step"
  /\ exec[x].turn < MaxTurns
  /\ AlreadyExecuted(x, exec[x].turn) = {}
  /\ Emit(x, CASE exec[x].abort = "no" -> "model_turn"
               [] exec[x].abort = "timeout" -> "run_failed"
               [] exec[x].abort = "cancelled" -> "run_cancelled")
  /\ UNCHANGED <<status, lastSeq, events, effects, repeats, left>>

\* The loop has used up its turns.
TurnsUsedUp(x) ==
  /\ exec[x].pc = "step"
  /\ exec[x].turn >= MaxTurns
  /\ Emit(x, "run_done")
  /\ UNCHANGED <<status, lastSeq, events, effects, repeats, left>>

\* mockModel answers: never done on turn 0.
Model(x) ==
  /\ exec[x].pc = "model"
  /\ \/ Emit(x, "tool_call")
     \/ exec[x].turn > 0 /\ Emit(x, "run_done")
  /\ UNCHANGED <<status, lastSeq, events, effects, repeats, left>>

\* The sandbox is claimed, the tool runs to its end.
Tool(x) ==
  /\ exec[x].pc = "tool"
  /\ effects' = effects \cup {exec[x].turn}
  /\ repeats' = IF exec[x].turn \in effects THEN repeats + 1 ELSE repeats
  /\ Emit(x, "tool_result")
  /\ UNCHANGED <<status, lastSeq, events, left>>

\* finishRun, with no regard to the status the run has now.
Outcome(out) == CASE out = "run_done" -> "done"
                  [] out = "run_failed" -> "failed"
                  [] out = "run_cancelled" -> "cancelled"

Finish(x) ==
  /\ exec[x].pc = "finish"
  /\ status' = Outcome(exec[x].out)
  /\ exec' = [exec EXCEPT ![x].pc = "end"]
  /\ UNCHANGED <<lastSeq, events, effects, repeats, left>>

\* An await throws.  Before the try block the error escapes runLoop; inside it
\* the catch clause emits run_failed and finishes the run as failed; in the
\* catch clause the emit's error is ignored and finishRun's escapes.
Throw(x) ==
  /\ exec[x].pc \in {"bump", "insert", "load", "tool", "finish"}
  /\ Spend("error")
  /\ LET e == exec[x]
         escapes == \/ e.pc = "load" \/ e.out = "run_started"
                    \/ e.caught /\ e.pc = "finish"
     IN  exec' = [exec EXCEPT ![x] =
                    CASE escapes -> [e EXCEPT !.pc = "end"]
                      [] ~escapes /\ e.caught -> [e EXCEPT !.pc = "finish"]
                      [] OTHER -> [e EXCEPT !.pc = "bump", !.out = "run_failed",
                                            !.caught = TRUE]]
  /\ UNCHANGED <<status, lastSeq, events, effects, repeats>>

-----------------------------------------------------------------------------
Init ==
  /\ status = "pending"
  /\ lastSeq = 0
  /\ events = {}
  /\ exec = [x \in Executions |->
               [pc |-> "new", out |-> "run_started", turn |-> 0, seq |-> 0,
                seen |-> {}, abort |-> "no", caught |-> FALSE]]
  /\ effects = {}
  /\ repeats = 0
  /\ left = Budget

\* The steps runLoop takes when every await returns.
Run(x) == \/ Bump(x) \/ Insert(x) \/ Load(x) \/ Skip(x) \/ Step(x)
          \/ TurnsUsedUp(x) \/ Model(x) \/ Tool(x) \/ Finish(x)

Next ==
  \/ Reset \/ Cancel
  \/ \E x \in Executions : \/ Claim(x) \/ Run(x) \/ Throw(x) \/ Crash(x)
                           \/ TimeOut(x) \/ PollCancel(x)

Spec == Init /\ [][Next]_vars

\* Every await of a live execution returns; the dispatch recovers and starts
\* the run again (Recovered and AllTerminate of RunDispatch).
Fairness == /\ WF_vars(Reset)
            /\ WF_vars(\E x \in Executions : Claim(x))
            /\ \A x \in Executions : WF_vars(Run(x))

FairSpec == Spec /\ Fairness
-----------------------------------------------------------------------------
(* Properties. *)

TypeOK ==
  /\ status \in {"pending", "running"} \cup Terminal
  /\ lastSeq \in Nat
  /\ events \in SUBSET Events
  /\ exec \in [Executions -> ExecStates]
  /\ effects \in SUBSET Turns
  /\ repeats \in Nat
  /\ left \in [UpsetKinds -> Nat]

\* The seqs an execution has reserved and not inserted yet.
Reserved == {exec[x].seq : x \in {y \in Executions : exec[y].pc = "insert"}}
Inserted == {e.seq : e \in events}

\* No two events of a run carry the same seq, and none is inserted under a seq
\* that another execution holds, even when a reaped execution is still alive
\* (the unique index events_run_seq is never violated).
SeqsUnique ==
  /\ \A e, f \in events : e.seq = f.seq => e = f
  /\ Reserved \cap Inserted = {}
  /\ \A x, y \in Executions :
       x # y /\ exec[x].pc = "insert" /\ exec[y].pc = "insert"
         => exec[x].seq # exec[y].seq

\* How often an execution has died or an operation has thrown.
Failures == (Budget["crash"] - left["crash"]) + (Budget["error"] - left["error"])

\* The reaper has not reset a run that was being executed.
Prompt == left["slow"] = Budget["slow"]

\* "gap-free ordering per run" (emitEvent.ts): until something fails between the
\* two halves of an emit, every seq handed out is in the log or about to be.
GapFree == Failures = 0 => 1 .. lastSeq = Inserted \cup Reserved

\* The log of a run without failures tells one story, however it is stopped: an
\* ending is the last event, and no execution is at work behind it except to
\* write the status.  A run that was reset while it was executed may have two.
OneEnding ==
  Failures = 0 /\ Prompt =>
    \A e \in events : e.type \in Endings =>
      /\ e.seq = lastSeq
      /\ \A x \in Executions : Alive(x) => exec[x].pc = "finish"

\* A run that is done has announced it: a client that follows the log until
\* run_done never waits for a run whose status is done already.
EndIsAnnounced ==
  status = "done" => \E e \in events : e.type = "run_done"

\* No turn is begun before the turn before it has its result in the log,
\* whichever execution produced it: resuming skips turns without leaving a hole.
TurnsInSequence ==
  \A e \in events :
    e.type = "tool_call" /\ e.turn > 0 =>
      \E f \in events : /\ f.type = "tool_result"
                        /\ f.turn = e.turn - 1
                        /\ f.seq < e.seq

\* "Turns with existing tool_result events are skipped entirely"
\* (docs/ARCHITECTURE.md): no tool is executed for a turn whose result is in
\* the log.  Behind a slow turn the code does not keep it, the snapshot of the
\* completed turns being taken once.
SkipsCompleted ==
  Prompt => \A x \in Executions : exec[x].pc = "tool" =>
    ~\E e \in events : e.type = "tool_result" /\ e.turn = exec[x].turn

\* "This prevents duplicate side effects" (idempotency.ts), as far as it goes: a
\* failure may repeat the tool whose result it kept out of the log, and no other,
\* however many turns were completed before it.  Two executions at a time may
\* repeat each other's tools.
RepeatsBounded == Prompt => repeats <= Failures

\* No execution starts a turn of a run that has announced run_done ("Run already
\* finished", runLoop.ts).  The code does not keep it, and no run checks it:
\* run_done is filed under turn 0 behind that turn's tool_result.
DoneIsSeen ==
  \A x \in Executions : exec[x].pc = "model" =>
    ~\E e \in events : e.type = "run_done"

\* Every run ends, whatever dies on the way, and stays ended.
Ends == <>[](status \in Terminal)
=============================================================================
