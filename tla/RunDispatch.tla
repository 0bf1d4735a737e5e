---------------------------- MODULE RunDispatch ----------------------------
(***************************************************************************)
(* How a run travels from POST /runs to a terminal status: the web tier    *)
(* inserts it and publishes a job, RabbitMQ delivers the job to a worker,  *)
(* the worker takes the lock of the run's thread, claims the run, executes *)
(* it, settles the delivery and releases the lock.  The reaper re-publishes*)
(* runs whose worker went silent.                                          *)
(*                                                                         *)
(* One action per database or broker step: every `await` of a handler is a *)
(* point where other handlers, workers and faults may intervene.           *)
(* Sources: backend/src/worker.ts, api/server.ts, lib/claimRun.ts,         *)
(* lib/threadGuard.ts, lib/reaper.ts, lib/queue.ts, lib/createRun.ts.      *)
(***************************************************************************)
EXTENDS Integers, Sequences, FiniteSets, SequencesExt

CONSTANTS
  Runs, Threads, ThreadOf,  \* ThreadOf[r] is the conversation run r belongs to
  Workers,                  \* worker processes
  Reapers,                  \* the workers started with REAPER_ENABLED=1
  Slots,                    \* bound: delivery handlers and timers alive at once
  Prefetch,                 \* unsettled deliveries a worker may hold
  Cancellable,              \* bound: the runs a user may cancel
  Budget,                   \* bound: how often each kind of fault happens
  None

FaultKinds == {"crash",     \* a worker process dies
               "drop",      \* a worker's broker connection is lost
               "mongo",     \* a database operation throws
               "refuse",    \* the broker refuses a publisher
               "slow"}      \* a turn takes longer than the reaper's lease

ASSUME DispatchAssumption ==
  /\ ThreadOf \in [Runs -> Threads]
  /\ Reapers \subseteq Workers
  /\ Cancellable \subseteq Runs
  /\ Prefetch \in Nat \ {0}
  /\ Budget \in [FaultKinds -> Nat]
  /\ None \notin Runs \cup Workers
  /\ IsFiniteSet(Slots)

VARIABLES
  status,      \* runs.status, or "none" before the document is inserted
  stale,       \* runs.updatedAt is older than the reaper's lease
  lock,        \* thread_locks: the run that holds each thread, or None
  queue,       \* the ready messages of the run queue, oldest first
  posting,     \* runs inserted by a POST that has not published yet
  accepted,    \* runs answered 202, in the order they were published
  cancelling,  \* runs a cancel request read as not terminal
  slot,        \* the delivery handlers of all the workers
  chan,        \* each worker's consumer channel
  reaper,      \* each worker's position in reapOnce
  left         \* faults that may still happen

vars == <<status, stale, lock, queue, posting, accepted, cancelling, slot,
          chan, reaper, left>>

Terminal == {"done", "failed", "cancelled"}
Statuses == {"none", "pending", "running"} \cup Terminal

(***************************************************************************)
(* A handler's program counter names the step it takes next.  `via` is the *)
(* state of the delivery tag it holds: "open" while the channel it came on *)
(* lives, "closed" after, "spent" once another handler's stale tag has     *)
(* settled this delivery.  A "delayed" handler has returned; what is left  *)
(* of it is the 250 ms timer, and via tells whether the channel that timer *)
(* captured still lives.                                                   *)
(***************************************************************************)
Free == [pc |-> "free", w |-> None, run |-> None, via |-> "closed",
         abort |-> FALSE]
PCs == {"free", "acquire", "claim", "run", "ack", "nack", "release", "delayed"}
Unacked == {"acquire", "claim", "run", "ack", "nack"}

Handlers == [pc : PCs, w : Workers \cup {None}, run : Runs \cup {None},
             via : {"open", "closed", "spent"}, abort : BOOLEAN]

Idle == [at |-> "idle", run |-> None]

Thread(s) == ThreadOf[slot[s].run]

\* The deliveries of worker w that the broker considers unsettled.
Unsettled(w) == {s \in Slots : /\ slot[s].w = w
                               /\ slot[s].pc \in Unacked
                               /\ slot[s].via = "open"}

\* The handlers that are executing run r.
Executing(r) == {s \in Slots : slot[s].pc = "run" /\ slot[s].run = r}

Spend(kind) == /\ left[kind] > 0
               /\ left' = [left EXCEPT ![kind] = @ - 1]

-----------------------------------------------------------------------------
(* The broker. *)

\* The messages of the deliveries in S return to the head of the queue.
Requeue(S) == \E order \in SetToSeqs(S) :
                queue' = [i \in DOMAIN order |-> slot[order[i]].run] \o queue

\* slots as they are when every channel of worker w is gone.
Detached(w) == [s \in Slots |-> IF slot[s].w = w
                                THEN [slot[s] EXCEPT !.via = "closed"]
                                ELSE slot[s]]

\* The channel throws IllegalOperationError: it is closed on the client side.
SettleThrows(s) == slot[s].via # "open" /\ chan[slot[s].w] # "open"

\* The delivery's channel is alive: the message is removed or requeued.
SettleOwn(s, back, next) ==
  /\ slot[s].via = "open"
  /\ IF back THEN Requeue({s}) ELSE UNCHANGED queue
  /\ slot' = [slot EXCEPT ![s].pc = next]
  /\ UNCHANGED chan

\* `channel` was replaced by a reconnect; the old delivery tag is one the new
\* channel gave to delivery g, which is settled instead.
SettleOther(s, g, back, next) ==
  /\ slot[s].via = "closed"
  /\ chan[slot[s].w] = "open"
  /\ g \in Unsettled(slot[s].w)
  /\ IF back THEN Requeue({g}) ELSE UNCHANGED queue
  /\ slot' = [slot EXCEPT ![g].via = "spent",
                          ![s].pc = next, ![s].via = "open"]
  /\ UNCHANGED chan

\* The tag is unknown to the new channel, or was settled before: the broker
\* closes the channel (406) and requeues what it had delivered on it.  The
\* connection stays up, so nothing makes the worker reconnect.
SettleUnknown(s, next) ==
  /\ slot[s].via # "open"
  /\ chan[slot[s].w] = "open"
  /\ Requeue(Unsettled(slot[s].w))
  /\ slot' = [Detached(slot[s].w) EXCEPT ![s].pc = next]
  /\ chan' = [chan EXCEPT ![slot[s].w] = "dead"]

\* channel.ack / channel.nack(requeue = back) as the handler calls it.
Settle(s, back, next) ==
  \/ SettleOwn(s, back, next)
  \/ \E g \in Slots : SettleOther(s, g, back, next)
  \/ SettleUnknown(s, next)

\* The same inside the handler's try block: the catch clause nacks on the
\* channel that just threw, ignores the second error and goes on to release.
SettleGuarded(s, back) ==
  \/ Settle(s, back, "release")
  \/ /\ SettleThrows(s)
     /\ slot' = [slot EXCEPT ![s].pc = "release"]
     /\ UNCHANGED <<queue, chan>>

\* Worker w's process ends and is restarted: handlers, timers and the reaper's
\* position are lost, what it had not settled returns to the queue.
Die(w) ==
  /\ Requeue(Unsettled(w))
  /\ slot' = [s \in Slots |-> IF slot[s].w = w THEN Free ELSE slot[s]]
  /\ chan' = [chan EXCEPT ![w] = "closed"]
  /\ reaper' = [reaper EXCEPT ![w] = Idle]

-----------------------------------------------------------------------------
(* Plausible bugs.  Each Mut operator stands in for the action or helper it *)
(* is named after when a property is tested for being able to fail; the     *)
(* specification itself uses none of them.                                  *)

\* The upsert's filter forgets who holds the lock.
MutCanAcquire(s) == Thread(s) \in Threads

\* claimRun writes a status no reader knows.
MutClaimUnknown(s) ==
  /\ slot[s].pc = "claim"
  /\ status[slot[s].run] = "pending"
  /\ status' = [status EXCEPT ![slot[s].run] = "claimed"]
  /\ stale' = [stale EXCEPT ![slot[s].run] = FALSE]
  /\ slot' = [slot EXCEPT ![s].pc = "run"]
  /\ UNCHANGED <<lock, queue, posting, accepted, cancelling, chan, reaper,
                 left>>

\* claimRun takes a requeued run in any of the statuses in `from`.
ClaimFrom(s, from) ==
  /\ slot[s].pc = "claim"
  /\ status[slot[s].run] \in from
  /\ status' = [status EXCEPT ![slot[s].run] = "running"]
  /\ stale' = [stale EXCEPT ![slot[s].run] = FALSE]
  /\ slot' = [slot EXCEPT ![s].pc = "run"]
  /\ UNCHANGED <<lock, queue, posting, accepted, cancelling, chan, reaper,
                 left>>

\* The redelivered job of a crashed worker is taken over without the reaper.
MutClaimRunning(s) == ClaimFrom(s, {"pending", "running"})

\* The requeued job of a failed run is retried.
MutClaimFailed(s) == ClaimFrom(s, {"pending", "failed"})

\* The early return of a lost claim happens before the try block.
MutClaimNull(s) ==
  /\ slot[s].pc = "claim"
  /\ status[slot[s].run] # "pending"
  /\ slot[s].via = "open"
  /\ slot' = [slot EXCEPT ![s] = Free]
  /\ UNCHANGED <<status, stale, lock, queue, posting, accepted, cancelling,
                 chan, reaper, left>>

\* The finally block is forgotten.
MutRelease(s) ==
  /\ slot[s].pc = "release"
  /\ slot' = [slot EXCEPT ![s] = Free]
  /\ UNCHANGED <<status, stale, lock, queue, posting, accepted, cancelling,
                 chan, reaper, left>>

\* The timer of the busy path is cleared before it fires.
MutTimerFires(s) ==
  /\ slot[s].pc = "delayed"
  /\ slot[s].via = "open"
  /\ slot' = [slot EXCEPT ![s] = Free]
  /\ UNCHANGED <<status, stale, lock, queue, posting, accepted, cancelling,
                 chan, reaper, left>>

\* The reaper trusts the broker to redeliver and publishes nothing.
MutReaperPublish(w) ==
  /\ reaper[w].at = "publish"
  /\ reaper' = [reaper EXCEPT ![w] = Idle]
  /\ UNCHANGED <<status, stale, lock, queue, posting, accepted, cancelling,
                 slot, chan, left>>

-----------------------------------------------------------------------------
(* The web tier. *)

\* POST /runs, first await: the pending document is inserted.
PostRun(r) ==
  /\ status[r] = "none"
  /\ status' = [status EXCEPT ![r] = "pending"]
  /\ posting' = posting \cup {r}
  /\ UNCHANGED <<stale, lock, queue, accepted, cancelling, slot, chan, reaper,
                 left>>

\* POST /runs, second await: the job is published and the client gets its 202.
Publish(r) ==
  /\ r \in posting
  /\ posting' = posting \ {r}
  /\ queue' = Append(queue, r)
  /\ accepted' = Append(accepted, r)
  /\ UNCHANGED <<status, stale, lock, cancelling, slot, chan, reaper, left>>

\* The broker is unreachable: 503, and the pending document stays behind.
PublishFails(r) ==
  /\ r \in posting
  /\ Spend("refuse")
  /\ posting' = posting \ {r}
  /\ UNCHANGED <<status, stale, lock, queue, accepted, cancelling, slot, chan,
                 reaper>>

\* POST /runs/:id/cancel reads the run; a terminal one is answered 409.
CancelRead(r) ==
  /\ r \in Cancellable
  /\ status[r] \in {"pending", "running"}
  /\ r \notin cancelling
  /\ cancelling' = cancelling \cup {r}
  /\ UNCHANGED <<status, stale, lock, queue, posting, accepted, slot, chan,
                 reaper, left>>

\* It then writes "cancelled" whatever the status has become.
CancelWrite(r) ==
  /\ r \in cancelling
  /\ cancelling' = cancelling \ {r}
  /\ status' = [status EXCEPT ![r] = "cancelled"]
  /\ stale' = [stale EXCEPT ![r] = FALSE]
  /\ UNCHANGED <<lock, queue, posting, accepted, slot, chan, reaper, left>>

-----------------------------------------------------------------------------
(* The worker's consume callback. *)

\* The broker hands the oldest message to a worker below its prefetch limit.
Deliver(w, s) ==
  /\ chan[w] = "open"
  /\ queue # << >>
  /\ Cardinality(Unsettled(w)) < Prefetch
  /\ slot[s].pc = "free"
  /\ slot' = [slot EXCEPT ![s] = [pc |-> "acquire", w |-> w,
                                  run |-> Head(queue), via |-> "open",
                                  abort |-> FALSE]]
  /\ queue' = Tail(queue)
  /\ UNCHANGED <<status, stale, lock, posting, accepted, cancelling, chan,
                 reaper, left>>

\* The upsert of tryAcquireThread succeeds: unlocked, or held by this same run.
CanAcquire(s) == lock[Thread(s)] \in {None, slot[s].run}

TryAcquire(s) ==
  /\ slot[s].pc = "acquire"
  /\ CanAcquire(s)
  /\ lock' = [lock EXCEPT ![Thread(s)] = slot[s].run]
  /\ slot' = [slot EXCEPT ![s].pc = "claim"]
  /\ UNCHANGED <<status, stale, queue, posting, accepted, cancelling, chan,
                 reaper, left>>

\* Thread busy: ack the delivery and re-publish the job 250 ms later.
Busy(s) ==
  /\ slot[s].pc = "acquire"
  /\ ~CanAcquire(s)
  /\ Settle(s, FALSE, "delayed")
  /\ UNCHANGED <<status, stale, lock, posting, accepted, cancelling, reaper,
                 left>>

\* The ack of the busy path throws outside the try block: the rejection is
\* unhandled and ends the process.
BusyThrows(s) ==
  /\ slot[s].pc = "acquire"
  /\ ~CanAcquire(s)
  /\ SettleThrows(s)
  /\ Die(slot[s].w)
  /\ UNCHANGED <<status, stale, lock, posting, accepted, cancelling, left>>

\* So does a database error in tryAcquireThread.
AcquireThrows(s) ==
  /\ slot[s].pc = "acquire"
  /\ Spend("mongo")
  /\ Die(slot[s].w)
  /\ UNCHANGED <<status, stale, lock, posting, accepted, cancelling>>

\* claimRun: the atomic pending -> running transition.
Claim(s) ==
  /\ slot[s].pc = "claim"
  /\ status[slot[s].run] = "pending"
  /\ status' = [status EXCEPT ![slot[s].run] = "running"]
  /\ stale' = [stale EXCEPT ![slot[s].run] = FALSE]
  /\ slot' = [slot EXCEPT ![s].pc = "run"]
  /\ UNCHANGED <<lock, queue, posting, accepted, cancelling, chan, reaper,
                 left>>

\* Already claimed or not pending: the delivery is acked and dropped.
ClaimNull(s) ==
  /\ slot[s].pc = "claim"
  /\ status[slot[s].run] # "pending"
  /\ SettleGuarded(s, FALSE)
  /\ UNCHANGED <<status, stale, lock, posting, accepted, cancelling, reaper,
                 left>>

\* A database error in claimRun, or one that escapes runLoop: nack and requeue,
\* the status stays what it was.
HandlerThrows(s) ==
  /\ slot[s].pc \in {"claim", "run"}
  /\ Spend("mongo")
  /\ SettleGuarded(s, TRUE)
  /\ UNCHANGED <<status, stale, lock, posting, accepted, cancelling, reaper>>

\* No event for a whole lease, although the run is being executed.
SlowTurn(s) ==
  /\ slot[s].pc = "run"
  /\ status[slot[s].run] = "running"
  /\ ~stale[slot[s].run]
  /\ Spend("slow")
  /\ stale' = [stale EXCEPT ![slot[s].run] = TRUE]
  /\ UNCHANGED <<status, lock, queue, posting, accepted, cancelling, slot,
                 chan, reaper>>

\* Every event the run emits refreshes runs.updatedAt.
Progress(s) ==
  /\ slot[s].pc = "run"
  /\ stale[slot[s].run]
  /\ stale' = [stale EXCEPT ![slot[s].run] = FALSE]
  /\ UNCHANGED <<status, lock, queue, posting, accepted, cancelling, slot,
                 chan, reaper, left>>

\* The two-second poll sees the run cancelled and aborts it.
PollCancel(s) ==
  /\ slot[s].pc = "run"
  /\ ~slot[s].abort
  /\ status[slot[s].run] = "cancelled"
  /\ slot' = [slot EXCEPT ![s].abort = TRUE]
  /\ UNCHANGED <<status, stale, lock, queue, posting, accepted, cancelling,
                 chan, reaper, left>>

\* runLoop ends: finishRun overwrites the status whatever it has become.
Finish(s, outcome) ==
  /\ slot[s].pc = "run"
  /\ outcome = "cancelled" => slot[s].abort
  /\ status' = [status EXCEPT ![slot[s].run] = outcome]
  /\ stale' = [stale EXCEPT ![slot[s].run] = FALSE]
  /\ slot' = [slot EXCEPT ![s].pc = IF outcome = "done" THEN "ack" ELSE "nack"]
  /\ UNCHANGED <<lock, queue, posting, accepted, cancelling, chan, reaper,
                 left>>

\* After markIdle: ack a run that is done, requeue the job of any other.
Acknowledge(s) ==
  /\ slot[s].pc \in {"ack", "nack"}
  /\ SettleGuarded(s, slot[s].pc = "nack")
  /\ UNCHANGED <<status, stale, lock, posting, accepted, cancelling, reaper,
                 left>>

\* The finally block: releaseThread deletes the lock iff this run holds it.
Unlocked(t, r) == [lock EXCEPT ![t] = IF @ = r THEN None ELSE @]

Release(s) ==
  /\ slot[s].pc = "release"
  /\ lock' = Unlocked(Thread(s), slot[s].run)
  /\ slot' = [slot EXCEPT ![s] = Free]
  /\ UNCHANGED <<status, stale, queue, posting, accepted, cancelling, chan,
                 reaper, left>>

\* Its error is swallowed: the lock document stays.
ReleaseFails(s) ==
  /\ slot[s].pc = "release"
  /\ Spend("mongo")
  /\ slot' = [slot EXCEPT ![s] = Free]
  /\ UNCHANGED <<status, stale, lock, queue, posting, accepted, cancelling,
                 chan, reaper>>

\* The 250 ms timer of the busy path re-publishes the job on the channel it
\* captured ...
TimerFires(s) ==
  /\ slot[s].pc = "delayed"
  /\ slot[s].via = "open"
  /\ queue' = Append(queue, slot[s].run)
  /\ slot' = [slot EXCEPT ![s] = Free]
  /\ UNCHANGED <<status, stale, lock, posting, accepted, cancelling, chan,
                 reaper, left>>

\* ... and throws inside the timer, which ends the process, if that closed.
TimerThrows(s) ==
  /\ slot[s].pc = "delayed"
  /\ slot[s].via # "open"
  /\ Die(slot[s].w)
  /\ UNCHANGED <<status, stale, lock, posting, accepted, cancelling, left>>

-----------------------------------------------------------------------------
(* Connections and processes. *)

\* The connection drops: the broker requeues, the handlers keep running.
ConnectionLost(w) ==
  /\ chan[w] # "closed"
  /\ Spend("drop")
  /\ Requeue(Unsettled(w))
  /\ slot' = Detached(w)
  /\ chan' = [chan EXCEPT ![w] = "closed"]
  /\ UNCHANGED <<status, stale, lock, posting, accepted, cancelling, reaper>>

\* connectAndConsume: a new channel replaces the shared variable `channel`.
Reconnect(w) ==
  /\ chan[w] = "closed"
  /\ chan' = [chan EXCEPT ![w] = "open"]
  /\ UNCHANGED <<status, stale, lock, queue, posting, accepted, cancelling,
                 slot, reaper, left>>

Crash(w) ==
  /\ Spend("crash")
  /\ Die(w)
  /\ UNCHANGED <<status, stale, lock, posting, accepted, cancelling>>

-----------------------------------------------------------------------------
(* The reaper. *)

\* Nothing touched the running run for a lease: nobody executes it.
LeaseExpires(r) ==
  /\ status[r] = "running"
  /\ ~stale[r]
  /\ Executing(r) = {}
  /\ stale' = [stale EXCEPT ![r] = TRUE]
  /\ UNCHANGED <<status, lock, queue, posting, accepted, cancelling, slot,
                 chan, reaper, left>>

\* reapOnce finds the run stale and resets it to pending in one update.
ReaperReset(w, r) ==
  /\ w \in Reapers
  /\ reaper[w] = Idle
  /\ status[r] = "running"
  /\ stale[r]
  /\ status' = [status EXCEPT ![r] = "pending"]
  /\ stale' = [stale EXCEPT ![r] = FALSE]
  /\ reaper' = [reaper EXCEPT ![w] = [at |-> "unlock", run |-> r]]
  /\ UNCHANGED <<lock, queue, posting, accepted, cancelling, slot, chan, left>>

ReaperUnlock(w) ==
  /\ reaper[w].at = "unlock"
  /\ lock' = Unlocked(ThreadOf[reaper[w].run], reaper[w].run)
  /\ reaper' = [reaper EXCEPT ![w].at = "publish"]
  /\ UNCHANGED <<status, stale, queue, posting, accepted, cancelling, slot,
                 chan, left>>

ReaperPublish(w) ==
  /\ reaper[w].at = "publish"
  /\ queue' = Append(queue, reaper[w].run)
  /\ reaper' = [reaper EXCEPT ![w] = Idle]
  /\ UNCHANGED <<status, stale, lock, posting, accepted, cancelling, slot,
                 chan, left>>

\* An error leaves reapOnce where it was: the next tick starts a new scan.
ReaperThrows(w) ==
  /\ \/ reaper[w].at = "unlock" /\ Spend("mongo")
     \/ reaper[w].at = "publish" /\ Spend("refuse")
  /\ reaper' = [reaper EXCEPT ![w] = Idle]
  /\ UNCHANGED <<status, stale, lock, queue, posting, accepted, cancelling,
                 slot, chan>>

-----------------------------------------------------------------------------
AtStart ==
  /\ status = [r \in Runs |-> "none"]
  /\ stale = [r \in Runs |-> FALSE]
  /\ lock = [t \in Threads |-> None]
  /\ queue = << >>
  /\ posting = {}
  /\ accepted = << >>
  /\ cancelling = {}
  /\ slot = [s \in Slots |-> Free]
  /\ chan = [w \in Workers |-> "open"]
  /\ reaper = [w \in Workers |-> Idle]

Init == AtStart /\ left = Budget

Web(r) == \/ PostRun(r) \/ Publish(r) \/ PublishFails(r)
          \/ CancelRead(r) \/ CancelWrite(r)

\* The steps a handler takes on its own when nothing goes wrong.
Handle(s) == \/ TryAcquire(s) \/ Busy(s) \/ BusyThrows(s)
             \/ Claim(s) \/ ClaimNull(s)
             \/ \E outcome \in Terminal : Finish(s, outcome)
             \/ Acknowledge(s) \/ Release(s)
             \/ TimerFires(s) \/ TimerThrows(s)

Upset(s) == \/ AcquireThrows(s) \/ HandlerThrows(s) \/ ReleaseFails(s)
            \/ SlowTurn(s)

Reap(w) == \/ \E r \in Runs : ReaperReset(w, r)
           \/ ReaperUnlock(w) \/ ReaperPublish(w)

Delivery == \E w \in Workers, s \in Slots : Deliver(w, s)

Next ==
  \/ \E r \in Runs : Web(r) \/ LeaseExpires(r)
  \/ Delivery
  \/ \E s \in Slots : Handle(s) \/ Upset(s) \/ Progress(s) \/ PollCancel(s)
  \/ \E w \in Workers : \/ ConnectionLost(w) \/ Reconnect(w) \/ Crash(w)
                        \/ Reap(w) \/ ReaperThrows(w)

Spec == Init /\ [][Next]_vars

(***************************************************************************)
(* Every asynchronous call returns, every timer fires, the broker delivers,*)
(* a lost connection is retried until it is back, the reaper ticks, a run  *)
(* has a bounded number of turns.  Users and faults owe nothing.           *)
(***************************************************************************)
Fairness ==
  /\ \A r \in Runs : /\ WF_vars(Publish(r))
                     /\ WF_vars(CancelWrite(r))
                     /\ WF_vars(LeaseExpires(r))
  /\ WF_vars(Delivery)
  /\ \A s \in Slots : WF_vars(Handle(s))
  /\ \A w \in Workers : WF_vars(Reconnect(w)) /\ WF_vars(Reap(w))

FairSpec == Spec /\ Fairness
-----------------------------------------------------------------------------
(* Properties. *)

TypeOK ==
  /\ status \in [Runs -> Statuses]
  /\ stale \in [Runs -> BOOLEAN]
  /\ lock \in [Threads -> Runs \cup {None}]
  /\ queue \in Seq(Runs)
  /\ posting \in SUBSET Runs
  /\ accepted \in Seq(Runs)
  /\ cancelling \in SUBSET Runs
  /\ slot \in [Slots -> Handlers]
  /\ chan \in [Workers -> {"open", "closed", "dead"}]
  /\ reaper \in [Workers -> [at : {"idle", "unlock", "publish"},
                             run : Runs \cup {None}]]
  /\ left \in [FaultKinds -> Nat]
  /\ \A s \in Slots : slot[s].pc # "free" =>
       slot[s].w \in Workers /\ slot[s].run \in Runs
  /\ \A w \in Workers : reaper[w].at # "idle" => reaper[w].run \in Runs

\* Every live run emits an event within the lease.
NoSlowTurns == Budget["slow"] = 0

\* No live run has outlasted the lease between two of its events so far.
Prompt == left["slow"] = Budget["slow"]

OneExecutor == \A r \in Runs : \A s1, s2 \in Executing(r) : s1 = s2

\* No run is executed by two handlers at a time, however often its job is
\* redelivered, re-published by the reaper or settled on the wrong channel,
\* as long as live runs emit an event within the lease (claimRun, reapOnce).
SingleExecution == Prompt => OneExecutor

\* What makes SingleExecution inductive: an executed run has been claimed, and
\* a run the reaper may reset is not executed.
ExecutionInv ==
  /\ TypeOK
  /\ \A s \in Slots : slot[s].pc = "run"
                        => status[slot[s].run] \notin {"none", "pending"}
  /\ \A r \in Runs : stale[r] /\ status[r] = "running" => Executing(r) = {}
  /\ OneExecutor

\* "at most one active run per thread" (threadGuard.ts).
Serialized ==
  \A r1, r2 \in Runs :
    r1 # r2 /\ ThreadOf[r1] = ThreadOf[r2]
      => Executing(r1) = {} \/ Executing(r2) = {}

\* The inductive invariant behind Serialized and NoOrphanLock when nothing fails,
\* though turns may be slow: channels stay open and delivery tags valid.
Failures == FaultKinds \ {"slow"}
FaultFree == \A k \in Failures : Budget[k] = 0

QuietInv ==
  /\ TypeOK
  /\ \A k \in Failures : left[k] = 0
  /\ \A w \in Workers : chan[w] = "open"
  /\ \A s \in Slots : slot[s].pc # "free" => slot[s].via = "open"

Carries(s, r) == slot[s].pc # "free" /\ slot[s].run = r

\* Run r may still start, or is being executed.
Live(r) == status[r] = "pending" \/ Executing(r) # {}

\* At most one job of r exists: in a POST, in the queue or with a handler.
OneJob(r) ==
  /\ \A i, j \in DOMAIN queue : queue[i] = r /\ queue[j] = r => i = j
  /\ \A s1, s2 \in Slots : Carries(s1, r) /\ Carries(s2, r) => s1 = s2
  /\ \A i \in DOMAIN queue : queue[i] = r
       => r \notin posting /\ \A s \in Slots : ~Carries(s, r)
  /\ r \in posting => \A s \in Slots : ~Carries(s, r)

NoJob(r) == /\ r \notin posting
            /\ \A i \in DOMAIN queue : queue[i] # r
            /\ \A s \in Slots : ~Carries(s, r)

\* The handlers for which their run's lock matters.
Guarded(s) == \/ slot[s].pc = "run"
              \/ slot[s].pc = "claim" /\ status[slot[s].run] = "pending"

\* The handlers that will release their run's lock.
Holds(s, t) == /\ slot[s].run = lock[t]
               /\ slot[s].pc \notin {"free", "acquire", "delayed"}

SerialInv ==
  /\ QuietInv
  /\ ExecutionInv
  /\ \A w \in Workers : reaper[w] = Idle
  /\ \A r \in Runs : status[r] = "running" => Executing(r) # {}
  /\ \A r \in Runs : status[r] = "none" => NoJob(r)
  /\ \A s \in Slots : slot[s].pc \in {"ack", "nack"}
                        => status[slot[s].run] \in Terminal
  /\ \A r \in Runs : Live(r) => OneJob(r)
  /\ \A s \in Slots : Guarded(s) => lock[Thread(s)] = slot[s].run
  /\ \A t \in Threads : lock[t] # None =>
       ThreadOf[lock[t]] = t /\ \E s \in Slots : Holds(s, t)

\* The jobs of run r that exist: in the queue, in a handler that may still
\* claim it or re-publish it, or about to be published by the reaper.
HasJob(r) ==
  \/ r \in ToSet(queue)
  \/ \E s \in Slots : /\ slot[s].run = r
                      /\ slot[s].pc \in {"acquire", "claim", "delayed"}
  \/ \E w \in Workers : reaper[w].at # "idle" /\ reaper[w].run = r

\* A run the client was told is accepted never waits without a job that will
\* start it: neither the guard's ack-and-republish nor the reaper's reset
\* leaves a pending run behind.
NoLostJob ==
  \A r \in ToSet(accepted) : status[r] = "pending" => HasJob(r)

\* What makes it inductive without faults: a pending run is being posted or has
\* a job, and a run is posted once.
JobInv ==
  /\ QuietInv
  /\ \A r \in Runs : status[r] = "pending" => r \in posting \/ HasJob(r)
  /\ \A r \in Runs : status[r] = "none" => r \notin posting \cup ToSet(accepted)
  /\ \A r \in posting : r \notin ToSet(accepted)

\* A thread is never locked by a run that nobody is working on: releaseThread
\* runs on every path out of the handler (worker.ts, the finally block).
NoOrphanLock ==
  \A t \in Threads : lock[t] # None => \E s \in Slots : Holds(s, t)

\* A run that has ended stays ended: no redelivery, re-publication or second
\* execution reopens it or rewrites how it ended (claimRun filters on pending,
\* finishRun does not filter at all).  Only a cancellation meets the end of the
\* run: the endpoint writes over an ending it did not see, and the execution
\* that was cancelled writes over "cancelled".  A live run that outlasts the
\* lease is out of the claim: the reaper hands it to a second execution.
StaysTerminal(r) ==
  status[r] \in Terminal /\ status'[r] # status[r] =>
    /\ status'[r] \in Terminal
    /\ \/ r \in cancelling /\ status'[r] = "cancelled"
       \/ status[r] = "cancelled" /\ Executing(r) # {}
TerminalIsFinal == [][Prompt' => \A r \in Runs : StaysTerminal(r)]_vars

\* What makes it inductive: an executed run is running, or was cancelled.
EndingInv ==
  /\ ExecutionInv
  /\ \A s \in Slots :
       slot[s].pc = "run" => status[slot[s].run] \in {"running", "cancelled"}

\* Every accepted run reaches a terminal status.
Accepted(r) == r \in ToSet(accepted)
AllTerminate == <>[](\A r \in Runs : Accepted(r) => status[r] \in Terminal)

\* A run that has been claimed reaches a terminal status whichever fault happens
\* on the way: its worker dies or loses its connection, a database operation or
\* a publication fails, the reaper takes it from a live but slow worker (the
\* reaper's purpose, durability-test.sh).  It takes two faults to lose it.
Recovered == \A r \in Runs : status[r] = "running" ~> status[r] \in Terminal

\* The lock of a run that has ended is released, "on crash (reaper cleans it)".
LockReleased ==
  \A t \in Threads, r \in Runs :
    lock[t] = r /\ status[r] \in Terminal ~> lock[t] # r

\* Without faults the dispatch implements SerialThreads, fairness included:
\* one active run per thread, and every submitted run is settled.
PhaseOf(r) ==
  CASE status[r] = "none" -> "absent"
    [] Executing(r) # {} -> "active"
    [] status[r] \in Terminal /\ Executing(r) = {} -> "settled"
    [] OTHER -> "waiting"

Abstract == INSTANCE SerialThreads
              WITH phase <- [r \in Runs |-> PhaseOf(r)]
ImplementsSerialThreads == Abstract!Spec
=============================================================================
