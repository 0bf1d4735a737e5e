-------------------------- MODULE GracefulShutdown --------------------------
(***************************************************************************)
(* A worker is told to stop while the dispatch of RunDispatch goes on      *)
(* around it: the shutdown handler that tracks the runs in flight, the     *)
(* signals, the cancelled consumer, the wait with its 28 s timer, the      *)
(* closed channel, process.exit, and what a reconnect does to all of them. *)
(*                                                                         *)
(* The actions of RunDispatch are taken as they are, with what this module *)
(* adds for the worker that is stopped.                                    *)
(* Sources: backend/src/lib/gracefulShutdown.ts, worker.ts.                *)
(***************************************************************************)
EXTENDS RunDispatch

CONSTANTS
  Target,      \* the worker that is told to stop
  MaxSignals   \* bound: the SIGTERMs and SIGINTs it receives

ASSUME ShutdownAssumption ==
  /\ Target \in Workers
  /\ MaxSignals \in Nat

Signals == 1 .. MaxSignals

\* A life of the process makes one handler object per connection.
Objects == 1 .. 1 + Budget["drop"]

VARIABLES
  tracker,    \* the shutdown handler objects, one per connection made so far
  made,       \* connections made: the number of the newest channel
  current,    \* the object `shutdownHandler` refers to; 0 while undefined
  cancelled,  \* the newest channel's consumer has been cancelled
  redial,     \* the reconnect loop: "off", "wait" (backoff) or "dial"
  stop,       \* how far the shutdown() of each signal has come
  alive,      \* the process has not been stopped
  early,      \* history: a delivery came before its handler object was made
  cleared,    \* history: a run's mark went while another handler had the run
  late        \* history: the 28 s timer has fired

ours == <<tracker, made, current, cancelled, redial, stop, alive, early,
          cleared, late>>
allVars == <<vars, ours>>

Fresh == [down |-> FALSE, inFlight |-> {}]

(***************************************************************************)
(* shutdown() is awaiting channel.cancel ("cancel"), the runs in flight    *)
(* ("wait"), channel.close and conn.close ("close"), or what follows       *)
(* initiate() ("leave": heartbeat, sandbox, database).  `obj` is the object*)
(* whose initiate() it is in.                                              *)
(***************************************************************************)
Stops == [at : {"none", "cancel", "wait", "close", "leave"},
          obj : Objects \cup {0}]

Ours(s) == slot[s].w = Target

\* The callback has run to its first await before anything else happens in the
\* process; the same tick may hand over deliveries before it makes the object.
Settled == made = current

ShuttingDown == current # 0 /\ tracker[current].down

-----------------------------------------------------------------------------
(* Plausible bugs, named after the definitions they stand in for. *)

\* The run is marked in flight nowhere.
MutMarkRunning(r) == tracker' = IF r \in Runs THEN tracker ELSE << >>

\* The timer gives up only when there is nothing left to give up on.
MutTimeout(i) ==
  /\ stop[i].at = "wait"
  /\ tracker[stop[i].obj].inFlight = {}
  /\ stop' = [stop EXCEPT ![i].at = "close"]
  /\ UNCHANGED <<vars, tracker, made, current, cancelled, redial, alive, early,
                 cleared, late>>

\* initiate() closes the channel as soon as the consumer is cancelled.
MutCancelReturns(i) ==
  /\ stop[i].at = "cancel"
  /\ alive
  /\ cancelled' = (stop[i].obj = made)
  /\ stop' = [stop EXCEPT ![i].at = "close"]
  /\ UNCHANGED <<vars, tracker, made, current, redial, alive, early, cleared,
                 late>>

-----------------------------------------------------------------------------
(* The in-flight set. *)

MarkRunning(r) ==
  tracker' = IF current = 0 THEN tracker
             ELSE [tracker EXCEPT ![current].inFlight = @ \cup {r}]

\* The last run in flight resolves the wait of the object it is marked in.
MarkComplete(r) ==
  LET rest == tracker[current].inFlight \ {r}
      Resolved(i) == /\ stop[i].at = "wait"
                     /\ stop[i].obj = current
                     /\ rest = {}
  IN /\ tracker' = [tracker EXCEPT ![current].inFlight = rest]
     /\ stop' = [i \in Signals |-> IF Resolved(i)
                                   THEN [stop[i] EXCEPT !.at = "close"]
                                   ELSE stop[i]]

-----------------------------------------------------------------------------
(* The handlers of the dispatch, with what they do to the in-flight set.    *)

\* A delivery is marked before the first await.  While the worker shuts down it
\* is given back at once, which leaves the queue as it was.
DeliverOurs(s) ==
  /\ ~cancelled
  /\ ~ShuttingDown
  /\ Deliver(Target, s)
  /\ MarkRunning(Head(queue))
  /\ early' = (early \/ ~Settled)
  /\ UNCHANGED <<made, current, cancelled, redial, stop, alive, cleared, late>>

DeliverOther(w, s) ==
  /\ w # Target
  /\ Deliver(w, s)
  /\ UNCHANGED ours

\* Plausible bug: the busy path marks its run complete, as the others do.
MutBusyPath(s) ==
  /\ Busy(s)
  /\ IF Ours(s)
     THEN /\ MarkComplete(slot[s].run)
          /\ UNCHANGED <<made, current, cancelled, redial, alive, early,
                 cleared, late>>
     ELSE UNCHANGED ours

\* The busy path returns without marking its run complete.
BusyPath(s) == Busy(s) /\ UNCHANGED ours

\* Steps the in-flight set knows nothing of.
Goes(s) ==
  /\ \/ TryAcquire(s) \/ Claim(s) \/ ClaimNull(s)
     \/ \E outcome \in Terminal : Finish(s, outcome)
     \/ Acknowledge(s) \/ TimerFires(s)
  /\ UNCHANGED ours

Interrupted(s) ==
  /\ HandlerThrows(s) \/ SlowTurn(s) \/ Progress(s) \/ PollCancel(s)
  /\ UNCHANGED ours

\* releaseThread has returned, whatever its result: the run is complete, even
\* if its job, requeued by the nack, has meanwhile been delivered again.
Completes(s) ==
  /\ Release(s) \/ ReleaseFails(s)
  /\ IF Ours(s)
     THEN /\ MarkComplete(slot[s].run)
          /\ cleared' = (cleared \/ \E h \in Slots \ {s} :
                                      Ours(h) /\ slot[h].run = slot[s].run)
          /\ UNCHANGED <<made, current, cancelled, redial, alive, early, late>>
     ELSE UNCHANGED ours

\* The process ends by an error or is killed.  It is restarted, unless it was
\* being stopped.
Ends(w) ==
  IF w # Target THEN UNCHANGED ours
  ELSE /\ tracker' = [g \in Objects |-> Fresh]
       /\ made' = 0
       /\ current' = 0
       /\ cancelled' = FALSE
       /\ redial' = "wait"
       /\ alive' = \A i \in Signals : stop[i].at = "none"
       /\ UNCHANGED <<stop, early, cleared, late>>

Throws(s) ==
  /\ BusyThrows(s) \/ AcquireThrows(s) \/ TimerThrows(s)
  /\ Ends(slot[s].w)

Handler(s) ==
  /\ Ours(s) => Settled
  /\ Goes(s) \/ BusyPath(s) \/ Completes(s) \/ Throws(s)

\* The 30 s of grace are over, or the process is killed before.
Killed ==
  /\ alive
  /\ Crash(Target)
  /\ Ends(Target)

\* The reaper of a stopped worker has been stopped with it.
Reaping(w) ==
  /\ w = Target => alive /\ \A i \in Signals : stop[i].at # "leave"
  /\ Reap(w) \/ ReaperThrows(w)
  /\ UNCHANGED ours

-----------------------------------------------------------------------------
(* Connections of the worker. *)

\* onGone: no reconnect while the current handler object is shutting down.
Lost ==
  /\ Settled
  /\ ConnectionLost(Target)
  /\ redial' = IF ShuttingDown THEN redial ELSE "wait"
  /\ UNCHANGED <<tracker, made, current, cancelled, stop, alive, early,
                 cleared, late>>

\* connectWithRetry looks at the handler object before it dials, not after.  An
\* attempt that fails is a longer backoff.
Redial ==
  /\ redial = "wait"
  /\ alive
  /\ redial' = IF ShuttingDown THEN "off" ELSE "dial"
  /\ UNCHANGED <<vars, tracker, made, current, cancelled, stop, alive, early,
                 cleared, late>>

\* The connection is there and the consumer is registered: deliveries come.
Consume(w) ==
  /\ Reconnect(w)
  /\ IF w = Target
     THEN /\ redial = "dial"
          /\ alive
          /\ redial' = "off"
          /\ made' = made + 1
          /\ cancelled' = FALSE
          /\ UNCHANGED <<tracker, current, stop, alive, early,
                 cleared, late>>
     ELSE UNCHANGED ours

\* The callback that awaited consume goes on: a new handler object, with an
\* empty set, replaces the one in use.
Track ==
  /\ current < made
  /\ current' = made
  /\ UNCHANGED <<vars, tracker, made, cancelled, redial, stop, alive, early,
                 cleared, late>>

-----------------------------------------------------------------------------
(* shutdown(), once per signal. *)

\* The first signal starts initiate(); one that finds the handler object
\* shutting down passes straight on to the exit.
Signal(i) ==
  /\ stop[i].at = "none"
  /\ i > 1 => stop[i - 1].at # "none"
  /\ alive
  /\ current # 0
  /\ Settled
  /\ stop' = [stop EXCEPT ![i] = [at |-> IF ShuttingDown THEN "leave"
                                         ELSE "cancel",
                                  obj |-> current]]
  /\ tracker' = [tracker EXCEPT ![current].down = TRUE]
  /\ UNCHANGED <<vars, made, current, cancelled, redial, alive, early,
                 cleared, late>>

\* The channel an object was made with is still the one in use.
InUse(g) == g = made /\ chan[Target] = "open"

\* channel.cancel has returned, or thrown on a channel that is gone.
CancelReturns(i) ==
  /\ stop[i].at = "cancel"
  /\ alive
  /\ Settled
  /\ cancelled' = (cancelled \/ InUse(stop[i].obj))
  /\ stop' = [stop EXCEPT ![i].at =
                IF tracker[stop[i].obj].inFlight = {} THEN "close" ELSE "wait"]
  /\ UNCHANGED <<vars, tracker, made, current, redial, alive, early,
                 cleared, late>>

\* The 28 s are over.  All a handler awaits besides the run itself, and the
\* 250 ms of the busy path, takes less.
Timeout(i) ==
  /\ stop[i].at = "wait"
  /\ alive
  /\ Settled
  /\ \A s \in Slots :
       Ours(s) /\ slot[s].run \in tracker[stop[i].obj].inFlight
         => slot[s].pc \notin {"acquire", "claim", "delayed"}
  /\ late' = TRUE
  /\ stop' = [stop EXCEPT ![i].at = "close"]
  /\ UNCHANGED <<vars, tracker, made, current, cancelled, redial, alive, early,
                 cleared>>

\* channel.close and conn.close: the broker requeues what was not settled.
CloseReturns(i) ==
  /\ stop[i].at = "close"
  /\ alive
  /\ Settled
  /\ stop' = [stop EXCEPT ![i].at = "leave"]
  /\ IF InUse(stop[i].obj)
     THEN /\ Requeue(Unsettled(Target))
          /\ slot' = Detached(Target)
          /\ chan' = [chan EXCEPT ![Target] = "closed"]
     ELSE UNCHANGED <<queue, slot, chan>>
  /\ UNCHANGED <<status, stale, lock, posting, accepted, cancelling, reaper,
                 left, tracker, made, current, cancelled, redial, alive, early,
                 cleared, late>>

\* process.exit, after the heartbeat, the sandbox and the database are closed.
Exit(i) ==
  /\ stop[i].at = "leave"
  /\ alive
  /\ Settled
  /\ Die(Target)
  /\ alive' = FALSE
  /\ UNCHANGED <<status, stale, lock, posting, accepted, cancelling, left,
                 tracker, made, current, cancelled, redial, stop, early,
                 cleared, late>>

Stopping(i) == CancelReturns(i) \/ Timeout(i) \/ CloseReturns(i) \/ Exit(i)

-----------------------------------------------------------------------------
ShutdownInit ==
  /\ Init
  /\ tracker = [g \in Objects |-> Fresh]
  /\ made = 1
  /\ current = 0
  /\ cancelled = FALSE
  /\ redial = "off"
  /\ stop = [i \in Signals |-> [at |-> "none", obj |-> 0]]
  /\ alive = TRUE
  /\ early = FALSE
  /\ cleared = FALSE
  /\ late = FALSE

Delivers == \E s \in Slots : \/ DeliverOurs(s)
                             \/ \E w \in Workers : DeliverOther(w, s)

Elsewhere == \E r \in Runs : (Web(r) \/ LeaseExpires(r)) /\ UNCHANGED ours

ShutdownNext ==
  \/ Elsewhere
  \/ Delivers
  \/ \E s \in Slots : Handler(s) \/ Interrupted(s)
  \/ \E w \in Workers : Reaping(w) \/ Consume(w)
  \/ Lost \/ Killed
  \/ Redial \/ Track
  \/ \E i \in Signals : Signal(i) \/ Stopping(i)

ShutdownSpec == ShutdownInit /\ [][ShutdownNext]_allVars

(***************************************************************************)
(* As in RunDispatch; and the awaits of shutdown() return and its timer    *)
(* fires.  Whoever sends signals owes nothing.  One weak fairness condition*)
(* is enough for all that happens a bounded number of times.               *)
(***************************************************************************)
Background ==
  \/ \E r \in Runs : (Publish(r) \/ LeaseExpires(r)) /\ UNCHANGED ours
  \/ \E w \in Workers : Consume(w) \/ Reaping(w)
  \/ Redial \/ Track
  \/ \E i \in Signals : Stopping(i)

ShutdownFairness == /\ WF_allVars(Background)
                    /\ WF_allVars(Delivers)
                    /\ \A s \in Slots : WF_allVars(Handler(s))

ShutdownFairSpec == ShutdownSpec /\ ShutdownFairness

-----------------------------------------------------------------------------
(* Properties. *)

ShutdownTypeOK ==
  /\ TypeOK
  /\ tracker \in [Objects -> [down : BOOLEAN, inFlight : SUBSET Runs]]
  /\ made \in Objects \cup {0}
  /\ current \in 0 .. made
  /\ cancelled \in BOOLEAN
  /\ redial \in {"off", "wait", "dial"}
  /\ stop \in [Signals -> Stops]
  /\ alive \in BOOLEAN
  /\ early \in BOOLEAN
  /\ cleared \in BOOLEAN
  /\ late \in BOOLEAN

\* One signal, no lost connection, no crash or error.
Planned ==
  /\ left = Budget
  /\ \A i \in Signals : i > 1 => stop[i].at = "none"

\* "Waits for in-flight runs to complete" (gracefulShutdown.ts): once initiate()
\* goes on to close the channel before its timer has fired, the worker holds no
\* delivery, executes no run and has no job in a timer.
WaitsForRuns ==
  Planned /\ ~late =>
    \A i \in Signals : stop[i].at \in {"close", "leave"}
                        => \A s \in Slots : ~Ours(s)

\* The same for deliveries that came after their handler object was made.  The
\* code does not keep it, and no run checks it: see `cleared`.
WaitsForTracked == early \/ WaitsForRuns

\* The in-flight set fails in two ways only: a delivery older than the object,
\* and a mark that the first handler of a redelivered run takes away.
Missed == early \/ cleared
NoExitUnderRun == Missed \/ WaitsForRuns

\* What makes it inductive: until a fault, a second signal, the timer or one of
\* the two ways intervenes there is one handler object, every delivery of the
\* worker is marked in it, and no delivery comes once it is shutting down.
Undisturbed == Planned /\ ~late /\ ~Missed

Tracked ==
  /\ made = 1
  /\ redial = "off"
  /\ \A s \in Slots : Ours(s) => /\ slot[s].via = "open"
                                 /\ current = 1
                                 /\ slot[s].run \in tracker[1].inFlight
  /\ \A i \in Signals : stop[i].at # "none" => /\ current = 1
                                               /\ stop[i].obj = 1
                                               /\ tracker[1].down
  /\ tracker[1].down => \E i \in Signals : stop[i].at # "none"
  /\ WaitsForRuns

TrackedInv ==
  /\ ShutdownTypeOK
  /\ \A k \in FaultKinds : left[k] <= Budget[k]
  /\ Undisturbed => Tracked

\* Scaling down loses no job, even if the timer cuts runs off: what waits in
\* the busy path's timer is back in the queue before the process ends.
ShutdownKeepsJobs == Planned /\ ~Missed => NoLostJob

\* A signal ends the process, whatever runs, hangs or is lost meanwhile.
SignalEnds == \A i \in Signals : stop[i].at # "none" ~> ~alive

\* "No orphaned runs on planned scale-down" (ARCHITECTURE.md): every run
\* accepted ends although a worker is taken away, if the timer cuts nothing off.
NothingOrphaned ==
  \A r \in Runs : Accepted(r) ~> \/ status[r] \in Terminal
                                 \/ ~Planned \/ Missed \/ late
=============================================================================
