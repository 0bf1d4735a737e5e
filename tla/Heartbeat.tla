----------------------------- MODULE Heartbeat -----------------------------
(***************************************************************************)
(* The heartbeat by which a worker tells the operations panel that it is   *)
(* alive and what it does.  The tracker's commands go to Redis in the      *)
(* order they are issued, one at a time for each beat; while Redis is away *)
(* they wait in the client, and so do the boot, the handlers and the       *)
(* shutdown that await them.  The unit of time is the interval of the      *)
(* beats (2 s), within which a Redis that runs answers.                    *)
(*                                                                         *)
(* The key run:<id>:worker is read by nothing and is left out, but not the *)
(* wait for it.  How runs reach a worker is the subject of RunDispatch.    *)
(* Source: backend/src/lib/workerHeartbeat.ts, worker.ts.                  *)
(***************************************************************************)
EXTENDS Integers, Sequences, FiniteSets, SequencesExt

CONSTANTS
  Workers,
  Runs,
  Prefetch,  \* runs a worker handles at a time
  Ttl,       \* intervals a heartbeat key lives (10 s / 2 s)
  Faults,    \* bound: how many faults of all kinds
  None

ASSUME HeartbeatAssumption ==
  /\ Prefetch \in Nat /\ Ttl \in Nat \ {0} /\ Faults \in Nat
  /\ None \notin Runs

VARIABLES
  phase,    \* of each process
  on,       \* the worker that handles a run
  at,       \* how far its handler is
  current,  \* this.currentRun
  queue,    \* commands that have no reply yet, oldest first
  due,      \* the interval has elapsed since the timer fired
  up,       \* Redis runs
  key,      \* worker:<id>:heartbeat: what it says and how long it lives
  active,   \* worker:active
  left      \* faults that may still happen

process == <<phase, on, at, current, queue>>
store == <<key, active>>
hbVars == <<process, due, up, store, left>>

(* "boot" is the connect of start, "starting" its first beat, "stopping" the *)
(* stop and "stopped" the rest of the shutdown.                              *)
Running == {"boot", "starting", "up", "stopping", "stopped"}
Handling == {"marking", "loop", "idling"}

(* A beat is its next command, with the run it read when it began.           *)
Command(by, step, run) == [by |-> by, step |-> step, run |-> run]

Handled(w) == {r \in Runs : on[r] = w /\ at[r] \in Handling}

Fail == left > 0 /\ left' = left - 1

-----------------------------------------------------------------------------
(* Plausible bugs, named after the definitions they stand in for. *)

\* beat does not catch what Redis throws: the handler ends without its run.
MutThrough == [marking |-> "thrown", idling |-> "thrown"]

\* set instead of setEx.
MutAges(k) == k

-----------------------------------------------------------------------------
(* What follows a beat in its caller, whether Redis has answered or not: the  *)
(* catch of beat swallows the error.                                         *)
Through == [marking |-> "loop", idling |-> "settled"]

\* The calls in S, pairs of a worker and a caller, return.
Return(S) ==
  /\ phase' = [w \in Workers |-> IF <<w, "start">> \in S THEN "up"
                                 ELSE IF <<w, "stop">> \in S THEN "stopped"
                                 ELSE phase[w]]
  /\ at' = [r \in Runs |-> IF <<on[r], r>> \in S THEN Through[at[r]] ELSE at[r]]

\* beat: the status is put together and the first command issued.
Beat(w, by, run) == queue' = [queue EXCEPT ![w] = Append(@, Command(by, "setEx", run))]

\* start: the client connects, then the interval is set and the first beat sent.
Start(w) ==
  /\ phase[w] = "boot"
  /\ up
  /\ phase' = [phase EXCEPT ![w] = "starting"]
  /\ Beat(w, "start", None)
  /\ UNCHANGED <<on, at, current, due, up, store, left>>

\* The interval fires; at most one of its beats waits for Redis (a bound).
TimerFires(w) ==
  /\ phase[w] \in {"starting", "up"}
  /\ due[w]
  /\ \A i \in DOMAIN queue[w] : queue[w][i].by # "timer"
  /\ due' = [due EXCEPT ![w] = FALSE]
  /\ Beat(w, "timer", current[w])
  /\ UNCHANGED <<phase, on, at, current, up, store, left>>

\* A run is claimed and the handler awaits markProcessing.
MarkProcessing(w, r) ==
  /\ phase[w] = "up"
  /\ at[r] = "new"
  /\ Cardinality(Handled(w)) < Prefetch
  /\ on' = [on EXCEPT ![r] = w]
  /\ at' = [at EXCEPT ![r] = "marking"]
  /\ current' = [current EXCEPT ![w] = r]
  /\ Beat(w, r, r)
  /\ UNCHANGED <<phase, due, up, store, left>>

\* runLoop has returned and the handler awaits markIdle before it settles.
MarkIdle(r) ==
  /\ at[r] = "loop"
  /\ at' = [at EXCEPT ![r] = "idling"]
  /\ current' = [current EXCEPT ![on[r]] = None]
  /\ Beat(on[r], r, None)
  /\ UNCHANGED <<phase, on, due, up, store, left>>

\* runLoop throws: markIdle is left out.
LoopThrows(r) ==
  /\ Fail
  /\ at[r] = "loop"
  /\ at' = [at EXCEPT ![r] = "thrown"]
  /\ UNCHANGED <<phase, on, current, queue, due, up, store>>

\* The shutdown, behind its wait for the runs or its 28 s.
Stop(w) ==
  /\ phase[w] = "up"
  /\ phase' = [phase EXCEPT ![w] = "stopping"]
  /\ queue' = [queue EXCEPT ![w] = Append(@, Command("stop", "sRem", None))]
  /\ UNCHANGED <<on, at, current, due, up, store, left>>

Gone(w) ==
  /\ phase' = [phase EXCEPT ![w] = "gone"]
  /\ at' = [r \in Runs |-> IF r \in Handled(w) THEN "cut" ELSE at[r]]
  /\ queue' = [queue EXCEPT ![w] = << >>]
  /\ current' = [current EXCEPT ![w] = None]

Exit(w) == phase[w] = "stopped" /\ Gone(w) /\ UNCHANGED <<on, due, up, store, left>>

Killed(w) ==
  /\ Fail
  /\ phase[w] \in Running
  /\ Gone(w)
  /\ UNCHANGED <<on, due, up, store>>

-----------------------------------------------------------------------------
(* Redis. *)

\* What a command does to the keys.
Does(w, c) ==
  /\ key' = [key EXCEPT ![w] =
               CASE c.step = "setEx" -> [run |-> c.run, ttl |-> Ttl]
                 [] c.step = "del" -> None
                 [] OTHER -> @]
  /\ active' = CASE c.step = "sAdd" -> active \cup {w}
                 [] c.step = "sRem" -> active \ {w}
                 [] OTHER -> active

\* The command a call goes on with, if any.
Following(w, step) ==
  CASE step = "setEx" -> {"sAdd"}
    [] step = "sAdd" -> IF current[w] = None THEN {} ELSE {"setRun"}
    [] step = "sRem" -> {"del"}
    [] step = "del" -> {"quit"}
    [] OTHER -> {}

Reply(w) ==
  /\ up
  /\ queue[w] # << >>
  /\ LET c == Head(queue[w]) IN
     /\ Does(w, c)
     /\ \/ \E step \in Following(w, c.step) :
             /\ queue' = [queue EXCEPT ![w] = Append(Tail(@), [c EXCEPT !.step = step])]
             /\ UNCHANGED <<phase, at>>
        \/ /\ Following(w, c.step) = {}
           /\ queue' = [queue EXCEPT ![w] = Tail(@)]
           /\ Return({<<w, c.by>>})
  /\ UNCHANGED <<on, current, due, up, left>>

\* Commands that were on the wire are rejected, the others stay in the client;
\* Redis may have saved its keys.
RedisStops ==
  /\ Fail
  /\ up
  /\ up' = FALSE
  /\ \E n \in [Workers -> 0 .. Prefetch + 2] :
       /\ \A w \in Workers : n[w] <= Len(queue[w])
       /\ queue' = [w \in Workers |-> SubSeq(queue[w], n[w] + 1, Len(queue[w]))]
       /\ Return(UNION {{<<w, queue[w][i].by>> : i \in 1 .. n[w]} : w \in Workers})
  /\ \/ UNCHANGED store
     \/ key' = [w \in Workers |-> None] /\ active' = {}
  /\ UNCHANGED <<on, current, due>>

RedisStarts ==
  /\ ~up
  /\ up' = TRUE
  /\ UNCHANGED <<process, due, store, left>>

\* setEx: the key after one interval.
Ages(k) == IF k = None \/ k.ttl = 1 THEN None ELSE [k EXCEPT !.ttl = @ - 1]

\* An interval passes: not before a Redis that runs has answered what was sent.
Tick ==
  /\ up => \A w \in Workers :
             queue[w] = << >> /\ (phase[w] \in {"starting", "up"} => ~due[w])
  /\ due' = [w \in Workers |-> TRUE]
  /\ key' = [w \in Workers |-> Ages(key[w])]
  /\ UNCHANGED <<process, up, active, left>>

-----------------------------------------------------------------------------
HeartbeatInit ==
  /\ phase = [w \in Workers |-> "boot"]
  /\ on = [r \in Runs |-> None]
  /\ at = [r \in Runs |-> "new"]
  /\ current = [w \in Workers |-> None]
  /\ queue = [w \in Workers |-> << >>]
  /\ due = [w \in Workers |-> FALSE]
  /\ up \in BOOLEAN
  /\ key = [w \in Workers |-> None]
  /\ active = {}
  /\ left = Faults

Tracker(w) ==
  \/ Start(w) \/ TimerFires(w) \/ Stop(w) \/ Exit(w) \/ Killed(w) \/ Reply(w)
  \/ \E r \in Runs : MarkProcessing(w, r)

HeartbeatNext ==
  \/ \E w \in Workers : Tracker(w)
  \/ \E r \in Runs : MarkIdle(r) \/ LoopThrows(r)
  \/ RedisStops \/ RedisStarts \/ Tick

\* Redis answers, is started again when it was stopped, and time passes; an
\* agent loop returns and a shutdown goes on to its end.
HeartbeatFairness ==
  /\ \A w \in Workers : /\ WF_hbVars(Reply(w))
                        /\ WF_hbVars(Start(w) \/ Exit(w))
                        /\ WF_hbVars(TimerFires(w))
  /\ \A r \in Runs : WF_hbVars(MarkIdle(r))
  /\ WF_hbVars(RedisStarts)
  /\ WF_hbVars(Tick)

HeartbeatSpec == HeartbeatInit /\ [][HeartbeatNext]_hbVars /\ HeartbeatFairness

-----------------------------------------------------------------------------
(* Properties. *)

\* A Redis that goes away delays what awaits a beat and never fails it: the
\* worker comes up, the handler goes on to its loop and to its ack, and the
\* shutdown ends.
OutageOnlyDelays ==
  /\ \A w \in Workers :
       /\ phase[w] \in {"boot", "starting"} ~> phase[w] \in {"up", "gone"}
       /\ phase[w] = "stopping" ~> phase[w] = "gone"
  /\ \A r \in Runs :
       /\ at[r] = "marking" ~> at[r] \in {"loop", "cut"}
       /\ at[r] = "idling" ~> at[r] \in {"settled", "cut"}

\* getWorkerStatuses: the members of the set whose key is there.
Shown == IF up THEN {w \in active : key[w] # None} ELSE {}

\* The panel tells the truth in the end: it shows the workers that are up and no
\* other, however a process went away and whichever of its beats were on the
\* way, and no run that its worker has settled.
PanelSettles ==
  <>[](/\ Shown = {w \in Workers : phase[w] = "up"}
       /\ \A w \in Shown :
            key[w].run = None \/ (on[key[w].run] = w /\ at[key[w].run] = "thrown"))
=============================================================================
