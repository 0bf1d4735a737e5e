------------------------------ MODULE LoadTest -----------------------------
(***************************************************************************)
(* The load harness against the web tier: users that post one run, some a  *)
(* second one to the same thread, stream the first to its end, and a       *)
(* drain loop that then waits for all of them, records them and exports    *)
(* the report.                                                             *)
(* Source: backend/src/loadtest/harness.ts and metrics.ts.                 *)
(***************************************************************************)
EXTENDS WebTier

CONSTANTS
  Users,
  First,   \* the POST each user begins with
  Second   \* the one that may follow it (doSecond), or None

ASSUME LoadAssumption ==
  /\ First \in [Users -> Requests]
  /\ Second \in [Users -> Requests \cup {None}]

VARIABLES
  user,       \* where each user's task is
  allRunIds,  \* the POSTs whose answer was pushed, undefined runIds too
  recorded,   \* status in metrics.runs
  phase,      \* of main
  timedOut    \* the TIMEOUT line was printed

harness == <<user, allRunIds, recorded, phase, timedOut>>
load == <<web, harness>>

Owned == {First[u] : u \in Users} \cup {Second[u] : u \in Users}
Answered(r) == stage[r] \in Answers
Ended(r) == doc[r] \in {"done", "failed"}
\* postRun does not look at res.ok: a refused POST has runId undefined.
HasRunId(r) == stage[r] = "accepted"

-----------------------------------------------------------------------------
(* Plausible bugs, named after the definitions they stand in for. *)

\* POSTs without a runId are not counted.
MutPushed(r) == IF HasRunId(r) THEN allRunIds \cup {r} ELSE allRunIds

-----------------------------------------------------------------------------
Pushed(r) == allRunIds \cup {r}

\* postRun of one user.
UserPosts(u) ==
  /\ \/ user[u] = "first" /\ Post(First[u])
     \/ user[u] = "second" /\ Post(Second[u])
  /\ UNCHANGED harness

\* Its answer: markPublished and the push, then doSecond or the stream.
FirstAnswered(u) ==
  /\ user[u] = "first"
  /\ Answered(First[u])
  /\ allRunIds' = Pushed(First[u])
  /\ \/ Second[u] # None /\ user' = [user EXCEPT ![u] = "second"]
     \/ user' = [user EXCEPT ![u] = "streaming"]
  /\ UNCHANGED <<web, recorded, phase, timedOut>>

SecondAnswered(u) ==
  /\ user[u] = "second"
  /\ Answered(Second[u])
  /\ allRunIds' = Pushed(Second[u])
  /\ user' = [user EXCEPT ![u] = "streaming"]
  /\ UNCHANGED <<web, recorded, phase, timedOut>>

\* streamRun returns at the run's terminal event: the stream of a run that does
\* not exist never has one.
StreamEnds(u) ==
  /\ user[u] = "streaming"
  /\ HasRunId(First[u])
  /\ Ended(First[u])
  /\ user' = [user EXCEPT ![u] = "closed"]
  /\ UNCHANGED <<web, allRunIds, recorded, phase, timedOut>>

\* Promise.all of the users' tasks.
StartDraining ==
  /\ phase = "users"
  /\ \A u \in Users : user[u] = "closed"
  /\ phase' = "draining"
  /\ UNCHANGED <<web, user, allRunIds, recorded, timedOut>>

\* find by runId: an undefined one matches nothing.
Terminal == {r \in allRunIds : HasRunId(r) /\ Ended(r)}

\* markCompleted of the runs found terminal for the first time.
Record ==
  recorded' = [r \in Requests |->
                 IF r \in Terminal /\ recorded[r] = "none" THEN doc[r] ELSE recorded[r]]

\* The last round of the drain loop, and the export: all runs are over, or the
\* deadline has passed by then.
Drain ==
  /\ phase = "draining"
  /\ Record
  /\ \/ Cardinality(Terminal) >= Cardinality(allRunIds) /\ timedOut' = FALSE
     \/ timedOut' = TRUE
  /\ phase' = "exported"
  /\ UNCHANGED <<web, user, allRunIds>>

\* A round that finds runs still going and time left.
Sleep ==
  /\ phase = "draining"
  /\ Cardinality(Terminal) < Cardinality(allRunIds)
  /\ Record
  /\ UNCHANGED <<web, user, allRunIds, phase, timedOut>>

\* summary(): metrics.runs is a map, so that all undefined runIds are one entry.
TotalRuns ==
  Cardinality({r \in allRunIds : HasRunId(r)})
    + IF \E r \in allRunIds : ~HasRunId(r) THEN 1 ELSE 0
Completed == Cardinality({r \in allRunIds : recorded[r] = "done"})

-----------------------------------------------------------------------------
LoadInit ==
  /\ WebInit
  /\ user = [u \in Users |-> "first"]
  /\ allRunIds = {}
  /\ recorded = [r \in Requests |-> "none"]
  /\ phase = "users"
  /\ timedOut = FALSE

\* Other clients of the same web tier.
Others == \E r \in Requests \ Owned : Post(r)

User(u) == UserPosts(u) \/ FirstAnswered(u) \/ SecondAnswered(u) \/ StreamEnds(u)

LoadNext ==
  \/ (WebSteps \/ Others) /\ UNCHANGED harness
  \/ \E u \in Users : User(u)
  \/ StartDraining \/ Drain \/ Sleep

\* The harness is a program that runs on; its deadline passes.
LoadProgress ==
  \/ WebProgress /\ UNCHANGED harness
  \/ \E u \in Users : User(u)
  \/ StartDraining \/ Drain

LoadSpec == LoadInit /\ [][LoadNext]_load /\ WF_load(LoadProgress)

-----------------------------------------------------------------------------
(* Properties. *)

\* A report without a TIMEOUT line accounts for every POST of the test: each
\* was accepted, each run is over, and the report has it with its final status.
ReportIsComplete ==
  phase = "exported" /\ ~timedOut =>
    /\ TotalRuns = Cardinality(allRunIds)
    /\ Completed = Cardinality({r \in allRunIds : doc[r] = "done"})
    /\ \A r \in Owned \ {None} : stage[r] = "new" \/ r \in allRunIds
    /\ \A r \in allRunIds : HasRunId(r) /\ recorded[r] = doc[r]

\* The harness ends, whatever happens to second messages, unless some user's
\* first POST was refused or its job was lost on a dead connection: that user
\* streams for ever, and the deadline is looked at only after all users.
Stuck(u) ==
  /\ user[u] = "streaming"
  /\ HasRunId(First[u]) => doc[First[u]] = "pending" /\ jobs[First[u]] = 0
HarnessEnds == <>(phase = "exported" \/ \E u \in Users : Stuck(u))
=============================================================================
