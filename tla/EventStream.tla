----------------------------- MODULE EventStream -----------------------------
(***************************************************************************)
(* How the events of one run reach the chat page: the worker inserts each  *)
(* event in MongoDB and then pushes it to Redis, where it may be lost; the *)
(* SSE handler of the web tier combines a backfill, a live subscription and*)
(* a one-second poll behind one high-water mark; the page's EventSource    *)
(* reconnects and drops what it has already shown.  The client may also be *)
(* a script, the load harness or sseClient, that asks for what lies above  *)
(* the last seq it saw; and a page may be reloaded, which reads the whole  *)
(* conversation from MongoDB instead.                                      *)
(*                                                                         *)
(* How the log is produced is the subject of RunLoop; here one execution   *)
(* appends to it.  A handler whose client has gone is no longer modelled.  *)
(* Sources: backend/src/api/server.ts (GET /runs/:id/stream and            *)
(* /api/thread/:threadId), lib/redisPub.ts, lib/emitEvent.ts,              *)
(* frontend/app/page.tsx, loadtest/harness.ts, scripts/sseClient.ts.       *)
(***************************************************************************)
EXTENDS Integers, Sequences, FiniteSets, SequencesExt

CONSTANTS
  MaxSeq,  \* bound: the seqs a run hands out
  Budget   \* bound: how often each kind of fault happens

FaultKinds == {"redis",   \* Redis stops (and comes back)
               "net",     \* the connection between page and web tier breaks
               "mongo",   \* the backfill's query throws
               "reload"}  \* the user reloads the page

ASSUME StreamAssumption ==
  /\ MaxSeq \in Nat
  /\ Budget \in [FaultKinds -> Nat]

VARIABLES
  client,  \* "page" or "script"
  live,    \* REDIS_ENABLED=1: workers push their events to Redis
  log,     \* run_events: the events inserted for the run
  outbox,  \* inserted events that are on their way to Redis
  redis,   \* Redis is up
  conn,    \* the SSE handler of the page's current connection
  wire,    \* messages from Redis to the handler's subscriber
  pipe,    \* events the handler wrote that the page has not read
  finished, \* what the run document says: "done", "failed" or neither
  page,    \* what the client is at
  shown,   \* the events the client has applied, in order
  told,    \* what it said to a page that was loaded anew
  left     \* faults that may still happen

run == <<log, finished>>
reader == <<page, shown, told>>
vars == <<client, live, run, outbox, redis, conn, wire, pipe, reader, left>>

(* The events a run takes on its way are alike to the stream.                 *)
Types == {"step", "done", "failed", "cancelled"}
Endings == {"done", "failed", "cancelled"}
Closing == {"done", "failed"}  \* where a client closes its stream
Outcomes == {"no", "done", "failed"}
Events == [seq : 1 .. MaxSeq, type : Types]

(***************************************************************************)
(* The handler is at `pc`: "none" while the EventSource waits to retry,    *)
(* "backfill", "connect" and "subscribe" name the await it is in, "tail"   *)
(* is the state behind the last of them and "over" the one after cleanup.  *)
(* `sent` is sentSeq, `read` what the poll in flight has found (one poll   *)
(* at a time: a bound), `sub` the state of the Redis subscription.         *)
(***************************************************************************)
Handlers == [pc : {"none", "backfill", "connect", "subscribe", "tail", "over"},
             sent : 0 .. MaxSeq, sub : {"off", "on", "lost"},
             polling : BOOLEAN, read : SUBSET Events]

NoConn == [pc |-> "none", sent |-> 0, sub |-> "off", polling |-> FALSE,
           read |-> {}]

Spend(kind) == /\ left[kind] > 0
               /\ left' = [left EXCEPT ![kind] = @ - 1]

LastSeq(q) == IF q = << >> THEN 0 ELSE q[Len(q)].seq

-----------------------------------------------------------------------------
(* Plausible bugs, named after the definitions they stand in for when a     *)
(* property is tested for being able to fail.                               *)

Announced == {e \in log : e.type \in Endings}
Ended == Announced # {}

\* runLoop emits nothing behind an ending, except that its catch clause announces
\* a failure if finishRun threw; and nothing after a failure it did not store.
Emits(type) ==
  IF Ended THEN type = "failed" /\ Cardinality(Announced) = 1
           ELSE finished = "no"

\* The query sorts the newest event first.
MutSorted(S) == {q \in SetToSeqs(S) :
                   \A i, j \in DOMAIN q : i < j => q[i].seq > q[j].seq}

\* The counter is read as it was before the increment.
MutInsertBefore(type) ==
  /\ Emits(type)
  /\ page # "refused"
  /\ \E seq \in 0 .. MaxSeq :
       LET event == [seq |-> seq, type |-> type] IN
       /\ \A e \in log : e.seq < seq
       /\ log' = log \cup {event}
       /\ outbox' = IF live THEN Append(outbox, event) ELSE outbox
  /\ UNCHANGED <<client, live, finished, redis, conn, wire, pipe, reader, left>>

\* The event is pushed first, and its insert may fail.
MutInsertPushed(type) ==
  /\ Emits(type)
  /\ page # "refused"
  /\ \E seq \in 1 .. MaxSeq :
       LET event == [seq |-> seq, type |-> type] IN
       /\ \A e \in log : e.seq < seq
       /\ log' \in {log, log \cup {event}}
       /\ Len(outbox) < MaxSeq
       /\ outbox' = IF live THEN Append(outbox, event) ELSE outbox
  /\ UNCHANGED <<client, live, finished, redis, conn, wire, pipe, reader, left>>

\* No poll while the live subscription works.
MutPollRead ==
  /\ conn.pc = "tail"
  /\ ~conn.polling
  /\ conn.sub # "on"
  /\ conn' = [conn EXCEPT !.polling = TRUE,
                          !.read = {e \in log : e.seq > conn.sent}]
  /\ UNCHANGED <<client, live, run, outbox, redis, wire, pipe, reader, left>>

\* The page shows what it receives.
MutReceive ==
  /\ pipe # << >>
  /\ LET event == Head(pipe) IN
     /\ shown' = Append(shown, event)
     /\ page' = IF event.type \in Closing THEN "closed" ELSE page
     /\ pipe' = Tail(pipe)
  /\ UNCHANGED <<client, live, run, outbox, redis, conn, wire, told, left>>

\* The status is written before the ending is announced.
MutFinish ==
  /\ log # {}
  /\ finished = "no"
  /\ finished' \in {"done", "failed"}
  /\ UNCHANGED <<client, live, log, outbox, redis, conn, wire, pipe, reader, left>>

-----------------------------------------------------------------------------
(* Queries of the log. *)

\* The events of a query's result, sorted by seq.
Sorted(S) == {q \in SetToSeqs(S) :
                \A i, j \in DOMAIN q : i < j => q[i].seq < q[j].seq}

\* What a query for seq > mark finds.
Beyond(mark) == {e \in log : e.seq > mark}

-----------------------------------------------------------------------------
(* The worker and Redis. *)

\* emitEvent: the event is inserted, then handed to the Redis client.  A crash
\* or an error between reserving a seq and inserting leaves a gap; a POST that
\* was refused has no job.
Insert(type) ==
  /\ Emits(type)
  /\ page # "refused"
  /\ \E seq \in 1 .. MaxSeq :
       LET event == [seq |-> seq, type |-> type] IN
       /\ \A e \in log : e.seq < seq
       /\ log' = log \cup {event}
       /\ outbox' = IF live THEN Append(outbox, event) ELSE outbox
  /\ UNCHANGED <<client, live, finished, redis, conn, wire, pipe, reader, left>>

\* finishRun.  A run is done after run_done was stored.  It fails whether or not
\* its run_failed was stored (the error of that insert is dropped), and also
\* after finishRun threw behind an ending.
Finish ==
  /\ log # {}
  /\ \/ /\ finished = "no"
        /\ \E e \in log : e.type = "done"
        /\ finished' = "done"
     \/ /\ finished # "failed"
        /\ finished' = "failed"
  /\ UNCHANGED <<client, live, log, outbox, redis, conn, wire, pipe, reader, left>>

\* The publish reaches Redis, which passes it to the handler's subscriber if
\* there is one.
Publish ==
  /\ outbox # << >>
  /\ redis
  /\ outbox' = Tail(outbox)
  /\ wire' = IF conn.sub = "on" THEN Append(wire, Head(outbox)) ELSE wire
  /\ UNCHANGED <<client, live, run, redis, conn, pipe, reader, left>>

\* Redis is not ready, the publish fails, the worker dies before it: no error
\* reaches the loop and nothing is tried again.
PublishLost ==
  /\ outbox # << >>
  /\ outbox' = Tail(outbox)
  /\ UNCHANGED <<client, live, run, redis, conn, wire, pipe, reader, left>>

RedisStops ==
  /\ redis
  /\ Spend("redis")
  /\ redis' = FALSE
  /\ wire' = << >>
  /\ conn' = IF conn.sub = "on" \/ conn.pc = "subscribe"
             THEN [conn EXCEPT !.sub = "lost"] ELSE conn
  /\ UNCHANGED <<client, live, run, outbox, pipe, reader>>

RedisStarts ==
  /\ ~redis
  /\ redis' = TRUE
  /\ UNCHANGED <<client, live, run, outbox, conn, wire, pipe, reader, left>>

\* The client library reconnects and subscribes again.
Resubscribe ==
  /\ redis
  /\ conn.pc = "tail"
  /\ conn.sub = "lost"
  /\ conn' = [conn EXCEPT !.sub = "on"]
  /\ UNCHANGED <<client, live, run, outbox, redis, wire, pipe, reader, left>>

-----------------------------------------------------------------------------
(* GET /runs/:id/stream. *)

\* The EventSource connects, or retries two seconds after it was cut off; its
\* URL says lastSeq=0 each time.  A script names the last seq it saw.
LastSeen == IF client = "script" THEN LastSeq(shown) ELSE 0

Connect ==
  /\ page \in {"open", "last"}
  /\ conn.pc = "none"
  /\ conn' = [NoConn EXCEPT !.pc = "backfill", !.sent = LastSeen]
  /\ UNCHANGED <<client, live, run, outbox, redis, wire, pipe, reader, left>>

\* The handler writes the events of S by seq, skipping what its mark has passed,
\* and goes on as `next`.
Send(S, next) ==
  \E fresh \in Sorted({e \in S : e.seq > conn.sent}) :
    /\ pipe' = pipe \o fresh
    /\ conn' = [next EXCEPT !.sent = IF fresh = << >> THEN @ ELSE LastSeq(fresh)]

Backfill ==
  /\ conn.pc = "backfill"
  /\ Send(Beyond(conn.sent), [conn EXCEPT !.pc = "connect"])
  /\ UNCHANGED <<client, live, run, outbox, redis, wire, reader, left>>

\* MongoDB is unavailable: the handler says so and goes on.
BackfillFails ==
  /\ conn.pc = "backfill"
  /\ Spend("mongo")
  /\ conn' = [conn EXCEPT !.pc = "connect"]
  /\ UNCHANGED <<client, live, run, outbox, redis, wire, pipe, reader>>

\* sub.connect() retries until Redis answers.
SubConnect ==
  /\ conn.pc = "connect"
  /\ redis
  /\ conn' = [conn EXCEPT !.pc = "subscribe"]
  /\ UNCHANGED <<client, live, run, outbox, redis, wire, pipe, reader, left>>

Subscribe ==
  /\ conn.pc = "subscribe"
  /\ conn.sub = "off"
  /\ conn' = [conn EXCEPT !.pc = "tail", !.sub = "on"]
  /\ UNCHANGED <<client, live, run, outbox, redis, wire, pipe, reader, left>>

\* Redis went away under the subscribe command: the poll is all there is.
SubscribeFails ==
  /\ conn.pc = "subscribe"
  /\ conn.sub = "lost"
  /\ conn' = [conn EXCEPT !.pc = "tail", !.sub = "off"]
  /\ UNCHANGED <<client, live, run, outbox, redis, wire, pipe, reader, left>>

\* The live tail.
Live ==
  /\ conn.pc = "tail"
  /\ wire # << >>
  /\ wire' = Tail(wire)
  /\ Send({Head(wire)}, conn)
  /\ UNCHANGED <<client, live, run, outbox, redis, reader, left>>

\* The interval fires and the query is under way; live events may be sent
\* before it returns.  An error of the query leaves everything as it is.
PollRead ==
  /\ conn.pc = "tail"
  /\ ~conn.polling
  /\ conn' = [conn EXCEPT !.polling = TRUE, !.read = Beyond(conn.sent)]
  /\ UNCHANGED <<client, live, run, outbox, redis, wire, pipe, reader, left>>

\* The poll's result is sent; if the poll itself found the ending, cleanup
\* unsubscribes and ends the response.
Polled(handler) ==
  [handler EXCEPT !.polling = FALSE, !.read = {},
     !.pc = IF \E e \in handler.read : e.type \in Endings THEN "over" ELSE "tail",
     !.sub = IF \E e \in handler.read : e.type \in Endings THEN "off" ELSE @]

PollReturn ==
  /\ conn.pc = "tail"
  /\ conn.polling
  /\ Send(conn.read, Polled(conn))
  /\ wire' = IF Polled(conn).pc = "over" THEN << >> ELSE wire
  /\ UNCHANGED <<client, live, run, outbox, redis, reader, left>>

-----------------------------------------------------------------------------
(* The clients. *)

CutOff == conn' = NoConn /\ wire' = << >> /\ pipe' = << >>

\* The response ends or breaks: the page's EventSource retries, a script asks
\* again once if it is told to.
HungUp ==
  IF client = "page" THEN page ELSE IF page = "open" THEN "last" ELSE "gone"
Disconnected == CutOff /\ page' = HungUp

\* send: POST /runs is accepted and the page opens the stream, or it is refused
\* and the message says so.
Sent ==
  /\ page = "sending"
  /\ \/ page' = "open"
     \/ page' = "refused" /\ log = {}
  /\ UNCHANGED <<client, live, run, outbox, redis, conn, wire, pipe, shown, told,
                 left>>

\* The page has no listener for run_cancelled.
Listened(event) == client = "script" \/ event.type # "cancelled"

\* onEvent of the page drops what is not above the last seq shown; a script
\* takes every event it gets.
Applies(event) ==
  Listened(event) /\ (client = "script" \/ event.seq > LastSeq(shown))

\* The client reads an event, and closes the stream on the run's end; a script
\* may have meant to drop the connection here.
Receive ==
  /\ pipe # << >>
  /\ LET event == Head(pipe) IN
     /\ shown' = IF Applies(event) THEN Append(shown, event) ELSE shown
     /\ \/ event.type \in Closing /\ page' = "closed" /\ CutOff
        \/ /\ event.type \notin Closing
           /\ pipe' = Tail(pipe)
           /\ UNCHANGED <<page, conn, wire>>
        \/ /\ event.type \notin Closing
           /\ client = "script" /\ page = "open"
           /\ Disconnected
  /\ UNCHANGED <<client, live, run, outbox, redis, told, left>>

\* The response has ended.
ResponseEnds ==
  /\ conn.pc = "over"
  /\ pipe = << >>
  /\ Disconnected
  /\ UNCHANGED <<client, live, run, outbox, redis, shown, told, left>>

\* The network or the web tier fails under the connection, or under the attempt
\* at one; what was written and not read is lost.  An EventSource whose attempt
\* the proxy answers with an error status is closed for good: the page only
\* logs that it reconnects.
ConnectionBreaks ==
  /\ page \in {"open", "last"}
  /\ Spend("net")
  /\ CutOff
  /\ page' \in {HungUp} \cup (IF client = "page" THEN {"dead"} ELSE {})
  /\ UNCHANGED <<client, live, run, outbox, redis, shown, told>>

\* The page is loaded anew: /api/thread/:threadId reads the run's document ...
Reload ==
  /\ client = "page"
  /\ page \in {"sending", "open", "closed", "dead"}
  /\ Spend("reload")
  /\ CutOff
  /\ page' = "loading"
  /\ shown' = << >>
  /\ told' = finished
  /\ UNCHANGED <<client, live, run, outbox, redis>>

\* ... and then its events: the steps, and the reply from run_done.  A failure is
\* shown from the status.  No stream is opened for a run that is still going.
Restore ==
  /\ page = "loading"
  /\ page' = "restored"
  /\ shown' \in Sorted({e \in log : e.type \in {"step", "done"}})
  /\ UNCHANGED <<client, live, run, outbox, redis, conn, wire, pipe, told, left>>

-----------------------------------------------------------------------------
Init ==
  /\ client \in {"page", "script"}
  /\ live \in BOOLEAN
  /\ log = {}
  /\ finished = "no"
  /\ outbox = << >>
  /\ redis = TRUE
  /\ conn = NoConn
  /\ wire = << >>
  /\ pipe = << >>
  /\ page \in IF client = "page" THEN {"sending"} ELSE {"open", "last"}
  /\ shown = << >>
  /\ told = "no"
  /\ left = Budget

Worker == \/ \E type \in Types : Insert(type)
          \/ Finish \/ Publish \/ PublishLost

\* The awaits of the handler that return, and its interval.
Handler == \/ Backfill \/ SubConnect \/ Subscribe \/ SubscribeFails
           \/ PollRead \/ PollReturn

Client == Sent \/ Connect \/ Receive \/ ResponseEnds \/ Restore

Next == \/ Worker \/ Handler \/ Client \/ Live \/ Resubscribe
        \/ RedisStops \/ RedisStarts \/ BackfillFails \/ ConnectionBreaks \/ Reload

Spec == Init /\ [][Next]_vars

\* Queries and subscriptions return, the interval fires, the browser reads and
\* retries.  Nothing is owed by the worker, and a Redis that stopped may stay away.
FairSpec == Spec /\ WF_vars(Handler) /\ WF_vars(Client)

-----------------------------------------------------------------------------
(* Properties. *)

TypeOK ==
  /\ client \in {"page", "script"}
  /\ live \in BOOLEAN
  /\ log \in SUBSET Events
  /\ finished \in Outcomes
  /\ outbox \in Seq(Events)
  /\ redis \in BOOLEAN
  /\ conn \in Handlers
  /\ wire \in Seq(Events)
  /\ pipe \in Seq(Events)
  /\ page \in IF client = "page"
               THEN {"sending", "refused", "open", "closed", "dead", "loading",
                     "restored"}
               ELSE {"open", "last", "closed", "gone"}
  /\ shown \in Seq(Events)
  /\ told \in Outcomes
  /\ left \in [FaultKinds -> Nat]

Increasing(q) == \A i, j \in DOMAIN q : i < j => q[i].seq < q[j].seq

\* The client has each event of the run at most once and in the order of the
\* log, although three sources write to one connection, a reconnection of the
\* page starts again from the first event, and a script drops nothing itself.
ShownInOrder == Increasing(shown)

\* What a user sees is durable: nothing is pushed, sent or shown before it is
\* in the log (emitEvent inserts first).
Everywhere == ToSet(outbox) \cup ToSet(wire) \cup ToSet(pipe) \cup ToSet(shown)
Durable == Everywhere \subseteq log

\* No event below the last one shown is missing from what the client has shown.
\* With live push the code does not keep it: a live event raises the mark over
\* events not yet sent.
NothingSkipped ==
  \A e \in log : e.seq <= LastSeq(shown) /\ Listened(e) => e \in ToSet(shown)

\* The fallback alone is complete: while workers push nothing, whatever breaks,
\* the page shows the log without a hole.
FallbackIsComplete == ~live => NothingSkipped

\* A page that is loaded anew and says that a run is done has its ending, and
\* with it the reply: the status is read before the events.
RestoredWhole ==
  page = "restored" /\ told = "done" => \E e \in ToSet(shown) : e.type = "done"

\* The client has closed its stream on the run's end, or no longer follows it: it
\* was loaded anew, its EventSource was closed for good, or the script has used
\* up its reconnection.
Settled == page \in {"closed", "restored", "dead", "gone"}

\* "Reliable Mongo poll fallback (covers Redis down / dropped publish)"
\* (server.ts): a client learns that its run is done or has failed, whatever was
\* lost and whether or not Redis is there.  The code does not keep it: the poll
\* is set up behind sub.connect().
PollCoversRedisDown == (\E e \in log : e.type \in Closing) ~> Settled

\* What it does keep: the client learns it whatever else breaks, for as long as
\* its handler does not wait for a Redis that never comes back.
EndIsShown == PollCoversRedisDown \/ <>[](conn.pc = "connect" /\ ~redis)
=============================================================================
