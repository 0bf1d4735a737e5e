------------------------------ MODULE WebTier ------------------------------
(***************************************************************************)
(* POST /runs as one web process serves it: the limiter, the insertion of  *)
(* the run and the publisher, whose connection to RabbitMQ is opened on    *)
(* demand and shared by every request that finds none.  Links are the      *)
(* connections the process has at a time, a closed one being dialled       *)
(* again; a link that is cut swallows what is sent until its heartbeat     *)
(* notices.                                                                *)
(* Source: backend/src/api/server.ts, lib/queue.ts, lib/createRun.ts.      *)
(***************************************************************************)
EXTENDS RateLimiter, FiniteSets

CONSTANTS
  Requests,  \* the POSTs
  KeyOf,     \* the address each comes from (req.ip)
  MaxLinks,  \* bound: connections open at a time
  MaxNow,    \* bound: the clock
  Faults     \* bound: how many faults of all kinds

ASSUME WebAssumption ==
  /\ KeyOf \in [Requests -> Keys]
  /\ MaxLinks \in Nat \ {0} /\ MaxNow \in Nat /\ Faults \in Nat
  /\ None \notin 1 .. MaxLinks

VARIABLES
  stage,       \* how far the handler of each request is, and what it answered
  doc,         \* the run's status in Mongo
  jobs,        \* jobs of the run in the queue
  serving,     \* main is past publisher.start()
  channel,     \* this.channel: the link whose channel it is
  connecting,  \* this.connecting: the link being dialled
  link,        \* how far each link is, "none" when it is closed
  cut,         \* links that no longer reach the broker
  up,          \* the broker runs
  left         \* faults that may still happen

publisher == <<channel, connecting, link>>
world == <<cut, up, left>>
web == <<limiter, stage, doc, jobs, serving, publisher, world>>

Links == 1 .. MaxLinks
Handling == {"create", "publish", "waiting"}
Answers == {"accepted", "limited", "unavailable"}  \* 202, 429, 503
Open == {"opened", "ready", "bare"}  \* the connection's handlers are attached

Waiting == {r \in Requests : stage[r] = "waiting"}
Undialled == {l \in Links : link[l] = "none"}
Usable(l) == up /\ l \notin cut

-----------------------------------------------------------------------------
(* Plausible bugs, named after the definitions they stand in for. *)

\* connecting is cleared only when the connection succeeds.
MutGiveUp(l, state) ==
  /\ link' = [link EXCEPT ![l] = state]
  /\ connecting' = connecting
  /\ serving' = TRUE
  /\ stage' = [r \in Requests |-> IF r \in Waiting THEN "unavailable" ELSE stage[r]]
  /\ UNCHANGED <<doc, jobs>>

\* A failed insertion is published all the same.
MutCreateFails(r) ==
  /\ left > 0
  /\ stage[r] = "create"
  /\ stage' = [stage EXCEPT ![r] = "publish"]
  /\ left' = left - 1
  /\ UNCHANGED <<limiter, doc, jobs, serving, publisher, cut, up>>

\* The connecting promise is rejected: every request that waits answers 503.
GiveUp(l, state) ==
  /\ link' = [link EXCEPT ![l] = state]
  /\ connecting' = None
  /\ serving' = TRUE
  /\ stage' = [r \in Requests |-> IF r \in Waiting THEN "unavailable" ELSE stage[r]]
  /\ UNCHANGED <<doc, jobs>>

\* The close handler clears this.conn only.
MutNotice(l) ==
  /\ link[l] \in Open
  /\ ~Usable(l)
  /\ \/ link[l] = "opened" /\ GiveUp(l, "none")
     \/ /\ link[l] # "opened"
        /\ link' = [link EXCEPT ![l] = "none"]
        /\ UNCHANGED <<stage, doc, jobs, serving, connecting>>
  /\ cut' = cut \ {l}
  /\ UNCHANGED <<limiter, channel, up, left>>

-----------------------------------------------------------------------------
(* The handler of POST /runs. *)

Post(r) ==
  /\ serving
  /\ stage[r] = "new"
  /\ \/ Admit(KeyOf[r]) /\ stage' = [stage EXCEPT ![r] = "create"]
     \/ Refuse(KeyOf[r]) /\ stage' = [stage EXCEPT ![r] = "limited"]
  /\ UNCHANGED <<doc, jobs, serving, publisher, world>>

Create(r) ==
  /\ stage[r] = "create"
  /\ stage' = [stage EXCEPT ![r] = "publish"]
  /\ doc' = [doc EXCEPT ![r] = "pending"]
  /\ UNCHANGED <<limiter, jobs, serving, publisher, world>>

\* insertOne throws, with or without its effect.
CreateFails(r) ==
  /\ left > 0
  /\ stage[r] = "create"
  /\ stage' = [stage EXCEPT ![r] = "unavailable"]
  /\ \E d \in {"none", "pending"} : doc' = [doc EXCEPT ![r] = d]
  /\ left' = left - 1
  /\ UNCHANGED <<limiter, jobs, serving, publisher, cut, up>>

\* sendToQueue of several requests: never confirmed, lost on a dead link, and
\* an exception on a channel that is closed.
Send(rs, l) ==
  LET thrown == link[l] \notin {"opened", "ready"} IN
  /\ jobs' = [r \in Requests |->
                IF r \in rs /\ ~thrown /\ Usable(l) THEN jobs[r] + 1 ELSE jobs[r]]
  /\ stage' = [r \in Requests |->
                 IF r \notin rs THEN stage[r]
                 ELSE IF thrown THEN "unavailable" ELSE "accepted"]

\* publish up to its await of ensure, which returns, joins or dials.
Publish(r) ==
  /\ stage[r] = "publish"
  /\ \/ /\ channel # None
        /\ Send({r}, channel)
        /\ UNCHANGED publisher
     \/ /\ channel = None
        /\ stage' = [stage EXCEPT ![r] = "waiting"]
        /\ \/ connecting # None /\ UNCHANGED <<link, connecting>>
           \/ /\ connecting = None
              /\ \E l \in Undialled :
                   /\ \A k \in Undialled : l <= k
                   /\ link' = [link EXCEPT ![l] = "dialing"]
                   /\ connecting' = l
        /\ UNCHANGED <<jobs, channel>>
  /\ UNCHANGED <<limiter, doc, serving, world>>

-----------------------------------------------------------------------------
(* The publisher's connection. *)

\* amqp.connect: the connection's handlers are attached.
Opened(l) ==
  /\ link[l] = "dialing"
  /\ Usable(l)
  /\ link' = [link EXCEPT ![l] = "opened"]
  /\ UNCHANGED <<limiter, stage, doc, jobs, serving, channel, connecting, world>>

DialFails(l) ==
  /\ link[l] = "dialing"
  /\ ~Usable(l)
  /\ GiveUp(l, "none")
  /\ UNCHANGED <<limiter, channel, world>>

\* createChannel and assertQueue have answered.
Declared(l) ==
  /\ link[l] = "opened"
  /\ Usable(l)
  /\ link' = [link EXCEPT ![l] = "ready"]
  /\ channel' = l
  /\ connecting' = None
  /\ serving' = TRUE
  /\ Send(Waiting, l)
  /\ UNCHANGED <<limiter, doc, world>>

\* One of them is refused: the connection stays open and nobody holds it.
DeclareFails(l) ==
  /\ left > 0
  /\ link[l] = "opened"
  /\ Usable(l)
  /\ GiveUp(l, "bare")
  /\ left' = left - 1
  /\ UNCHANGED <<limiter, channel, cut, up>>

\* The channel alone is closed.
ChannelCloses(l) ==
  /\ left > 0
  /\ link[l] = "ready"
  /\ Usable(l)
  /\ link' = [link EXCEPT ![l] = "bare"]
  /\ channel' = None
  /\ left' = left - 1
  /\ UNCHANGED <<limiter, stage, doc, jobs, serving, connecting, cut, up>>

\* A link that is dead emits close, whose handler clears the publisher's
\* channel whatever link that belongs to.
Notice(l) ==
  /\ link[l] \in Open
  /\ ~Usable(l)
  /\ channel' = None
  /\ \/ link[l] = "opened" /\ GiveUp(l, "none")
     \/ /\ link[l] # "opened"
        /\ link' = [link EXCEPT ![l] = "none"]
        /\ UNCHANGED <<stage, doc, jobs, serving, connecting>>
  /\ cut' = cut \ {l}
  /\ UNCHANGED <<limiter, up, left>>

-----------------------------------------------------------------------------
(* What the code does not control. *)

\* A broker that stops takes every connection with it.
BrokerStops ==
  /\ left > 0
  /\ up
  /\ up' = FALSE
  /\ cut' = cut \cup {l \in Links : link[l] \in Open}
  /\ left' = left - 1
  /\ UNCHANGED <<limiter, stage, doc, jobs, serving, publisher>>

BrokerStarts ==
  /\ ~up
  /\ up' = TRUE
  /\ UNCHANGED <<limiter, stage, doc, jobs, serving, publisher, cut, left>>

Cut(l) ==
  /\ left > 0
  /\ link[l] \in Open
  /\ Usable(l)
  /\ cut' = cut \cup {l}
  /\ left' = left - 1
  /\ UNCHANGED <<limiter, stage, doc, jobs, serving, publisher, up>>

\* The workers, which RunDispatch models: they take a job and end its run.
RunEnds(r) ==
  /\ up
  /\ jobs[r] > 0
  /\ \E s \in {"done", "failed"} : doc' = [doc EXCEPT ![r] = s]
  /\ jobs' = [jobs EXCEPT ![r] = @ - 1]
  /\ UNCHANGED <<limiter, stage, serving, publisher, world>>

Time ==
  /\ Cleanup \/ (now < MaxNow /\ Tick)
  /\ UNCHANGED <<stage, doc, jobs, serving, publisher, world>>

-----------------------------------------------------------------------------
\* main dials before it listens.
WebInit ==
  /\ LimiterInit
  /\ stage = [r \in Requests |-> "new"]
  /\ doc = [r \in Requests |-> "none"]
  /\ jobs = [r \in Requests |-> 0]
  /\ serving = FALSE
  /\ channel = None
  /\ connecting = 1
  /\ link = [l \in Links |-> IF l = 1 THEN "dialing" ELSE "none"]
  /\ cut = {}
  /\ up \in BOOLEAN
  /\ left = Faults

Handler(r) == Create(r) \/ CreateFails(r) \/ Publish(r)
Connection(l) ==
  \/ Opened(l) \/ DialFails(l) \/ Declared(l) \/ DeclareFails(l)
  \/ ChannelCloses(l) \/ Notice(l)
Outside ==
  \/ BrokerStops \/ BrokerStarts
  \/ \E l \in Links : Cut(l)
  \/ \E r \in Requests : RunEnds(r)
  \/ Time

WebSteps ==
  \/ \E r \in Requests : Handler(r)
  \/ \E l \in Links : Connection(l)
  \/ Outside
WebNext == WebSteps \/ \E r \in Requests : Post(r)

\* Mongo, RabbitMQ and the heartbeats answer in the end; a broker that was
\* stopped is started again; workers run.  A request takes finitely many of
\* these steps, so that fairness to all of them together is fairness to each.
WebProgress ==
  \/ \E r \in Requests : Handler(r) \/ RunEnds(r)
  \/ \E l \in Links :
       Opened(l) \/ DialFails(l) \/ Declared(l) \/ DeclareFails(l) \/ Notice(l)
  \/ BrokerStarts

WebSpec == WebInit /\ [][WebNext]_web /\ WF_web(WebProgress)

-----------------------------------------------------------------------------
(* Properties. *)

\* this.channel is always that of an open connection, so that sendToQueue does
\* not throw, and connecting is a dial that will still settle.
Held ==
  /\ channel # None => link[channel] = "ready" /\ connecting = None
  /\ connecting # None => link[connecting] \in {"dialing", "opened"}

\* Types, with what the publisher's two fields stand for.
WebTypeOK ==
  /\ LimiterTypeOK
  /\ stage \in [Requests -> {"new"} \cup Handling \cup Answers]
  /\ doc \in [Requests -> {"none", "pending", "done", "failed"}]
  /\ jobs \in [Requests -> Nat]
  /\ serving \in BOOLEAN
  /\ channel \in Links \cup {None}
  /\ connecting \in Links \cup {None}
  /\ link \in [Links -> Open \cup {"none", "dialing"}]
  /\ cut \subseteq Links
  /\ up \in BOOLEAN
  /\ left \in 0 .. Faults
  /\ Held

\* The answer tells the truth about the run: 202 is given only to a run that
\* was inserted, and a client that was told 429 or 503 has no job anywhere, so
\* that trying again does not run its message twice.
AnswersTrue ==
  \A r \in Requests :
    /\ stage[r] = "accepted" => doc[r] # "none"
    /\ stage[r] \in {"limited", "unavailable"} =>
         jobs[r] = 0 /\ doc[r] \in {"none", "pending"}
    /\ jobs[r] > 0 => doc[r] = "pending"

\* The publisher heals: once no more faults happen and the broker runs, no
\* request is answered 503 any more, whatever connections were lost, half
\* opened or leaked before; only those that wait for a dial already lost are.
Calm == up /\ left = 0 /\ connecting \notin cut
PublishHeals ==
  [][Calm => \A r \in Requests :
               stage[r] \in {"publish", "waiting"} => stage'[r] # "unavailable"]_web
=============================================================================
