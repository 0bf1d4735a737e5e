--------------------------- MODULE WebTierProofs ---------------------------
(***************************************************************************)
(* Theorems about WebTier and LoadTest, for any requests, addresses,       *)
(* limits, links, users and faults.  The limiter keeps its promises inside *)
(* the web tier because every step of the web tier is a step of the limiter*)
(* or leaves it alone; the answers are true by an invariant that follows a *)
(* request's document and its job through the handler's stages; the        *)
(* publisher heals because only one dial is ever under way, the one its    *)
(* requests wait for; and the harness's report is complete because a run's *)
(* end, once recorded, stays.                                              *)
(***************************************************************************)
EXTENDS LoadTest, RateLimiterProofs, FiniteSetTheorems

\* What is in Mongo and in the queue of a request at each stage.
Followed(r) ==
  /\ stage[r] \in {"new", "create", "limited"} => doc[r] = "none" /\ jobs[r] = 0
  /\ stage[r] \in {"publish", "waiting"} => doc[r] = "pending" /\ jobs[r] = 0
  /\ stage[r] = "unavailable" => doc[r] \in {"none", "pending"} /\ jobs[r] = 0
  /\ stage[r] = "accepted" => /\ doc[r] # "none"
                              /\ jobs[r] \in {0, 1}
                              /\ jobs[r] = 1 => doc[r] = "pending"

WebInv == WebTypeOK /\ \A r \in Requests : Followed(r)

LEMMA LinkNumbers == None \notin Links
BY WebAssumption DEF Links

-----------------------------------------------------------------------------
(* The limiter. *)

LEMMA LimiterGoesOn == WebNext => [LimiterNext]_limiter
<1> SUFFICES ASSUME WebNext PROVE LimiterNext \/ UNCHANGED limiter
  OBVIOUS
<1>1. ASSUME NEW r \in Requests, Post(r) PROVE LimiterNext
  BY <1>1, WebAssumption DEF Post, LimiterNext
<1>2. CASE Time
  BY <1>2 DEF Time, LimiterNext
<1>3. ASSUME NEW r \in Requests, Handler(r) \/ RunEnds(r) PROVE UNCHANGED limiter
  BY <1>3 DEF Handler, Create, CreateFails, Publish, RunEnds
<1>4. ASSUME NEW l \in Links, Connection(l) \/ Cut(l) PROVE UNCHANGED limiter
  BY <1>4 DEF Connection, Opened, DialFails, Declared, DeclareFails, ChannelCloses,
              Notice, Cut
<1>5. CASE BrokerStops \/ BrokerStarts
  BY <1>5 DEF BrokerStops, BrokerStarts
<1> QED BY <1>1, <1>2, <1>3, <1>4, <1>5 DEF WebNext, WebSteps, Outside

\* The web tier uses the limiter as the limiter is specified.
THEOREM UsesTheLimiter == WebSpec => LimiterSpec
<1>1. WebInit => LimiterInit
  BY DEF WebInit
<1>2. [WebNext]_web => [LimiterNext]_limiter
  <2>1. UNCHANGED web => UNCHANGED limiter
    BY DEF web
  <2> QED BY <2>1, LimiterGoesOn
<1> QED BY <1>1, <1>2, PTL DEF WebSpec, LimiterSpec

\* Through POST /runs as through check alone, no address gets more than twice
\* the limit within windowMs, whatever its requests wait for behind the limiter.
THEOREM AtMostTwiceThroughTheWeb == WebSpec => []AtMostTwice
BY UsesTheLimiter, AtMostTwiceTheLimit, PTL

-----------------------------------------------------------------------------
(* The publisher and the answers. *)

\* What every step keeps as it is can be read off its UNCHANGED; what it may
\* change is stage, doc and jobs of requests and the publisher's fields.
PublisherOK ==
  /\ channel \in Links \cup {None}
  /\ connecting \in Links \cup {None}
  /\ link \in [Links -> Open \cup {"none", "dialing"}]
  /\ Held

RequestsOK ==
  /\ stage \in [Requests -> {"new"} \cup Handling \cup Answers]
  /\ doc \in [Requests -> {"none", "pending", "done", "failed"}]
  /\ jobs \in [Requests -> Nat]
  /\ \A r \in Requests : Followed(r)

WorldOK ==
  /\ serving \in BOOLEAN
  /\ cut \subseteq Links
  /\ up \in BOOLEAN
  /\ left \in 0 .. Faults

LEMMA WebParts ==
  /\ WebInv <=> LimiterTypeOK /\ PublisherOK /\ RequestsOK /\ WorldOK
  /\ WebInv' <=> LimiterTypeOK' /\ PublisherOK' /\ RequestsOK' /\ WorldOK'
BY DEF WebInv, WebTypeOK, PublisherOK, RequestsOK, WorldOK

LEMMA LimiterTyped ==
  ASSUME LimiterTypeOK, [LimiterNext]_limiter
  PROVE  LimiterTypeOK'
<1>1. ASSUME NEW k \in Keys, Admit(k) \/ Refuse(k) PROVE LimiterTypeOK'
  <2>1. now \in Nat /\ now' = now
    BY <1>1 DEF LimiterTypeOK, Admit, Refuse
  <2>2. admitted' \in [Keys -> Seq(Nat)]
    <3>1. CASE Admit(k)
      <4>1. Append(admitted[k], now) \in Seq(Nat)
        BY <2>1 DEF LimiterTypeOK
      <4> QED BY <3>1, <4>1 DEF LimiterTypeOK, Admit
    <3>2. CASE Refuse(k)
      BY <3>2 DEF LimiterTypeOK, Refuse
    <3> QED BY <1>1, <3>1, <3>2
  <2>3. windows' \in [Keys -> Windows \cup {None}]
    <3>1. [count |-> 1, startedAt |-> now] \in Windows
      BY <2>1 DEF Windows
    <3>2. ASSUME ~Fresh(k) PROVE Counted(k) \in Windows
      <4>1. PICK w \in Windows : w = windows[k]
        BY <3>2 DEF LimiterTypeOK, Fresh
      <4>2. Counted(k) = [w EXCEPT !.count = w.count + 1]
        BY <4>1 DEF Counted
      <4>3. w.count + 1 \in Nat \ {0}
        BY DEF Windows
      <4> QED BY <4>2, <4>3 DEF Windows
    <3> QED BY <1>1, <3>1, <3>2 DEF LimiterTypeOK, Admit, Refuse
  <2> QED BY <2>1, <2>2, <2>3 DEF LimiterTypeOK
<1>2. CASE Cleanup
  BY <1>2 DEF LimiterTypeOK, Cleanup
<1>3. CASE Tick
  BY <1>3 DEF LimiterTypeOK, Tick
<1>4. CASE UNCHANGED limiter
  BY <1>4 DEF LimiterTypeOK, limiter
<1> QED BY <1>1, <1>2, <1>3, <1>4 DEF LimiterNext

LEMMA WebStarts == WebInit => WebInv
<1> SUFFICES ASSUME WebInit PROVE WebInv
  OBVIOUS
<1>1. LimiterTypeOK
  BY LimiterStarts DEF WebInit, LimiterInv
<1>2. RequestsOK
  BY DEF WebInit, RequestsOK, Followed
<1>3. PublisherOK
  <2>1. 1 \in Links
    BY WebAssumption DEF Links
  <2>2. /\ channel = None /\ connecting = 1 /\ connecting # None
        /\ link[1] = "dialing"
    BY <2>1, LinkNumbers DEF WebInit
  <2>3. link \in [Links -> Open \cup {"none", "dialing"}]
    BY DEF WebInit
  <2> QED BY <2>1, <2>2, <2>3 DEF PublisherOK, Held
<1>4. WorldOK
  <2>1. left \in 0 .. Faults
    BY WebAssumption DEF WebInit
  <2>2. serving \in BOOLEAN /\ cut \subseteq Links /\ up \in BOOLEAN
    BY DEF WebInit
  <2> QED BY <2>1, <2>2 DEF WorldOK
<1> QED BY <1>1, <1>2, <1>3, <1>4, WebParts

\* A request that moves alone.
LEMMA OneRequest ==
  ASSUME RequestsOK, NEW r \in Requests,
         NEW s \in {"new"} \cup Handling \cup Answers,
         NEW d \in {"none", "pending", "done", "failed"}, NEW n \in Nat,
         stage' = [stage EXCEPT ![r] = s], doc' = [doc EXCEPT ![r] = d],
         jobs' = [jobs EXCEPT ![r] = n],
         /\ s \in {"new", "create", "limited"} => d = "none" /\ n = 0
         /\ s \in {"publish", "waiting"} => d = "pending" /\ n = 0
         /\ s = "unavailable" => d \in {"none", "pending"} /\ n = 0
         /\ s = "accepted" => d # "none" /\ n \in {0, 1} /\ (n = 1 => d = "pending")
  PROVE  RequestsOK'
BY DEF RequestsOK, Followed

\* Requests that wait are given up.
LEMMA GivenUp ==
  ASSUME RequestsOK, NEW l \in Links, NEW state, GiveUp(l, state)
  PROVE  RequestsOK' /\ serving' = TRUE
BY DEF RequestsOK, Followed, GiveUp, Waiting, Answers

\* Requests that are about to publish are sent.
LEMMA Sends ==
  ASSUME RequestsOK, NEW rs \in SUBSET Requests, NEW l \in Links, Send(rs, l),
         \A r \in rs : stage[r] \in {"publish", "waiting"}, UNCHANGED doc
  PROVE  RequestsOK'
<1>1. \A r \in rs : doc[r] = "pending" /\ jobs[r] = 0
  BY DEF RequestsOK, Followed
<1>2. /\ \A r \in Requests : r \notin rs => stage'[r] = stage[r] /\ jobs'[r] = jobs[r]
      /\ \A r \in rs : \/ stage'[r] = "unavailable" /\ jobs'[r] = 0
                       \/ stage'[r] = "accepted" /\ jobs'[r] \in {0, 1}
  BY <1>1 DEF Send, RequestsOK
<1>3. /\ stage' \in [Requests -> {"new"} \cup Handling \cup Answers]
      /\ jobs' \in [Requests -> Nat]
  <2>1. DOMAIN stage' = Requests /\ stage' = [r \in Requests |-> stage'[r]]
    BY DEF Send
  <2>2. DOMAIN jobs' = Requests /\ jobs' = [r \in Requests |-> jobs'[r]]
    BY DEF Send
  <2>3. \A r \in Requests : /\ stage'[r] \in {"new"} \cup Handling \cup Answers
                            /\ jobs'[r] \in Nat
    BY <1>2 DEF RequestsOK, Answers
  <2> QED BY <2>1, <2>2, <2>3
<1>4. \A r \in Requests : Followed(r)'
  BY <1>1, <1>2 DEF RequestsOK, Followed
<1> QED BY <1>3, <1>4 DEF RequestsOK

LEMMA HandlerStep ==
  ASSUME WebInv, NEW r \in Requests, Post(r) \/ Handler(r)
  PROVE  PublisherOK' /\ RequestsOK' /\ WorldOK'
<1> USE WebParts
<1>1. CASE Post(r)
  <2>1. RequestsOK'
    BY <1>1, OneRequest DEF Post, RequestsOK, Followed, Handling, Answers
  <2> QED BY <1>1, <2>1 DEF Post, publisher, world, PublisherOK, WorldOK, Held
<1>2. CASE Create(r)
  <2>1. RequestsOK'
    BY <1>2, OneRequest DEF Create, RequestsOK, Followed, Handling
  <2> QED BY <1>2, <2>1 DEF Create, publisher, world, PublisherOK, WorldOK, Held
<1>3. CASE CreateFails(r)
  <2>1. RequestsOK'
    BY <1>3, OneRequest DEF CreateFails, RequestsOK, Followed, Answers
  <2>2. left' \in 0 .. Faults
    BY <1>3, WebAssumption DEF CreateFails, WorldOK
  <2> QED BY <1>3, <2>1, <2>2 DEF CreateFails, publisher, PublisherOK, WorldOK, Held
<1>4. CASE Publish(r)
  <2>1. CASE channel # None
    <3>1. Send({r}, channel) /\ UNCHANGED publisher /\ UNCHANGED doc
      BY <1>4, <2>1 DEF Publish
    <3>2. channel \in Links
      BY <2>1 DEF PublisherOK
    <3>3. RequestsOK'
      BY <1>4, <3>1, <3>2, Sends DEF Publish
    <3> QED BY <1>4, <3>1, <3>3 DEF Publish, publisher, world, PublisherOK, WorldOK, Held
  <2>2. CASE channel = None
    <3>1. RequestsOK'
      BY <1>4, <2>2, OneRequest DEF Publish, RequestsOK, Followed, Handling
    <3>2. PublisherOK'
      <4>1. CASE connecting # None
        BY <1>4, <2>2, <4>1 DEF Publish, PublisherOK, Held
      <4>2. CASE connecting = None
        <5>1. PICK l \in Links : /\ link' = [link EXCEPT ![l] = "dialing"]
                                 /\ connecting' = l
                                 /\ channel' = None
          BY <1>4, <2>2, <4>2 DEF Publish, Undialled
        <5> QED BY <5>1 DEF PublisherOK, Held
      <4> QED BY <4>1, <4>2
    <3> QED BY <1>4, <3>1, <3>2 DEF Publish, world, WorldOK
  <2> QED BY <2>1, <2>2
<1> QED BY <1>1, <1>2, <1>3, <1>4 DEF Handler

LEMMA ConnectionStep ==
  ASSUME WebInv, NEW l \in Links, Connection(l)
  PROVE  PublisherOK' /\ RequestsOK' /\ WorldOK'
<1> USE WebParts, LinkNumbers
<1>1. CASE Opened(l)
  BY <1>1 DEF Opened, world, PublisherOK, Held, Open, RequestsOK, Followed, WorldOK
<1>2. CASE DialFails(l)
  <2>1. RequestsOK' /\ serving' = TRUE
    BY <1>2, GivenUp DEF DialFails
  <2>2. PublisherOK'
    BY <1>2 DEF DialFails, GiveUp, PublisherOK, Held, Open
  <2> QED BY <1>2, <2>1, <2>2 DEF DialFails, world, WorldOK
<1>3. CASE Declared(l)
  <2>1. RequestsOK'
    <3>1. Waiting \subseteq Requests /\ \A r \in Waiting : stage[r] = "waiting"
      BY DEF Waiting
    <3> QED BY <1>3, <3>1, Sends DEF Declared
  <2>2. PublisherOK'
    BY <1>3 DEF Declared, PublisherOK, Held, Open
  <2> QED BY <1>3, <2>1, <2>2 DEF Declared, world, WorldOK
<1>4. CASE DeclareFails(l)
  <2>1. RequestsOK' /\ serving' = TRUE
    BY <1>4, GivenUp DEF DeclareFails
  <2>2. PublisherOK'
    BY <1>4 DEF DeclareFails, GiveUp, PublisherOK, Held, Open
  <2>3. left' \in 0 .. Faults
    BY <1>4, WebAssumption DEF DeclareFails, WorldOK
  <2> QED BY <1>4, <2>1, <2>2, <2>3 DEF DeclareFails, WorldOK
<1>5. CASE ChannelCloses(l)
  <2>1. left' \in 0 .. Faults
    BY <1>5, WebAssumption DEF ChannelCloses, WorldOK
  <2>2. PublisherOK'
    BY <1>5 DEF ChannelCloses, PublisherOK, Held, Open
  <2> QED BY <1>5, <2>1, <2>2 DEF ChannelCloses, RequestsOK, Followed, WorldOK
<1>6. CASE Notice(l)
  <2>1. PublisherOK'
    BY <1>6 DEF Notice, GiveUp, PublisherOK, Held, Open
  <2>2. RequestsOK' /\ serving' \in BOOLEAN
    <3>1. CASE GiveUp(l, "none")
      BY <3>1, GivenUp
    <3>2. CASE UNCHANGED <<stage, doc, jobs, serving>>
      BY <3>2 DEF RequestsOK, Followed, WorldOK
    <3> QED BY <1>6, <3>1, <3>2 DEF Notice
  <2> QED BY <1>6, <2>1, <2>2 DEF Notice, WorldOK
<1> QED BY <1>1, <1>2, <1>3, <1>4, <1>5, <1>6 DEF Connection

LEMMA OutsideStep ==
  ASSUME WebInv, Outside
  PROVE  PublisherOK' /\ RequestsOK' /\ WorldOK'
<1> USE WebParts
<1>1. CASE BrokerStops \/ \E l \in Links : Cut(l)
  <2>1. left' \in 0 .. Faults
    BY <1>1, WebAssumption DEF BrokerStops, Cut, WorldOK
  <2>2. cut' \subseteq Links /\ up' \in BOOLEAN
    BY <1>1 DEF BrokerStops, Cut, WorldOK
  <2>3. UNCHANGED <<stage, doc, jobs, serving, publisher>>
    BY <1>1 DEF BrokerStops, Cut
  <2> QED BY <2>1, <2>2, <2>3
      DEF publisher, PublisherOK, Held, RequestsOK, Followed, WorldOK
<1>2. CASE BrokerStarts
  BY <1>2 DEF BrokerStarts, publisher, PublisherOK, Held, RequestsOK, Followed, WorldOK
<1>3. CASE Time
  BY <1>3 DEF Time, publisher, world, PublisherOK, Held, RequestsOK, Followed, WorldOK
<1>4. ASSUME NEW r \in Requests, RunEnds(r)
      PROVE  PublisherOK' /\ RequestsOK' /\ WorldOK'
  <2>1. stage[r] = "accepted" /\ jobs[r] = 1
    BY <1>4 DEF RunEnds, RequestsOK, Followed, Handling, Answers
  <2>2. PICK d \in {"done", "failed"} : doc' = [doc EXCEPT ![r] = d]
    BY <1>4 DEF RunEnds
  <2>3. jobs' = [jobs EXCEPT ![r] = 0]
    BY <1>4, <2>1 DEF RunEnds, RequestsOK
  <2>4. stage' = [stage EXCEPT ![r] = "accepted"]
    BY <1>4, <2>1 DEF RunEnds, RequestsOK
  <2>5. /\ RequestsOK
        /\ d \in {"none", "pending", "done", "failed"} /\ d # "none"
        /\ "accepted" \in {"new"} \cup Handling \cup Answers
    BY DEF Answers
  <2>6. RequestsOK'
    BY <2>2, <2>3, <2>4, <2>5 DEF RequestsOK, Followed
  <2> QED BY <1>4, <2>6 DEF RunEnds, publisher, world, PublisherOK, Held, WorldOK
<1> QED BY <1>1, <1>2, <1>3, <1>4 DEF Outside

LEMMA WebStep == WebInv /\ [WebNext]_web => WebInv'
<1> SUFFICES ASSUME WebInv, [WebNext]_web PROVE WebInv'
  OBVIOUS
<1>1. CASE WebNext
  <2>1. LimiterTypeOK'
    BY <1>1, LimiterGoesOn, LimiterTyped, WebParts
  <2>2. PublisherOK' /\ RequestsOK' /\ WorldOK'
    BY <1>1, HandlerStep, ConnectionStep, OutsideStep DEF WebNext, WebSteps
  <2> QED BY <2>1, <2>2, WebParts
<1>2. CASE UNCHANGED web
  BY <1>2 DEF web, limiter, publisher, world, WebInv, WebTypeOK, LimiterTypeOK, Held,
              Followed
<1> QED BY <1>1, <1>2

LEMMA WebInvariant == WebSpec => []WebInv
BY WebStarts, WebStep, PTL DEF WebSpec

\* The web tier's state keeps its types; the publisher's channel is that of an
\* open connection and its shared promise a dial that will still settle.
THEOREM WebTypes == WebSpec => []WebTypeOK
BY WebInvariant, PTL DEF WebInv

\* The answer of POST /runs is true of the run, through any number of refused,
\* cut, half opened and shared connections and failed insertions.
THEOREM AnswersAreTrue == WebSpec => []AnswersTrue
<1>1. WebInv => AnswersTrue
  BY WebParts DEF AnswersTrue, RequestsOK, Followed, Handling, Answers
<1> QED BY <1>1, WebInvariant, PTL

-----------------------------------------------------------------------------
(* The publisher heals.  A request is answered 503 by a failed insertion, by *)
(* a channel that is closed, or by the dial it waits for.  The first and a   *)
(* refused channel are faults; the second Held excludes; and the dial that   *)
(* is lost is always the one connecting stands for, because no other is ever *)
(* under way.                                                                *)

\* A dial under way is the one that requests wait for.
OneDial == \A l \in Links : link[l] \in {"dialing", "opened"} => connecting = l

LEMMA DialStarts == WebInit => OneDial
BY DEF WebInit, OneDial

LEMMA DialKept ==
  ASSUME WebInv, OneDial, [WebNext]_web
  PROVE  OneDial'
<1> USE WebParts, LinkNumbers
<1>1. CASE UNCHANGED publisher
  BY <1>1 DEF publisher, OneDial
<1>2. ASSUME NEW l \in Links, NEW state \in {"none", "bare"}, GiveUp(l, state)
      PROVE  link[l] \in {"dialing", "opened"} => OneDial'
  BY <1>2 DEF GiveUp, OneDial, PublisherOK
<1>3. ASSUME NEW r \in Requests, Publish(r) PROVE OneDial'
  <2>1. CASE channel # None \/ connecting # None
    BY <1>1, <1>3, <2>1 DEF Publish, publisher
  <2>2. CASE channel = None /\ connecting = None
    <3>1. PICK l \in Links : link' = [link EXCEPT ![l] = "dialing"] /\ connecting' = l
      BY <1>3, <2>2 DEF Publish, Undialled
    <3> QED BY <2>2, <3>1 DEF OneDial, PublisherOK
  <2> QED BY <2>1, <2>2
<1>4. ASSUME NEW l \in Links, Connection(l) PROVE OneDial'
  <2>1. CASE Opened(l)
    BY <2>1 DEF Opened, OneDial, PublisherOK
  <2>2. CASE DialFails(l) \/ DeclareFails(l)
    BY <1>2, <2>2 DEF DialFails, DeclareFails
  <2>3. CASE Declared(l)
    BY <2>3 DEF Declared, OneDial, PublisherOK
  <2>4. CASE ChannelCloses(l)
    BY <2>4 DEF ChannelCloses, OneDial, PublisherOK
  <2>5. CASE Notice(l)
    <3>1. CASE link[l] = "opened"
      BY <1>2, <2>5, <3>1 DEF Notice
    <3>2. CASE link[l] # "opened"
      BY <2>5, <3>2 DEF Notice, OneDial, PublisherOK
    <3> QED BY <3>1, <3>2
  <2> QED BY <1>4, <2>1, <2>2, <2>3, <2>4, <2>5 DEF Connection
<1>5. ASSUME NEW r \in Requests,
             Post(r) \/ Create(r) \/ CreateFails(r) \/ RunEnds(r)
      PROVE  OneDial'
  BY <1>1, <1>5 DEF Post, Create, CreateFails, RunEnds
<1>6. CASE BrokerStops \/ BrokerStarts \/ Time \/ \E l \in Links : Cut(l)
  BY <1>1, <1>6 DEF BrokerStops, BrokerStarts, Time, Cut
<1>7. CASE UNCHANGED web
  BY <1>1, <1>7 DEF web
<1> QED
  BY <1>3, <1>4, <1>5, <1>6, <1>7 DEF WebNext, WebSteps, Outside, Handler

\* Sending through the channel that is held answers nobody 503.
LEMMA SendAccepts ==
  ASSUME NEW rs \in SUBSET Requests, NEW l \in Links, Send(rs, l),
         link[l] \in {"opened", "ready"}, NEW q \in Requests,
         stage[q] \in {"publish", "waiting"}
  PROVE  stage'[q] # "unavailable"
BY DEF Send

LEMMA CalmStep ==
  ASSUME WebInv, OneDial, [WebNext]_web, Calm, NEW q \in Requests,
         stage[q] \in {"publish", "waiting"}
  PROVE  stage'[q] # "unavailable"
<1> USE WebParts, LinkNumbers
<1>1. up /\ left = 0 /\ connecting \notin cut
  BY DEF Calm
<1>2. CASE UNCHANGED stage
  BY <1>2
<1>3. ASSUME NEW r \in Requests, Post(r) \/ Handler(r)
      PROVE  stage'[q] # "unavailable"
  <2>1. CASE Post(r) \/ Create(r)
    BY <2>1 DEF Post, Create, RequestsOK
  <2>2. ~CreateFails(r)
    BY <1>1 DEF CreateFails
  <2>3. CASE Publish(r)
    <3>1. CASE channel # None
      <4>1. channel \in Links /\ link[channel] = "ready" /\ Send({r}, channel)
        BY <2>3, <3>1 DEF Publish, PublisherOK, Held
      <4> QED BY <4>1, SendAccepts
    <3>2. CASE channel = None
      BY <2>3, <3>2 DEF Publish, RequestsOK
    <3> QED BY <3>1, <3>2
  <2> QED BY <1>3, <2>1, <2>2, <2>3 DEF Handler
<1>4. ASSUME NEW l \in Links, Connection(l)
      PROVE  stage'[q] # "unavailable"
  <2>1. CASE Opened(l) \/ ChannelCloses(l)
    BY <1>2, <2>1 DEF Opened, ChannelCloses
  \* The dial that is lost would be connecting, which is not cut.
  <2>2. link[l] \in {"dialing", "opened"} => Usable(l)
    BY <1>1 DEF OneDial, Usable
  <2>3. ~DialFails(l) /\ ~DeclareFails(l)
    BY <1>1, <2>2 DEF DialFails, DeclareFails
  <2>4. CASE Declared(l)
    <3>1. Waiting \subseteq Requests /\ Send(Waiting, l) /\ link[l] = "opened"
      BY <2>4 DEF Declared, Waiting
    <3> QED BY <3>1, SendAccepts
  <2>5. CASE Notice(l)
    BY <1>2, <2>2, <2>5 DEF Notice
  <2> QED BY <1>4, <2>1, <2>3, <2>4, <2>5 DEF Connection
<1>5. CASE Outside
  BY <1>2, <1>5 DEF Outside, BrokerStops, BrokerStarts, Cut, RunEnds, Time
<1>6. CASE UNCHANGED web
  BY <1>2, <1>6 DEF web
<1> QED BY <1>3, <1>4, <1>5, <1>6 DEF WebNext, WebSteps

\* With the broker up, no more faults and no dial already lost, no request that
\* was inserted is answered 503, whatever connections were lost or leaked before.
THEOREM PublisherHeals == WebSpec => PublishHeals
<1>1. WebInv /\ OneDial /\ [WebNext]_web => OneDial'
  BY DialKept
<1>2. WebInv /\ OneDial /\ [WebNext]_web
        => [Calm => \A r \in Requests : stage[r] \in {"publish", "waiting"}
                                          => stage'[r] # "unavailable"]_web
  BY CalmStep
<1> QED
  BY <1>1, <1>2, DialStarts, WebInvariant, PTL DEF WebSpec, PublishHeals

-----------------------------------------------------------------------------
(* The report of the load harness. *)

\* A POST of the test that was handled is pushed, or its user still awaits it.
InHand(r) ==
  \/ r \in allRunIds
  \/ \E u \in Users : \/ user[u] = "first" /\ First[u] = r
                      \/ user[u] = "second" /\ Second[u] = r

HarnessOK ==
  /\ user \in [Users -> {"first", "second", "streaming", "closed"}]
  /\ \A u \in Users : user[u] = "second" => Second[u] # None
  /\ phase \in {"users", "draining", "exported"}
  /\ phase # "users" => \A u \in Users : user[u] = "closed"

PushedOK ==
  /\ allRunIds \subseteq Requests
  /\ IsFiniteSet(allRunIds)
  /\ \A r \in Owned \cap Requests : stage[r] # "new" => InHand(r)

RecordedOK ==
  /\ recorded \in [Requests -> {"none", "done", "failed"}]
  /\ \A r \in Requests : recorded[r] # "none" => recorded[r] = doc[r]
  /\ phase = "exported" /\ ~timedOut =>
       \A r \in allRunIds : HasRunId(r) /\ Ended(r) /\ recorded[r] = doc[r]

LoadInv == WebInv /\ HarnessOK /\ PushedOK /\ RecordedOK

LEMMA LoadStarts == LoadInit => LoadInv
<1> SUFFICES ASSUME LoadInit PROVE LoadInv
  OBVIOUS
<1>1. WebInv
  BY WebStarts DEF LoadInit
<1>2. HarnessOK
  BY DEF LoadInit, HarnessOK
<1>3. PushedOK
  BY FS_EmptySet DEF LoadInit, WebInit, PushedOK
<1>4. RecordedOK
  BY DEF LoadInit, RecordedOK
<1> QED BY <1>1, <1>2, <1>3, <1>4 DEF LoadInv

\* A run that is over stays so, and an answer is given once.
LEMMA EndingStays ==
  ASSUME WebInv, WebNext
  PROVE  \A r \in Requests : /\ Ended(r) => doc'[r] = doc[r]
                             /\ HasRunId(r) => stage'[r] = stage[r]
<1> USE WebParts
<1>1. ASSUME NEW q \in Requests, Post(q) \/ Create(q) \/ CreateFails(q)
      PROVE  /\ stage[q] \in {"new", "create"} /\ doc[q] = "none"
             /\ \A r \in Requests : r # q => stage'[r] = stage[r] /\ doc'[r] = doc[r]
  BY <1>1 DEF Post, Create, CreateFails, RequestsOK, Followed
<1>2. ASSUME NEW q \in Requests, Publish(q)
      PROVE  /\ UNCHANGED doc /\ stage[q] = "publish"
             /\ \A r \in Requests : r # q => stage'[r] = stage[r]
  BY <1>2 DEF Publish, Send, RequestsOK
<1>3. ASSUME NEW l \in Links, Connection(l)
      PROVE  /\ UNCHANGED doc
             /\ \A r \in Requests : r \notin Waiting => stage'[r] = stage[r]
  BY <1>3 DEF Connection, Opened, DialFails, Declared, DeclareFails, ChannelCloses,
              Notice, GiveUp, Send
<1>4. ASSUME NEW q \in Requests, RunEnds(q)
      PROVE  /\ UNCHANGED stage /\ doc[q] = "pending"
             /\ \A r \in Requests : r # q => doc'[r] = doc[r]
  <2>1. doc[q] = "pending"
    BY <1>4 DEF RunEnds, RequestsOK, Followed, Handling, Answers
  <2> QED BY <1>4, <2>1 DEF RunEnds, RequestsOK
<1>5. ASSUME BrokerStops \/ BrokerStarts \/ Time \/ \E l \in Links : Cut(l)
      PROVE  UNCHANGED <<stage, doc>>
  BY <1>5 DEF BrokerStops, BrokerStarts, Time, Cut
<1> QED BY <1>1, <1>2, <1>3, <1>4, <1>5
        DEF WebNext, WebSteps, Handler, Outside, Ended, HasRunId, Waiting

\* A step of the web tier while the harness does nothing.
LEMMA WebGoesOn ==
  ASSUME LoadInv, WebNext, UNCHANGED harness
  PROVE  WebInv' /\ HarnessOK' /\ RecordedOK'
<1>1. WebInv'
  BY WebStep DEF LoadInv
<1>2. HarnessOK'
  BY DEF LoadInv, HarnessOK, harness
<1>3. \A r \in Requests : /\ Ended(r) => doc'[r] = doc[r]
                          /\ HasRunId(r) => stage'[r] = stage[r]
  BY EndingStays DEF LoadInv
<1>4. \A r \in Requests : recorded[r] # "none" => Ended(r)
  BY DEF LoadInv, RecordedOK, Ended
<1>5. RecordedOK'
  BY <1>3, <1>4 DEF LoadInv, RecordedOK, PushedOK, harness, Ended, HasRunId
<1> QED BY <1>1, <1>2, <1>5

\* Which requests leave "new".
LEMMA OnlyPosts ==
  ASSUME WebInv, NEW r \in Requests,
         \/ WebSteps
         \/ \E q \in Requests : q # r /\ Post(q)
         \/ UNCHANGED web
  PROVE  stage[r] = "new" => stage'[r] = "new"
<1> USE WebParts
<1>1. ASSUME NEW q \in Requests, q # r, Post(q) PROVE stage'[r] = stage[r]
  BY <1>1 DEF Post, RequestsOK
<1>2. ASSUME NEW q \in Requests, Handler(q)
      PROVE  stage[r] = "new" => stage'[r] = "new"
  BY <1>2 DEF Handler, Create, CreateFails, Publish, Send, RequestsOK
<1>3. ASSUME NEW l \in Links, Connection(l)
      PROVE  stage[r] = "new" => stage'[r] = "new"
  BY <1>3 DEF Connection, Opened, DialFails, Declared, DeclareFails, ChannelCloses,
              Notice, GiveUp, Send, Waiting
<1>4. ASSUME Outside PROVE stage' = stage
  BY <1>4 DEF Outside, BrokerStops, BrokerStarts, Cut, RunEnds, Time
<1>5. CASE UNCHANGED web
  BY <1>5 DEF web
<1> QED BY <1>1, <1>2, <1>3, <1>4, <1>5 DEF WebSteps

\* A user hears the answer to what it posted.
LEMMA AnswerStep ==
  ASSUME LoadInv, NEW u \in Users, NEW r \in Requests,
         allRunIds' = allRunIds \cup {r}, UNCHANGED <<web, phase, recorded, timedOut>>,
         \/ user[u] = "first" /\ r = First[u]
         \/ user[u] = "second" /\ r = Second[u],
         \/ user' = [user EXCEPT ![u] = "second"] /\ Second[u] # None
         \/ user' = [user EXCEPT ![u] = "streaming"]
  PROVE  HarnessOK' /\ PushedOK' /\ RecordedOK'
<1>1. HarnessOK'
  BY DEF LoadInv, HarnessOK
<1>2. IsFiniteSet(allRunIds')
  BY FS_AddElement DEF LoadInv, PushedOK
<1>3. \A v \in Users : v # u => user'[v] = user[v]
  BY DEF LoadInv, HarnessOK
<1>4. ASSUME NEW q \in Requests, InHand(q) PROVE InHand(q)'
  BY <1>3, <1>4 DEF InHand
<1>5. PushedOK'
  BY <1>2, <1>4 DEF LoadInv, PushedOK, web, Owned
<1>6. phase = "users"
  BY DEF LoadInv, HarnessOK
<1>7. RecordedOK'
  BY <1>6 DEF LoadInv, RecordedOK, web, Ended, HasRunId
<1> QED BY <1>1, <1>5, <1>7

LEMMA UserStep ==
  ASSUME LoadInv, NEW u \in Users, User(u)
  PROVE  LoadInv'
<1>1. CASE UserPosts(u)
  <2>1. PICK r \in Requests : /\ Post(r)
                              /\ \/ user[u] = "first" /\ First[u] = r
                                 \/ user[u] = "second" /\ Second[u] = r
    BY <1>1, LoadAssumption DEF UserPosts, LoadInv, HarnessOK
  <2>2. UNCHANGED harness
    BY <1>1 DEF UserPosts
  <2>3. WebInv' /\ HarnessOK' /\ RecordedOK'
    BY <2>1, <2>2, WebGoesOn DEF WebNext
  <2>4. ASSUME NEW q \in Owned \cap Requests, stage'[q] # "new" PROVE InHand(q)'
    <3>1. CASE q = r
      BY <2>1, <2>2, <3>1 DEF InHand, harness
    <3>2. CASE q # r
      <4>1. stage[q] # "new"
        BY <2>1, <2>4, <3>2, OnlyPosts DEF LoadInv
      <4> QED BY <2>2, <4>1 DEF LoadInv, PushedOK, InHand, harness
    <3> QED BY <3>1, <3>2
  <2>5. PushedOK'
    BY <2>2, <2>4 DEF LoadInv, PushedOK, harness, Owned
  <2> QED BY <2>3, <2>5 DEF LoadInv
<1>2. CASE FirstAnswered(u) \/ SecondAnswered(u)
  <2>1. UNCHANGED web
    BY <1>2 DEF FirstAnswered, SecondAnswered
  <2>2. WebInv'
    BY <2>1, WebStep DEF LoadInv
  <2>3. CASE FirstAnswered(u)
    <3>1. First[u] \in Requests
      BY LoadAssumption
    <3> QED BY <2>2, <2>3, <3>1, AnswerStep DEF FirstAnswered, Pushed, LoadInv
  <2>4. CASE SecondAnswered(u)
    <3>1. Second[u] \in Requests
      BY <2>4, LoadAssumption DEF SecondAnswered, LoadInv, HarnessOK
    <3> QED BY <2>2, <2>4, <3>1, AnswerStep DEF SecondAnswered, Pushed, LoadInv
  <2> QED BY <1>2, <2>3, <2>4
<1>3. CASE StreamEnds(u)
  <2>1. WebInv'
    BY <1>3, WebStep DEF LoadInv, StreamEnds
  <2>2. HarnessOK'
    BY <1>3 DEF StreamEnds, LoadInv, HarnessOK
  <2>3. ASSUME NEW q \in Requests, InHand(q) PROVE InHand(q)'
    BY <1>3, <2>3 DEF StreamEnds, InHand, LoadInv, HarnessOK
  <2>4. PushedOK'
    BY <1>3, <2>3 DEF StreamEnds, LoadInv, PushedOK, web, Owned
  <2>5. RecordedOK'
    BY <1>3 DEF StreamEnds, LoadInv, RecordedOK, web, Ended, HasRunId
  <2> QED BY <2>1, <2>2, <2>4, <2>5 DEF LoadInv
<1> QED BY <1>1, <1>2, <1>3 DEF User

LEMMA DrainStep ==
  ASSUME LoadInv, StartDraining \/ Drain \/ Sleep
  PROVE  LoadInv'
<1>1. UNCHANGED <<web, user, allRunIds>>
  BY DEF StartDraining, Drain, Sleep
<1>2. WebInv'
  BY <1>1, WebStep DEF LoadInv
<1>3. HarnessOK'
  BY <1>1 DEF StartDraining, Drain, Sleep, LoadInv, HarnessOK
<1>4. PushedOK'
  BY <1>1 DEF LoadInv, PushedOK, InHand, web, Owned
<1>5. CASE StartDraining
  <2>1. RecordedOK'
    BY <1>1, <1>5 DEF StartDraining, LoadInv, RecordedOK, web
  <2> QED BY <1>2, <1>3, <1>4, <2>1 DEF LoadInv
<1>6. CASE Drain \/ Sleep
  <2>1. Record
    BY <1>6 DEF Drain, Sleep
  <2>2. \A r \in Terminal : r \in Requests /\ HasRunId(r) /\ Ended(r)
    BY DEF Terminal, LoadInv, PushedOK
  <2>3. /\ recorded' \in [Requests -> {"none", "done", "failed"}]
        /\ \A r \in Requests : recorded'[r] # "none" => recorded'[r] = doc[r]
        /\ \A r \in Terminal : recorded'[r] = doc[r]
    BY <2>1, <2>2 DEF Record, LoadInv, RecordedOK, Ended
  <2>4. ASSUME phase' = "exported", ~timedOut' PROVE allRunIds \subseteq Terminal
    <3>1. Cardinality(Terminal) >= Cardinality(allRunIds)
      BY <1>6, <2>4 DEF Drain, Sleep
    <3>2. IsFiniteSet(allRunIds) /\ Terminal \subseteq allRunIds
      BY DEF LoadInv, PushedOK, Terminal
    <3>3. /\ IsFiniteSet(Terminal)
          /\ Cardinality(Terminal) <= Cardinality(allRunIds)
          /\ Cardinality(Terminal) = Cardinality(allRunIds) => Terminal = allRunIds
      BY <3>2, FS_Subset
    <3>4. Cardinality(Terminal) \in Nat /\ Cardinality(allRunIds) \in Nat
      BY <3>2, <3>3, FS_CardinalityType
    <3> QED BY <3>1, <3>3, <3>4
  <2>5. RecordedOK'
    BY <1>1, <2>2, <2>3, <2>4 DEF RecordedOK, web, HasRunId, Ended
  <2> QED BY <1>2, <1>3, <1>4, <2>5 DEF LoadInv
<1> QED BY <1>5, <1>6

LEMMA LoadStep == LoadInv /\ [LoadNext]_load => LoadInv'
<1> SUFFICES ASSUME LoadInv, [LoadNext]_load PROVE LoadInv'
  OBVIOUS
<1>1. CASE (WebSteps \/ Others) /\ UNCHANGED harness
  <2>1. WebNext
    BY <1>1 DEF Others, WebNext
  <2>2. WebInv' /\ HarnessOK' /\ RecordedOK'
    BY <1>1, <2>1, WebGoesOn
  <2>3. ASSUME NEW q \in Owned \cap Requests PROVE stage[q] = "new" => stage'[q] = "new"
    BY <1>1, OnlyPosts DEF Others, LoadInv
  <2>4. PushedOK'
    BY <1>1, <2>3 DEF LoadInv, PushedOK, InHand, harness, Owned
  <2> QED BY <2>2, <2>4 DEF LoadInv
<1>2. ASSUME NEW u \in Users, User(u) PROVE LoadInv'
  BY <1>2, UserStep
<1>3. CASE StartDraining \/ Drain \/ Sleep
  BY <1>3, DrainStep
<1>4. CASE UNCHANGED load
  <2>1. WebInv'
    BY <1>4, WebStep DEF LoadInv, load
  <2> QED BY <1>4, <2>1 DEF load, harness, web, LoadInv, HarnessOK, PushedOK, InHand,
                             RecordedOK, HasRunId, Ended, Owned
<1> QED BY <1>1, <1>2, <1>3, <1>4 DEF LoadNext

LEMMA LoadInvariant == LoadSpec => []LoadInv
BY LoadStarts, LoadStep, PTL DEF LoadSpec

\* A report without a TIMEOUT line accounts for every POST of the test with its
\* final status, for any number of users, requests, refusals and faults.
THEOREM ReportsAreComplete == LoadSpec => []ReportIsComplete
<1>1. ASSUME LoadInv PROVE ReportIsComplete
  <2> SUFFICES ASSUME phase = "exported", ~timedOut
               PROVE  /\ TotalRuns = Cardinality(allRunIds)
                      /\ Completed = Cardinality({r \in allRunIds : doc[r] = "done"})
                      /\ \A r \in Owned \ {None} : stage[r] = "new" \/ r \in allRunIds
                      /\ \A r \in allRunIds : HasRunId(r) /\ recorded[r] = doc[r]
    BY DEF ReportIsComplete
  <2>1. \A r \in allRunIds : HasRunId(r) /\ recorded[r] = doc[r]
    BY <1>1 DEF LoadInv, RecordedOK
  <2>2. TotalRuns = Cardinality(allRunIds)
    <3>1. {r \in allRunIds : HasRunId(r)} = allRunIds
      BY <2>1
    <3>2. ~\E r \in allRunIds : ~HasRunId(r)
      BY <2>1
    <3>3. Cardinality(allRunIds) \in Nat
      BY <1>1, FS_CardinalityType DEF LoadInv, PushedOK
    <3> QED BY <3>1, <3>2, <3>3 DEF TotalRuns
  <2>3. Completed = Cardinality({r \in allRunIds : doc[r] = "done"})
    <3>1. {r \in allRunIds : recorded[r] = "done"} = {r \in allRunIds : doc[r] = "done"}
      BY <2>1
    <3> QED BY <3>1 DEF Completed
  <2>4. ASSUME NEW r \in Owned \ {None} PROVE stage[r] = "new" \/ r \in allRunIds
    <3>1. r \in Requests
      BY LoadAssumption DEF Owned
    <3> QED BY <1>1, <3>1 DEF LoadInv, PushedOK, InHand, HarnessOK
  <2> QED BY <2>1, <2>2, <2>3, <2>4
<1> QED BY <1>1, LoadInvariant, PTL
=============================================================================
