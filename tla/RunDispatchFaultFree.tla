----------------------- MODULE RunDispatchFaultFree -----------------------
(***************************************************************************)
(* Theorems about RunDispatch when nothing fails: no accepted run loses    *)
(* its job; and without slow turns the runs of a thread never overlap, a   *)
(* thread is never locked by a run nobody works on, and every step is one  *)
(* of SerialThreads or a stutter.                                          *)
(***************************************************************************)
EXTENDS RunDispatchProofs

USE DispatchAssumption

-----------------------------------------------------------------------------
(* Without faults every delivery is settled on its own channel. *)

LEMMA NoSpend ==
  ASSUME QuietInv, NEW kind \in Failures
  PROVE  ~Spend(kind)
BY DEF QuietInv, Spend

LEMMA RequeueOne ==
  ASSUME TypeOK, NEW s \in Slots, slot[s].run \in Runs, Requeue({s})
  PROVE  queue' = <<slot[s].run>> \o queue
<1>1. PICK order \in SetToSeqs({s}) :
        queue' = [i \in DOMAIN order |-> slot[order[i]].run] \o queue
  BY DEF Requeue
<1>2. Cardinality({s}) = 1
  BY FS_Singleton
<1>3. order \in [1..1 -> {s}]
  BY <1>1, <1>2 DEF SetToSeqs
<1>4. [i \in DOMAIN order |-> slot[order[i]].run] = <<slot[s].run>>
  BY <1>3
<1> QED
  BY <1>1, <1>4

\* The effect of channel.ack and channel.nack.
Settled(s, back, next) ==
  /\ slot' = [slot EXCEPT ![s].pc = next]
  /\ queue' = IF back THEN <<slot[s].run>> \o queue ELSE queue
  /\ UNCHANGED chan

LEMMA QuietSettle ==
  ASSUME QuietInv, NEW s \in Slots, slot[s].pc # "free", NEW back \in BOOLEAN,
         NEW next, Settle(s, back, next)
  PROVE  Settled(s, back, next)
<1>1. TypeOK /\ slot[s].via = "open" /\ slot[s].run \in Runs
  BY HandlerFields DEF QuietInv
<1>2. SettleOwn(s, back, next)
  BY <1>1 DEF Settle, SettleOther, SettleUnknown
<1>3. queue' = IF back THEN <<slot[s].run>> \o queue ELSE queue
  BY <1>1, <1>2, RequeueOne DEF SettleOwn
<1> QED
  BY <1>2, <1>3 DEF SettleOwn, Settled

LEMMA QuietGuarded ==
  ASSUME QuietInv, NEW s \in Slots, slot[s].pc # "free", NEW back \in BOOLEAN,
         SettleGuarded(s, back)
  PROVE  Settled(s, back, "release")
BY QuietSettle DEF QuietInv, SettleGuarded, SettleThrows

\* The steps that remain possible.
QuietHandle(s) ==
  \/ TryAcquire(s) \/ Claim(s) \/ Release(s)
  \/ \E outcome \in Terminal : Finish(s, outcome)
  \/ /\ slot[s].pc = "acquire"
     /\ ~CanAcquire(s)
     /\ Settled(s, FALSE, "delayed")
     /\ UNCHANGED <<status, stale, lock, posting, accepted, cancelling, reaper,
                    left>>
  \/ /\ slot[s].pc = "claim"
     /\ status[slot[s].run] # "pending"
     /\ Settled(s, FALSE, "release")
     /\ UNCHANGED <<status, stale, lock, posting, accepted, cancelling, reaper,
                    left>>
  \/ /\ slot[s].pc \in {"ack", "nack"}
     /\ Settled(s, slot[s].pc = "nack", "release")
     /\ UNCHANGED <<status, stale, lock, posting, accepted, cancelling, reaper,
                    left>>
  \/ TimerFires(s)

LEMMA QuietHandler ==
  ASSUME QuietInv, NEW s \in Slots, Handle(s)
  PROVE  QuietHandle(s)
<1>1. ~BusyThrows(s) /\ ~TimerThrows(s)
  BY DEF BusyThrows, TimerThrows, SettleThrows, QuietInv
<1>2. CASE Busy(s)
  BY <1>2, QuietSettle DEF Busy, QuietHandle
<1>3. CASE ClaimNull(s)
  BY <1>3, QuietGuarded DEF ClaimNull, QuietHandle
<1>4. CASE Acknowledge(s)
  <2>1. (slot[s].pc = "nack") \in BOOLEAN
    OBVIOUS
  <2> QED
    BY <1>4, <2>1, QuietGuarded DEF Acknowledge, QuietHandle
<1> QED
  BY <1>1, <1>2, <1>3, <1>4 DEF Handle, QuietHandle

LEMMA QuietNext ==
  ASSUME QuietInv, Next
  PROVE  \/ \E r \in Runs : PostRun(r) \/ Publish(r) \/ CancelRead(r)
                              \/ CancelWrite(r) \/ LeaseExpires(r)
         \/ \E w \in Workers, s \in Slots : Deliver(w, s)
         \/ \E s \in Slots : \/ QuietHandle(s) \/ Progress(s) \/ PollCancel(s)
                             \/ SlowTurn(s)
         \/ \E w \in Workers : Reap(w)
<1>1. \A k \in Failures : ~Spend(k)
  BY NoSpend
<1>2. \A r \in Runs : ~PublishFails(r)
  BY <1>1 DEF PublishFails, Failures, FaultKinds
<1>3. \A s \in Slots : Upset(s) => SlowTurn(s)
  BY <1>1 DEF Upset, AcquireThrows, HandlerThrows, ReleaseFails, Failures,
              FaultKinds
<1>4. \A w \in Workers :
        ~ConnectionLost(w) /\ ~Reconnect(w) /\ ~Crash(w) /\ ~ReaperThrows(w)
  BY <1>1 DEF ConnectionLost, Reconnect, Crash, ReaperThrows, Failures,
              FaultKinds, QuietInv
<1>5. \A s \in Slots : Handle(s) => QuietHandle(s)
  BY QuietHandler
<1> QED
  BY <1>2, <1>3, <1>4, <1>5 DEF Next, Web, Delivery

LEMMA QuietInit == FaultFree /\ Init => QuietInv
<1> SUFFICES ASSUME FaultFree, Init PROVE QuietInv
  OBVIOUS
<1>1. \A s \in Slots : slot[s].pc = "free"
  BY DEF Init, AtStart, Free
<1> QED
  BY <1>1, TypeInit DEF Init, AtStart, QuietInv, FaultFree, Failures

LEMMA QuietStep ==
  ASSUME QuietInv, [Next]_vars
  PROVE  QuietInv'
<1>0. TypeOK /\ TypeOK'
  BY TypeStep DEF QuietInv
<1>1. ASSUME UNCHANGED <<left, chan>>,
             \A s \in Slots : slot'[s].pc # "free" =>
               slot'[s].via = "open"
      PROVE  QuietInv'
  BY <1>0, <1>1 DEF QuietInv
<1>2. ASSUME NEW s \in Slots, NEW next, slot' = [slot EXCEPT ![s].pc = next],
             slot[s].pc # "free"
      PROVE  \A h \in Slots : slot'[h].pc # "free" => slot'[h].via = "open"
  BY <1>0, <1>2 DEF QuietInv, TypeOK, Handlers
<1>3. ASSUME NEW r \in Runs,
             PostRun(r) \/ Publish(r) \/ CancelRead(r) \/ CancelWrite(r)
               \/ LeaseExpires(r)
      PROVE  UNCHANGED <<left, chan, slot>>
  BY <1>3 DEF PostRun, Publish, CancelRead, CancelWrite, LeaseExpires
<1>4. ASSUME NEW w \in Workers, NEW s \in Slots, Deliver(w, s) PROVE QuietInv'
  BY <1>0, <1>1, <1>4 DEF Deliver, QuietInv, TypeOK
<1>5. ASSUME NEW s \in Slots, QuietHandle(s) PROVE QuietInv'
  <2>1. CASE Release(s) \/ TimerFires(s)
    <3>1. slot' = [slot EXCEPT ![s] = Free] /\ UNCHANGED <<left, chan>>
      BY <2>1 DEF Release, TimerFires
    <3> QED
      BY <1>0, <1>1, <3>1 DEF QuietInv, TypeOK, Free
  <2>2. CASE ~Release(s) /\ ~TimerFires(s)
    <3>1. UNCHANGED <<left, chan>> /\ slot[s].pc # "free"
      BY <1>5, <2>2 DEF QuietHandle, TryAcquire, Claim, Finish, Settled
    <3>2. \E next : slot' = [slot EXCEPT ![s].pc = next]
      BY <1>5, <2>2 DEF QuietHandle, TryAcquire, Claim, Finish, Settled
    <3> QED
      BY <1>1, <1>2, <3>1, <3>2
  <2> QED
    BY <2>1, <2>2
<1>6. ASSUME NEW s \in Slots, PollCancel(s) PROVE QuietInv'
  <2>1. slot[s] \in Handlers /\ slot[s].pc = "run"
    BY <1>0, <1>6 DEF PollCancel, TypeOK
  <2> DEFINE h == [slot[s] EXCEPT !.abort = TRUE]
  <2>2. h.via = slot[s].via
    BY <2>1 DEF Handlers
  <2>3. slot' = [slot EXCEPT ![s] = h]
    BY <1>6 DEF PollCancel
  <2>4. \A g \in Slots : slot'[g].pc # "free" => slot'[g].via = "open"
    <3> HIDE DEF h
    <3> QED
      BY <1>0, <2>1, <2>2, <2>3 DEF QuietInv, TypeOK
  <2> QED
    BY <1>1, <1>6, <2>4 DEF PollCancel
<1>7. ASSUME NEW s \in Slots, Progress(s) PROVE UNCHANGED <<left, chan, slot>>
  BY <1>7 DEF Progress
<1>8. ASSUME NEW w \in Workers, Reap(w) PROVE UNCHANGED <<left, chan, slot>>
  BY <1>8 DEF Reap, ReaperReset, ReaperUnlock, ReaperPublish
<1>9. CASE UNCHANGED <<left, chan, slot>>
  BY <1>1, <1>9 DEF QuietInv
<1>10. CASE UNCHANGED vars
  BY <1>9, <1>10 DEF vars
<1>11. ASSUME NEW s \in Slots, SlowTurn(s) PROVE QuietInv'
  <2>1. \A k \in Failures : left'[k] = left[k]
    BY <1>0, <1>11 DEF SlowTurn, Spend, TypeOK, Failures
  <2> QED
    BY <1>0, <1>11, <2>1 DEF SlowTurn, QuietInv
<1> QED
  BY QuietNext, <1>3, <1>4, <1>5, <1>6, <1>7, <1>8, <1>9, <1>10, <1>11

-----------------------------------------------------------------------------
(* Jobs. *)

\* A run keeps its job in the queue, with the reaper or with a handler that has
\* not come to a decision.
LEMMA JobKept ==
  ASSUME NEW r \in Runs, HasJob(r),
         ToSet(queue) \subseteq ToSet(queue'),
         \A s \in Slots :
           slot[s].run = r /\ slot[s].pc \in {"acquire", "claim", "delayed"}
             => slot'[s].run = r
                  /\ slot'[s].pc \in {"acquire", "claim", "delayed"},
         UNCHANGED reaper
  PROVE  HasJob(r)'
BY DEF HasJob

LEMMA JobInit == FaultFree /\ Init => JobInv
<1> SUFFICES ASSUME FaultFree, Init PROVE JobInv
  OBVIOUS
<1>1. posting = {} /\ ToSet(accepted) = {} /\ \A r \in Runs : status[r] = "none"
  BY DEF Init, AtStart, ToSet
<1> QED
  BY <1>1, QuietInit DEF JobInv

LEMMA JobStep ==
  ASSUME JobInv, [Next]_vars
  PROVE  JobInv'
<1>0. TypeOK /\ TypeOK' /\ QuietInv /\ QuietInv'
  BY QuietStep, TypeStep DEF JobInv, QuietInv
<1>a. ASSUME NEW s \in Slots, slot[s].pc # "free" PROVE slot[s].run \in Runs
  BY <1>0, <1>a, HandlerFields
<1> DEFINE Kept == \A r \in Runs : status'[r] = "pending" =>
                     r \in posting' \/ HasJob(r)'
\* Steps that leave the web tier alone and insert no run.
<1>b. ASSUME Kept, UNCHANGED <<posting, accepted>>,
             \A r \in Runs : status'[r] = "none" => status[r] = "none"
      PROVE  JobInv'
  BY <1>0, <1>b DEF JobInv
<1>1. ASSUME NEW r \in Runs, PostRun(r) PROVE JobInv'
  <2>1. \A q \in Runs : HasJob(q) => HasJob(q)'
    BY <1>1 DEF PostRun, HasJob
  <2> QED
    BY <1>0, <1>1, <2>1 DEF PostRun, JobInv, TypeOK
<1>2. ASSUME NEW r \in Runs, Publish(r) PROVE JobInv'
  <2>1. ToSet(queue') = ToSet(queue) \cup {r}
          /\ ToSet(accepted') = ToSet(accepted) \cup {r}
    <3>1. /\ queue' = Append(queue, r) /\ accepted' = Append(accepted, r)
          /\ queue \in Seq(Runs) /\ accepted \in Seq(Runs)
      BY <1>0, <1>2 DEF Publish, TypeOK
    <3> QED
      <4>1. /\ ToSet(Append(queue, r)) = ToSet(queue) \cup {r}
            /\ ToSet(Append(accepted, r)) = ToSet(accepted) \cup {r}
        BY <3>1, QueueElements
      <4> QED
        BY <3>1, <4>1
  <2>2. \A q \in Runs : HasJob(q) => HasJob(q)'
    BY <1>2, <2>1 DEF Publish, HasJob
  <2>3. HasJob(r)'
    BY <2>1 DEF HasJob
  <2>4. status[r] # "none"
    BY <1>2 DEF Publish, JobInv
  <2> QED
    BY <1>0, <1>2, <2>1, <2>2, <2>3, <2>4 DEF Publish, JobInv
<1>3. ASSUME NEW r \in Runs, CancelRead(r) \/ CancelWrite(r) \/ LeaseExpires(r)
      PROVE  JobInv'
  <2>1. \A q \in Runs : HasJob(q) => HasJob(q)'
    BY <1>3 DEF CancelRead, CancelWrite, LeaseExpires, HasJob
  <2>2. \A q \in Runs : status'[q] \in {"none", "pending"} => status'[q] = status[q]
    BY <1>0, <1>3 DEF CancelRead, CancelWrite, LeaseExpires, TypeOK
  <2> QED
    BY <1>b, <1>3, <2>1, <2>2
    DEF CancelRead, CancelWrite, LeaseExpires, JobInv
<1>4. ASSUME NEW w \in Workers, NEW s \in Slots, Deliver(w, s) PROVE JobInv'
  <2>1. ToSet(queue) = ToSet(queue') \cup {Head(queue)}
          /\ Head(queue) \in Runs
    BY <1>0, <1>4, QueueElements DEF Deliver, TypeOK
  <2>2. \A h \in Slots : h # s => slot'[h] = slot[h]
    BY <1>0, <1>4 DEF Deliver, TypeOK
  <2>3. slot'[s].pc = "acquire" /\ slot'[s].run = Head(queue)
          /\ slot[s].pc = "free"
    BY <1>0, <1>4 DEF Deliver, TypeOK
  <2>4. \A q \in Runs : HasJob(q) => HasJob(q)'
    BY <1>4, <2>1, <2>2, <2>3 DEF Deliver, HasJob
  <2> QED
    BY <1>b, <1>4, <2>4 DEF Deliver, JobInv
<1>5. ASSUME NEW s \in Slots, QuietHandle(s) PROVE JobInv'
  <2>0. slot[s].pc # "free" /\ slot[s].run \in Runs
    BY <1>a, <1>5
    DEF QuietHandle, TryAcquire, Claim, Release, Finish, TimerFires
  <2>1. UNCHANGED <<posting, accepted, reaper>>
    BY <1>5 DEF QuietHandle, TryAcquire, Claim, Release, Finish, TimerFires
  <2>2. ToSet(queue) \subseteq ToSet(queue')
    <3>1. queue' \in {queue, Append(queue, slot[s].run), <<slot[s].run>> \o queue}
      BY <1>5
      DEF QuietHandle, TryAcquire, Claim, Release, Finish, TimerFires, Settled
    <3>2. queue \in Seq(Runs)
      BY <1>0 DEF TypeOK
    <3>3. /\ ToSet(Append(queue, slot[s].run)) = ToSet(queue) \cup {slot[s].run}
          /\ ToSet(<<slot[s].run>> \o queue) = ToSet(queue) \cup {slot[s].run}
      BY <2>0, <3>2, QueueElements
    <3> QED
      BY <3>1, <3>3
  <2>3. \A h \in Slots : h # s => slot'[h] = slot[h]
    BY <1>0, <1>5
    DEF QuietHandle, TryAcquire, Claim, Release, Finish, TimerFires, Settled,
        TypeOK
  <2>4. \A q \in Runs : q # slot[s].run => (HasJob(q) => HasJob(q)')
    BY <2>1, <2>2, <2>3 DEF HasJob
  <2>5. \A q \in Runs : /\ q # slot[s].run => status'[q] = status[q]
                        /\ status'[q] = "none" => status[q] = "none"
                        /\ status'[q] = "pending" => status[q] = "pending"
    <3>1. CASE Claim(s)
      BY <1>0, <2>0, <3>1 DEF Claim, TypeOK
    <3>2. ASSUME NEW outcome \in Terminal, Finish(s, outcome)
          PROVE  \A q \in Runs :
                   /\ q # slot[s].run => status'[q] = status[q]
                   /\ status'[q] = "none" => status[q] = "none"
                   /\ status'[q] = "pending" => status[q] = "pending"
      BY <1>0, <2>0, <3>2 DEF Finish, TypeOK, Terminal
    <3>3. CASE UNCHANGED status
      BY <3>3
    <3> QED
      BY <1>5, <3>1, <3>2, <3>3 DEF QuietHandle, TryAcquire, Release, TimerFires
  <2>6. ASSUME status'[slot[s].run] = "pending", HasJob(slot[s].run)
        PROVE  \E q \in Runs : q = slot[s].run /\ HasJob(q)'
    <3>0. PICK q \in Runs : q = slot[s].run
      BY <2>0
    <3>a. slot[s] \in Handlers
      BY <1>0 DEF TypeOK
    <3>1. CASE TryAcquire(s)
      <4>1. slot'[s].run = q /\ slot'[s].pc = "claim"
        BY <1>0, <3>0, <3>1, <3>a DEF TryAcquire, TypeOK, Handlers
      <4> QED
        BY <3>0, <4>1 DEF HasJob
    <3>2. CASE slot[s].pc = "acquire" /\ Settled(s, FALSE, "delayed")
      <4>1. slot'[s].run = q /\ slot'[s].pc = "delayed"
        BY <1>0, <3>0, <3>2, <3>a DEF Settled, TypeOK, Handlers
      <4> QED
        BY <3>0, <4>1 DEF HasJob
    <3>3. CASE TimerFires(s)
      <4>1. q \in ToSet(queue')
        <5>1. queue' = Append(queue, q) /\ queue \in Seq(Runs)
          BY <1>0, <3>0, <3>3 DEF TimerFires, TypeOK
        <5>2. ToSet(Append(queue, q)) = ToSet(queue) \cup {q}
          BY <5>1, QueueElements
        <5> QED
          BY <5>1, <5>2
      <4> QED
        BY <3>0, <4>1 DEF HasJob
    <3>4. CASE slot[s].pc \in {"ack", "nack", "release"}
      <4>1. HasJob(q)'
        BY <2>1, <2>2, <2>3, <2>6, <3>0, <3>4 DEF HasJob
      <4> QED
        BY <3>0, <4>1
    <3>5. CASE \E outcome \in Terminal : Finish(s, outcome)
      BY <1>0, <2>0, <2>6, <3>5 DEF Finish, TypeOK, Terminal
    <3>6. CASE Claim(s)
      BY <1>0, <2>0, <2>6, <3>6 DEF Claim, TypeOK
    <3>7. CASE slot[s].pc = "claim" /\ status[slot[s].run] # "pending"
      BY <2>0, <2>5, <2>6, <3>7
    <3> QED
      BY <1>5, <3>1, <3>2, <3>3, <3>4, <3>5, <3>6, <3>7
      DEF QuietHandle, Release
  <2>7. Kept
    <3> SUFFICES ASSUME NEW q \in Runs, status'[q] = "pending"
                 PROVE  q \in posting' \/ HasJob(q)'
      OBVIOUS
    <3>1. q \in posting \/ HasJob(q)
      BY <2>5 DEF JobInv
    <3> QED
      BY <2>1, <2>4, <2>6, <3>1
  <2> QED
    BY <1>b, <2>1, <2>5, <2>7
<1>6. ASSUME NEW s \in Slots, Progress(s) \/ PollCancel(s) \/ SlowTurn(s)
      PROVE  JobInv'
  <2>1. \A h \in Slots : slot'[h].run = slot[h].run /\ slot'[h].pc = slot[h].pc
    BY <1>0, <1>6 DEF Progress, PollCancel, SlowTurn, TypeOK, Handlers
  <2>2. UNCHANGED <<status, posting, accepted, queue, reaper>>
    BY <1>6 DEF Progress, PollCancel, SlowTurn
  <2>3. \A q \in Runs : HasJob(q) => HasJob(q)'
    BY <2>1, <2>2 DEF HasJob
  <2> QED
    BY <1>b, <2>2, <2>3 DEF JobInv
<1>7. ASSUME NEW w \in Workers, Reap(w) PROVE JobInv'
  <2>1. ASSUME NEW r \in Runs, ReaperReset(w, r) PROVE JobInv'
    <3>1. reaper[w] = Idle /\ reaper' = [reaper EXCEPT ![w] =
                                           [at |-> "unlock", run |-> r]]
      BY <2>1 DEF ReaperReset
    <3>2. HasJob(r)' /\ \A q \in Runs : HasJob(q) => HasJob(q)'
      BY <1>0, <2>1, <3>1 DEF ReaperReset, HasJob, TypeOK, Idle
    <3>3. \A q \in Runs : /\ q # r => status'[q] = status[q]
                          /\ status'[q] = "none" => status[q] = "none"
      BY <1>0, <2>1 DEF ReaperReset, TypeOK
    <3> QED
      BY <1>b, <2>1, <3>2, <3>3 DEF ReaperReset, JobInv
  <2>2. CASE ReaperUnlock(w)
    <3>1. \A v \in Workers : reaper'[v].run = reaper[v].run
                               /\ (reaper[v].at # "idle" => reaper'[v].at # "idle")
      BY <1>0, <2>2 DEF ReaperUnlock, TypeOK
    <3>2. \A q \in Runs : HasJob(q) => HasJob(q)'
      BY <2>2, <3>1 DEF ReaperUnlock, HasJob
    <3> QED
      BY <1>b, <2>2, <3>2 DEF ReaperUnlock, JobInv
  <2>3. CASE ReaperPublish(w)
    <3>0. reaper[w].run \in Runs
      BY <1>0, <2>3 DEF ReaperPublish, TypeOK
    <3>1. ToSet(queue') = ToSet(queue) \cup {reaper[w].run}
      <4>1. queue' = Append(queue, reaper[w].run) /\ queue \in Seq(Runs)
        BY <1>0, <2>3 DEF ReaperPublish, TypeOK
      <4> QED
        BY <3>0, <4>1, QueueElements
    <3>2. \A v \in Workers : v # w => reaper'[v] = reaper[v]
      BY <1>0, <2>3 DEF ReaperPublish, TypeOK
    <3>3. \A q \in Runs : HasJob(q) => HasJob(q)'
      BY <2>3, <3>1, <3>2 DEF ReaperPublish, HasJob
    <3> QED
      BY <1>b, <2>3, <3>3 DEF ReaperPublish, JobInv
  <2> QED
    BY <1>7, <2>1, <2>2, <2>3 DEF Reap
<1>8. CASE UNCHANGED vars
  <2>1. \A q \in Runs : HasJob(q) => HasJob(q)'
    BY <1>8 DEF vars, HasJob
  <2> QED
    BY <1>b, <1>8, <2>1 DEF vars, JobInv
<1> QED
  BY <1>0, QuietNext, <1>1, <1>2, <1>3, <1>4, <1>5, <1>6, <1>7, <1>8

\* Without faults no accepted run is left pending without a job, even if live
\* runs are mistaken for dead ones and re-published by the reaper.
THEOREM AcceptedKeepsJob == FaultFree /\ Spec => []NoLostJob
<1> SUFFICES ASSUME FaultFree PROVE Spec => []NoLostJob
  OBVIOUS
<1>1. Init => JobInv
  BY JobInit
<1>2. JobInv /\ [Next]_vars => JobInv'
  BY JobStep
<1>3. JobInv => NoLostJob
  <2>1. JobInv => ToSet(accepted) \subseteq Runs
    BY DEF JobInv, QuietInv, TypeOK, ToSet
  <2> QED
    BY <2>1 DEF JobInv, NoLostJob
<1> QED
  BY <1>1, <1>2, <1>3, PTL DEF Spec

-----------------------------------------------------------------------------
(* One job per run that can still start, and the thread lock. *)

\* Run r's messages after the step were in the queue before, d places further.
Shifted(r, d) == \A i \in DOMAIN queue' : queue'[i] = r =>
                   i + d \in DOMAIN queue /\ queue[i + d] = r

LEMMA ShiftAppend ==
  ASSUME queue \in Seq(Runs), NEW e \in Runs, NEW r \in Runs, r # e,
         queue' = Append(queue, e)
  PROVE  Shifted(r, 0)
BY DEF Shifted

LEMMA ShiftCons ==
  ASSUME queue \in Seq(Runs), NEW e \in Runs, NEW r \in Runs, r # e,
         queue' = <<e>> \o queue
  PROVE  Shifted(r, -1)
<1> SUFFICES ASSUME NEW i \in DOMAIN queue', queue'[i] = r
             PROVE  i - 1 \in DOMAIN queue /\ queue[i - 1] = r
  BY DEF Shifted
<1>1. i \in 1..(Len(queue) + 1) /\ queue'[1] = e
        /\ (i # 1 => queue'[i] = queue[i - 1])
  OBVIOUS
<1> QED
  BY <1>1

LEMMA ShiftTail ==
  ASSUME queue \in Seq(Runs), NEW r \in Runs, queue # << >>,
         queue' = Tail(queue)
  PROVE  Shifted(r, 1)
BY DEF Shifted

LEMMA ShiftNone ==
  ASSUME queue \in Seq(Runs), NEW r \in Runs, queue' = queue
  PROVE  Shifted(r, 0)
BY DEF Shifted

\* A step that gives run r no new job.
NoNewJob(r) == /\ r \in posting' => r \in posting
               /\ \E d \in Int : Shifted(r, d)
               /\ \A s \in Slots : Carries(s, r)' => Carries(s, r)

LEMMA OneJobKept ==
  ASSUME TypeOK, TypeOK', NEW r \in Runs, OneJob(r), NoNewJob(r)
  PROVE  OneJob(r)'
<1>1. PICK d \in Int : Shifted(r, d)
  BY DEF NoNewJob
<1>2. DOMAIN queue \subseteq Int /\ DOMAIN queue' \subseteq Int
  BY DEF TypeOK
<1>3. ASSUME NEW i \in DOMAIN queue', NEW j \in DOMAIN queue',
             queue'[i] = r, queue'[j] = r
      PROVE  i = j
  <2>1. /\ i + d \in DOMAIN queue /\ queue[i + d] = r
        /\ j + d \in DOMAIN queue /\ queue[j + d] = r
    BY <1>1, <1>3 DEF Shifted
  <2>2. i + d = j + d
    BY <2>1 DEF OneJob
  <2> QED
    BY <1>2, <2>2
<1>4. \A s1, s2 \in Slots : Carries(s1, r)' /\ Carries(s2, r)' => s1 = s2
  BY DEF OneJob, NoNewJob
<1>5. ASSUME NEW i \in DOMAIN queue', queue'[i] = r
      PROVE  r \notin posting' /\ \A s \in Slots : ~Carries(s, r)'
  <2>1. i + d \in DOMAIN queue /\ queue[i + d] = r
    BY <1>1, <1>5 DEF Shifted
  <2> QED
    BY <2>1 DEF OneJob, NoNewJob
<1>6. r \in posting' => \A s \in Slots : ~Carries(s, r)'
  BY DEF OneJob, NoNewJob
<1> QED
  BY <1>3, <1>4, <1>5, <1>6 DEF OneJob

LEMMA NoJobKept ==
  ASSUME NEW r \in Runs, NoJob(r), NoNewJob(r)
  PROVE  NoJob(r)'
BY DEF NoJob, NoNewJob, Shifted

\* No reaper ever finds a run to reset.
LEMMA NoReap ==
  ASSUME SerialInv, NEW w \in Workers
  PROVE  ~Reap(w)
<1>1. \A r \in Runs : ~ReaperReset(w, r)
  BY DEF ReaperReset, SerialInv, ExecutionInv
<1> QED
  BY <1>1 DEF Reap, ReaperUnlock, ReaperPublish, SerialInv, Idle

\* The parts of SerialInv that its steps are checked against one by one.
Claimed == \A r \in Runs : status[r] = "running" => Executing(r) # {}
Ended == \A s \in Slots : slot[s].pc \in {"ack", "nack"}
                            => status[slot[s].run] \in Terminal
Single == /\ \A r \in Runs : status[r] = "none" => NoJob(r)
          /\ \A r \in Runs : Live(r) => OneJob(r)
Locked == \A s \in Slots : Guarded(s) => lock[Thread(s)] = slot[s].run
Held == \A t \in Threads : lock[t] # None =>
          ThreadOf[lock[t]] = t /\ \E s \in Slots : Holds(s, t)

LEMMA SerialParts ==
  SerialInv <=> /\ QuietInv /\ ExecutionInv
                /\ \A w \in Workers : reaper[w] = Idle
                /\ Claimed /\ Ended /\ Single /\ Locked /\ Held
BY DEF SerialInv, Claimed, Ended, Single, Locked, Held

LEMMA SerialInit == FaultFree /\ Init => SerialInv
<1> SUFFICES ASSUME FaultFree, Init PROVE SerialInv
  OBVIOUS
<1>1. \A s \in Slots : slot[s].pc = "free"
  BY DEF Init, AtStart, Free
<1>2. queue = << >> /\ posting = {} /\ \A r \in Runs : status[r] = "none"
  BY DEF Init, AtStart
<1>3. \A r \in Runs : NoJob(r) /\ ~Live(r)
  BY <1>1, <1>2 DEF NoJob, Carries, Live, Executing
<1>4. Single
  BY <1>3 DEF Single
<1>5. Locked /\ Ended
  BY <1>1 DEF Locked, Guarded, Ended
<1>6. Claimed /\ Held
  BY <1>2 DEF Init, AtStart, Claimed, Held
<1>7. \A w \in Workers : reaper[w] = Idle
  BY DEF Init, AtStart
<1> QED
  BY QuietInit, ExecutionInit, <1>4, <1>5, <1>6, <1>7, SerialParts

\* The handlers that a step leaves where they are.
Stays(s) == slot'[s].pc = slot[s].pc /\ slot'[s].run = slot[s].run

\* Parts that a step keeps because it changes nothing they speak of.
LEMMA PartsKept ==
  ASSUME SerialInv, UNCHANGED <<lock, status>>, \A s \in Slots : Stays(s)
  PROVE  Claimed' /\ Ended' /\ Locked' /\ Held'
<1>1. \A r \in Runs : Executing(r)' = Executing(r)
  BY DEF Executing, Stays
<1>2. Claimed' /\ Ended'
  BY <1>1 DEF SerialInv, Claimed, Ended, Stays
<1>3. Locked'
  BY DEF SerialInv, Locked, Guarded, Thread, Stays
<1>4. Held'
  BY DEF SerialInv, Held, Holds, Stays
<1> QED
  BY <1>2, <1>3, <1>4

LEMMA SingleKept ==
  ASSUME SerialInv, TypeOK',
         \A r \in Runs : status'[r] = "none" => status[r] = "none",
         \A r \in Runs : Live(r)' => Live(r),
         \A r \in Runs : Live(r)' \/ status'[r] = "none" => NoNewJob(r)
  PROVE  Single'
<1>0. TypeOK
  BY DEF SerialInv, QuietInv
<1>1. ASSUME NEW r \in Runs, Live(r)' PROVE OneJob(r)'
  BY <1>0, <1>1, OneJobKept DEF SerialInv
<1>2. ASSUME NEW r \in Runs, status'[r] = "none" PROVE NoJob(r)'
  BY <1>2, NoJobKept DEF SerialInv
<1> QED
  BY <1>1, <1>2 DEF Single

LEMMA SerialPost ==
  ASSUME SerialInv, TypeOK', NEW r \in Runs, PostRun(r)
  PROVE  Claimed' /\ Ended' /\ Single' /\ Locked' /\ Held'
<1>0. TypeOK /\ NoJob(r)
  BY DEF SerialInv, QuietInv, PostRun
<1>1. /\ UNCHANGED <<slot, queue, lock>>
      /\ status' = [status EXCEPT ![r] = "pending"]
      /\ posting' = posting \cup {r}
  BY DEF PostRun
<1>2. \A q \in Runs : Executing(q)' = Executing(q)
  BY <1>1 DEF Executing
<1>3. \A q \in Runs : q # r => status'[q] = status[q]
  BY <1>0, <1>1 DEF TypeOK
<1>4. \A s \in Slots : slot[s].pc # "free" => slot[s].run # r /\ slot[s].run \in Runs
  BY <1>0, HandlerFields DEF NoJob, Carries
<1>5. Claimed' /\ Ended' /\ Locked' /\ Held'
  <2>1. Claimed'
    BY <1>0, <1>1, <1>2, <1>3 DEF SerialInv, Claimed, TypeOK
  <2>2. Ended'
    BY <1>1, <1>3, <1>4 DEF SerialInv, Ended
  <2>3. \A s \in Slots : Guarded(s)' => Guarded(s)
    BY <1>1, <1>3, <1>4 DEF Guarded
  <2>4. Locked'
    BY <1>1, <2>3 DEF SerialInv, Locked, Thread
  <2>5. Held'
    BY <1>1 DEF SerialInv, Held, Holds
  <2> QED
    BY <2>1, <2>2, <2>4, <2>5
<1>6. ASSUME NEW q \in Runs, q # r, OneJob(q) PROVE OneJob(q)'
  BY <1>1, <1>6 DEF OneJob, Carries
<1>7. ASSUME NEW q \in Runs, q # r, NoJob(q) PROVE NoJob(q)'
  BY <1>1, <1>7 DEF NoJob, Carries
<1>8. OneJob(r)'
  BY <1>0, <1>1 DEF NoJob, OneJob, Carries
<1>9. \A q \in Runs : q # r => (Live(q)' => Live(q))
  BY <1>2, <1>3 DEF Live
<1>10. status'[r] = "pending"
  BY <1>0, <1>1 DEF TypeOK
<1>11. Single'
  BY <1>3, <1>6, <1>7, <1>8, <1>9, <1>10 DEF SerialInv, Single
<1> QED
  BY <1>5, <1>11

LEMMA SerialPublish ==
  ASSUME SerialInv, TypeOK', NEW r \in Runs, Publish(r)
  PROVE  Claimed' /\ Ended' /\ Single' /\ Locked' /\ Held'
<1>0. TypeOK /\ queue \in Seq(Runs)
  BY DEF SerialInv, QuietInv, TypeOK
<1>1. /\ UNCHANGED <<slot, status, lock>>
      /\ queue' = Append(queue, r)
      /\ r \in posting /\ posting' = posting \ {r}
  BY DEF Publish
<1>2. Claimed' /\ Ended' /\ Locked' /\ Held'
  BY <1>1, PartsKept DEF Stays
<1>3. \A q \in Runs : Live(q)' = Live(q)
  BY <1>1 DEF Live, Executing
<1>4. ASSUME NEW q \in Runs, q # r PROVE NoNewJob(q)
  BY <1>0, <1>1, <1>4, ShiftAppend DEF NoNewJob, Carries
<1>5. ASSUME OneJob(r) PROVE OneJob(r)'
  <2>1. \A i \in DOMAIN queue' : queue'[i] = r => i = Len(queue) + 1
    BY <1>0, <1>1, <1>5 DEF OneJob
  <2> QED
    BY <1>1, <1>5, <2>1 DEF OneJob, Carries
<1>6. status[r] # "none"
  BY <1>1 DEF SerialInv, NoJob
<1>7. ASSUME NEW q \in Runs, Live(q)' PROVE OneJob(q)'
  BY <1>0, <1>3, <1>4, <1>5, <1>7, OneJobKept DEF SerialInv
<1>8. ASSUME NEW q \in Runs, status'[q] = "none" PROVE NoJob(q)'
  BY <1>1, <1>4, <1>6, <1>8, NoJobKept DEF SerialInv
<1>9. Single'
  BY <1>7, <1>8 DEF Single
<1> QED
  BY <1>2, <1>9

LEMMA SerialCancel ==
  ASSUME SerialInv, TypeOK', NEW r \in Runs, CancelWrite(r)
  PROVE  Claimed' /\ Ended' /\ Single' /\ Locked' /\ Held'
<1>0. TypeOK /\ queue \in Seq(Runs)
  BY DEF SerialInv, QuietInv, TypeOK
<1>1. /\ UNCHANGED <<slot, queue, lock, posting>>
      /\ status' = [status EXCEPT ![r] = "cancelled"]
  BY DEF CancelWrite
<1>2. \A q \in Runs : Executing(q)' = Executing(q)
  BY <1>1 DEF Executing
<1>3. \A q \in Runs : status'[q] = status[q] \/ (q = r /\ status'[q] = "cancelled")
  BY <1>0, <1>1 DEF TypeOK
<1>4. \A q \in Runs : NoNewJob(q)
  BY <1>0, <1>1, ShiftNone DEF NoNewJob, Carries
<1>5. Single'
  BY <1>2, <1>3, <1>4, SingleKept DEF Live
<1>6. \A s \in Slots : slot[s].pc # "free" => slot[s].run \in Runs
  BY <1>0, HandlerFields
<1>7. Claimed'
  BY <1>2, <1>3 DEF SerialInv, Claimed
<1>8. Ended'
  BY <1>1, <1>3, <1>6 DEF SerialInv, Ended, Terminal
<1>9. \A s \in Slots : Guarded(s)' => Guarded(s)
  BY <1>1, <1>3, <1>6 DEF Guarded
<1>10. Locked' /\ Held'
  BY <1>1, <1>9 DEF SerialInv, Locked, Thread, Held, Holds
<1> QED
  BY <1>5, <1>7, <1>8, <1>10

LEMMA SerialDeliver ==
  ASSUME SerialInv, TypeOK', NEW w \in Workers, NEW s \in Slots, Deliver(w, s)
  PROVE  Claimed' /\ Ended' /\ Single' /\ Locked' /\ Held'
<1>0. TypeOK /\ queue \in Seq(Runs) /\ queue # << >>
  BY DEF SerialInv, QuietInv, TypeOK, Deliver
<1>1. PICK r \in Runs : r = Head(queue)
  BY <1>0
<1>2. /\ UNCHANGED <<status, lock, posting>>
      /\ queue' = Tail(queue)
      /\ slot[s].pc = "free"
  BY DEF Deliver
<1>3. slot'[s].pc = "acquire" /\ slot'[s].run = r
  BY <1>0, <1>1 DEF Deliver, TypeOK
<1>4. \A h \in Slots : h # s => slot'[h] = slot[h]
  BY <1>0 DEF Deliver, TypeOK
<1>5. \A q \in Runs : Executing(q)' = Executing(q)
  BY <1>2, <1>3, <1>4 DEF Executing
<1>6. Claimed' /\ Ended'
  BY <1>2, <1>3, <1>4, <1>5 DEF SerialInv, Claimed, Ended
<1>7. Locked'
  BY <1>2, <1>3, <1>4 DEF SerialInv, Locked, Guarded, Thread
<1>8. Held'
  BY <1>2, <1>3, <1>4 DEF SerialInv, Held, Holds
<1>9. ASSUME NEW q \in Runs, q # r PROVE NoNewJob(q)
  BY <1>0, <1>2, <1>3, <1>4, <1>9, ShiftTail DEF NoNewJob, Carries
<1>10. 1 \in DOMAIN queue /\ queue[1] = r
  BY <1>0, <1>1
<1>11. ASSUME OneJob(r) PROVE OneJob(r)'
  <2>1. ASSUME NEW i \in DOMAIN queue' PROVE queue'[i] # r
    <3>1. i \in Nat /\ i >= 1 /\ i + 1 \in DOMAIN queue /\ queue[i + 1] = queue'[i]
      BY <1>0, <1>2, <2>1
    <3> QED
      BY <1>10, <1>11, <3>1 DEF OneJob
  <2>2. r \notin posting /\ \A h \in Slots : ~Carries(h, r)
    BY <1>10, <1>11 DEF OneJob
  <2>3. \A h \in Slots : Carries(h, r)' => h = s
    BY <1>4, <2>2 DEF Carries
  <2> QED
    BY <1>2, <2>1, <2>2, <2>3 DEF OneJob
<1>12. status[r] # "none"
  BY <1>10 DEF SerialInv, NoJob
<1>13. \A q \in Runs : Live(q)' => Live(q)
  BY <1>2, <1>5 DEF Live
<1>14. ASSUME NEW q \in Runs, Live(q)' PROVE OneJob(q)'
  BY <1>0, <1>9, <1>11, <1>13, <1>14, OneJobKept DEF SerialInv
<1>15. ASSUME NEW q \in Runs, status'[q] = "none" PROVE NoJob(q)'
  BY <1>2, <1>9, <1>12, <1>15, NoJobKept DEF SerialInv
<1>16. Single'
  BY <1>14, <1>15 DEF Single
<1> QED
  BY <1>6, <1>7, <1>8, <1>16

LEMMA Moves ==
  ASSUME TypeOK, NEW s \in Slots, NEW next,
         slot' = [slot EXCEPT ![s].pc = next]
  PROVE  /\ slot'[s].pc = next /\ slot'[s].run = slot[s].run
         /\ \A h \in Slots : h # s => slot'[h] = slot[h]
BY DEF TypeOK, Handlers

LEMMA SerialAcquire ==
  ASSUME SerialInv, TypeOK', NEW s \in Slots, TryAcquire(s)
  PROVE  Claimed' /\ Ended' /\ Single' /\ Locked' /\ Held'
<1>0. TypeOK /\ queue \in Seq(Runs)
  BY DEF SerialInv, QuietInv, TypeOK
<1>1. PICK r \in Runs : r = slot[s].run
  BY <1>0, HandlerFields DEF TryAcquire
<1>2. /\ UNCHANGED <<status, queue, posting>>
      /\ slot[s].pc = "acquire" /\ slot'[s].pc = "claim" /\ slot'[s].run = r
      /\ \A h \in Slots : h # s => slot'[h] = slot[h]
  BY <1>0, <1>1, Moves DEF TryAcquire
<1>3. /\ lock[ThreadOf[r]] \in {None, r}
      /\ lock' = [lock EXCEPT ![ThreadOf[r]] = r]
      /\ ThreadOf[r] \in Threads
  BY <1>1 DEF TryAcquire, CanAcquire, Thread
<1>4. lock'[ThreadOf[r]] = r /\ \A t \in Threads : t # ThreadOf[r] => lock'[t] = lock[t]
  BY <1>0, <1>3 DEF TypeOK
<1>5. \A q \in Runs : Executing(q)' = Executing(q)
  BY <1>2 DEF Executing
<1>6. Claimed' /\ Ended'
  BY <1>2, <1>5 DEF SerialInv, Claimed, Ended
<1>7. \A q \in Runs : NoNewJob(q)
  BY <1>0, <1>1, <1>2, ShiftNone DEF NoNewJob, Carries
<1>8. Single'
  BY <1>2, <1>5, <1>7, SingleKept DEF Live
<1>9. ASSUME NEW h \in Slots, Guarded(h)' PROVE lock'[ThreadOf[slot'[h].run]] = slot'[h].run
  <2>1. CASE h = s
    BY <1>2, <1>4, <2>1
  <2>2. CASE h # s
    <3>1. Guarded(h) /\ slot'[h] = slot[h]
      BY <1>2, <1>9, <2>2 DEF Guarded
    <3>2. PICK q \in Runs : q = slot[h].run
      BY <1>0, <3>1, HandlerFields DEF Guarded
    <3>3. lock[ThreadOf[q]] = q /\ q # None
      BY <3>1, <3>2 DEF SerialInv, Thread
    <3>4. lock'[ThreadOf[q]] = q
      BY <1>3, <1>4, <3>3
    <3> QED
      BY <3>1, <3>2, <3>4
  <2> QED
    BY <2>1, <2>2
<1>10. Locked'
  BY <1>9 DEF Locked, Thread
<1>11. ASSUME NEW t \in Threads, lock'[t] # None
       PROVE  ThreadOf[lock'[t]] = t /\ \E h \in Slots : Holds(h, t)'
  <2>1. CASE t = ThreadOf[r]
    BY <1>2, <1>4, <2>1 DEF Holds
  <2>2. CASE t # ThreadOf[r]
    <3>1. lock'[t] = lock[t] /\ lock[t] # None
      BY <1>4, <1>11, <2>2
    <3>2. PICK h \in Slots : Holds(h, t)
      BY <3>1 DEF SerialInv
    <3>3. h # s
      BY <1>2, <3>2 DEF Holds
    <3> QED
      BY <1>2, <3>1, <3>2, <3>3 DEF SerialInv, Holds
  <2> QED
    BY <2>1, <2>2
<1>12. Held'
  BY <1>11 DEF Held
<1> QED
  BY <1>6, <1>8, <1>10, <1>12

\* The busy path and the drop of a job that is not pending.
LEMMA SerialPass ==
  ASSUME SerialInv, TypeOK', NEW s \in Slots, NEW next,
         Settled(s, FALSE, next), UNCHANGED <<status, lock, posting>>,
         \/ slot[s].pc = "acquire" /\ next = "delayed"
         \/ slot[s].pc = "claim" /\ next = "release"
  PROVE  Claimed' /\ Ended' /\ Single' /\ Locked' /\ Held'
<1>0. TypeOK /\ queue \in Seq(Runs)
  BY DEF SerialInv, QuietInv, TypeOK
<1>1. slot[s].run \in Runs
  BY <1>0, HandlerFields
<1>2. /\ UNCHANGED queue
      /\ slot'[s].pc = next /\ slot'[s].run = slot[s].run
      /\ \A h \in Slots : h # s => slot'[h] = slot[h]
  BY <1>0, Moves DEF Settled
<1>3. \A q \in Runs : Executing(q)' = Executing(q)
  BY <1>2 DEF Executing
<1>4. Claimed' /\ Ended'
  BY <1>2, <1>3 DEF SerialInv, Claimed, Ended
<1>5. \A q \in Runs : NoNewJob(q)
  BY <1>0, <1>2, ShiftNone DEF NoNewJob, Carries
<1>6. Single'
  BY <1>3, <1>5, SingleKept DEF Live
<1>7. \A h \in Slots : Guarded(h)' => Guarded(h) /\ slot'[h] = slot[h]
  BY <1>2 DEF Guarded
<1>8. Locked'
  BY <1>7 DEF SerialInv, Locked, Thread
<1>9. \A h \in Slots, t \in Threads : Holds(h, t) => Holds(h, t)'
  BY <1>2 DEF Holds
<1>10. Held'
  BY <1>9 DEF SerialInv, Held
<1> QED
  BY <1>4, <1>6, <1>8, <1>10

LEMMA SerialClaim ==
  ASSUME SerialInv, TypeOK', NEW s \in Slots, Claim(s)
  PROVE  Claimed' /\ Ended' /\ Single' /\ Locked' /\ Held'
<1>0. TypeOK /\ queue \in Seq(Runs)
  BY DEF SerialInv, QuietInv, TypeOK
<1>1. PICK r \in Runs : r = slot[s].run
  BY <1>0, HandlerFields DEF Claim
<1>2. /\ UNCHANGED <<queue, posting, lock>>
      /\ status[r] = "pending" /\ status' = [status EXCEPT ![r] = "running"]
      /\ slot[s].pc = "claim" /\ slot'[s].pc = "run" /\ slot'[s].run = r
      /\ \A h \in Slots : h # s => slot'[h] = slot[h]
  BY <1>0, <1>1, Moves DEF Claim
<1>3. status'[r] = "running" /\ \A q \in Runs : q # r => status'[q] = status[q]
  BY <1>0, <1>2 DEF TypeOK
<1>4. s \in Executing(r)' /\ \A q \in Runs : Executing(q) \subseteq Executing(q)'
  BY <1>2 DEF Executing
<1>5. \A q \in Runs : q # r => Executing(q)' = Executing(q)
  BY <1>1, <1>2 DEF Executing
<1>6. Claimed'
  BY <1>3, <1>4, <1>5 DEF SerialInv, Claimed
<1>7. \A h \in Slots : slot[h].pc # "free" => slot[h].run \in Runs
  BY <1>0, HandlerFields
<1>8. Ended'
  BY <1>2, <1>3, <1>7 DEF SerialInv, Ended, Terminal
<1>9. \A q \in Runs : NoNewJob(q)
  BY <1>0, <1>1, <1>2, ShiftNone DEF NoNewJob, Carries
<1>10. \A q \in Runs : Live(q)' => Live(q)
  BY <1>2, <1>3, <1>5 DEF Live
<1>11. Single'
  BY <1>3, <1>9, <1>10, SingleKept
<1>12. \A h \in Slots : Guarded(h)' => Guarded(h) /\ slot'[h].run = slot[h].run
  BY <1>1, <1>2, <1>3, <1>7 DEF Guarded
<1>13. Locked'
  BY <1>2, <1>12 DEF SerialInv, Locked, Thread
<1>14. \A h \in Slots, t \in Threads : Holds(h, t) => Holds(h, t)'
  BY <1>1, <1>2 DEF Holds
<1>15. Held'
  BY <1>2, <1>14 DEF SerialInv, Held
<1> QED
  BY <1>6, <1>8, <1>11, <1>13, <1>15

LEMMA SerialFinish ==
  ASSUME SerialInv, TypeOK', NEW s \in Slots, NEW outcome \in Terminal,
         Finish(s, outcome)
  PROVE  Claimed' /\ Ended' /\ Single' /\ Locked' /\ Held'
<1>0. TypeOK /\ queue \in Seq(Runs)
  BY DEF SerialInv, QuietInv, TypeOK
<1>1. PICK r \in Runs : r = slot[s].run
  BY <1>0, HandlerFields DEF Finish
<1>2. PICK next \in {"ack", "nack"} : slot' = [slot EXCEPT ![s].pc = next]
  BY DEF Finish
<1>3. /\ UNCHANGED <<queue, posting, lock>>
      /\ status' = [status EXCEPT ![r] = outcome]
      /\ slot[s].pc = "run" /\ slot'[s].pc = next /\ slot'[s].run = r
      /\ \A h \in Slots : h # s => slot'[h] = slot[h]
  BY <1>0, <1>1, <1>2, Moves DEF Finish
<1>4. status'[r] = outcome /\ \A q \in Runs : q # r => status'[q] = status[q]
  BY <1>0, <1>3 DEF TypeOK
<1>5. outcome \notin {"none", "pending", "running"}
  BY DEF Terminal
<1>6. Executing(r)' = {}
  <2>1. \A h \in Executing(r) : h = s
    BY <1>1, <1>3 DEF SerialInv, ExecutionInv, OneExecutor, Executing
  <2> QED
    BY <1>3, <2>1 DEF Executing
<1>7. \A q \in Runs : q # r => Executing(q)' = Executing(q)
  BY <1>1, <1>3 DEF Executing
<1>8. Claimed'
  BY <1>4, <1>5, <1>7 DEF SerialInv, Claimed
<1>9. \A h \in Slots : slot[h].pc # "free" => slot[h].run \in Runs
  BY <1>0, HandlerFields
<1>10. Ended'
  BY <1>3, <1>4, <1>9 DEF SerialInv, Ended
<1>11. \A q \in Runs : NoNewJob(q)
  BY <1>0, <1>1, <1>3, ShiftNone DEF NoNewJob, Carries
<1>12. \A q \in Runs : Live(q)' => Live(q)
  BY <1>4, <1>5, <1>6, <1>7 DEF Live
<1>13. Single'
  BY <1>4, <1>5, <1>11, <1>12, SingleKept
<1>14. \A h \in Slots : Guarded(h)' => Guarded(h) /\ slot'[h].run = slot[h].run
  BY <1>3, <1>4, <1>5, <1>9 DEF Guarded
<1>15. Locked'
  BY <1>3, <1>14 DEF SerialInv, Locked, Thread
<1>16. \A h \in Slots, t \in Threads : Holds(h, t) => Holds(h, t)'
  BY <1>1, <1>3 DEF Holds
<1>17. Held'
  BY <1>3, <1>16 DEF SerialInv, Held
<1> QED
  BY <1>8, <1>10, <1>13, <1>15, <1>17

\* The requeued job of a failed or cancelled run is its second one; that run
\* cannot start again.
LEMMA SerialAck ==
  ASSUME SerialInv, TypeOK', NEW s \in Slots, slot[s].pc \in {"ack", "nack"},
         Settled(s, slot[s].pc = "nack", "release"),
         UNCHANGED <<status, lock, posting>>
  PROVE  Claimed' /\ Ended' /\ Single' /\ Locked' /\ Held'
<1>0. TypeOK /\ queue \in Seq(Runs)
  BY DEF SerialInv, QuietInv, TypeOK
<1>1. PICK r \in Runs : r = slot[s].run
  BY <1>0, HandlerFields
<1>2. /\ slot'[s].pc = "release" /\ slot'[s].run = r
      /\ \A h \in Slots : h # s => slot'[h] = slot[h]
      /\ queue' = queue \/ queue' = <<r>> \o queue
  BY <1>0, <1>1, Moves DEF Settled
<1>3. \A q \in Runs : Executing(q)' = Executing(q)
  BY <1>2 DEF Executing
<1>4. Claimed' /\ Ended'
  BY <1>2, <1>3 DEF SerialInv, Claimed, Ended
<1>5. status[r] \in Terminal /\ status[r] \notin {"none", "pending"}
  BY <1>1 DEF SerialInv, Terminal
<1>6. ~Live(r)
  <2>1. ASSUME NEW h \in Executing(r) PROVE FALSE
    <3>1. OneJob(r) /\ h \in Slots /\ slot[h].pc = "run" /\ slot[h].run = r
      BY <2>1 DEF SerialInv, Live, Executing
    <3> QED
      BY <1>1, <3>1 DEF OneJob, Carries
  <2> QED
    BY <1>5, <2>1 DEF Live
<1>7. ASSUME NEW q \in Runs, q # r PROVE NoNewJob(q)
  <2>1. Shifted(q, 0) \/ Shifted(q, -1)
    BY <1>0, <1>2, <1>7, ShiftNone, ShiftCons
  <2> QED
    BY <1>1, <1>2, <2>1 DEF NoNewJob, Carries
<1>8. \A q \in Runs : Live(q)' => Live(q) /\ q # r
  BY <1>3, <1>6 DEF Live
<1>9. Single'
  BY <1>5, <1>7, <1>8, SingleKept
<1>10. \A h \in Slots : Guarded(h)' => Guarded(h) /\ slot'[h] = slot[h]
  BY <1>2 DEF Guarded
<1>11. Locked'
  BY <1>10 DEF SerialInv, Locked, Thread
<1>12. \A h \in Slots, t \in Threads : Holds(h, t) => Holds(h, t)'
  BY <1>1, <1>2 DEF Holds
<1>13. Held'
  BY <1>12 DEF SerialInv, Held
<1> QED
  BY <1>4, <1>9, <1>11, <1>13

LEMMA SerialRelease ==
  ASSUME SerialInv, TypeOK', NEW s \in Slots, Release(s)
  PROVE  Claimed' /\ Ended' /\ Single' /\ Locked' /\ Held'
<1>0. TypeOK /\ queue \in Seq(Runs)
  BY DEF SerialInv, QuietInv, TypeOK
<1>1. PICK r \in Runs : r = slot[s].run
  BY <1>0, HandlerFields DEF Release
<1>2. /\ UNCHANGED <<status, queue, posting>>
      /\ slot[s].pc = "release" /\ slot'[s].pc = "free"
      /\ \A h \in Slots : h # s => slot'[h] = slot[h]
  BY <1>0 DEF Release, TypeOK, Free
<1>3. /\ \A t \in Threads : t # ThreadOf[r] => lock'[t] = lock[t]
      /\ lock[ThreadOf[r]] # r => lock' = lock
      /\ lock[ThreadOf[r]] = r => lock'[ThreadOf[r]] = None
  BY <1>0, <1>1 DEF Release, Unlocked, Thread, TypeOK
<1>4. \A q \in Runs : Executing(q)' = Executing(q)
  BY <1>2 DEF Executing
<1>5. Claimed' /\ Ended'
  BY <1>2, <1>4 DEF SerialInv, Claimed, Ended
<1>6. \A q \in Runs : NoNewJob(q)
  BY <1>0, <1>2, ShiftNone DEF NoNewJob, Carries
<1>7. Single'
  BY <1>2, <1>4, <1>6, SingleKept DEF Live
<1>8. ASSUME NEW h \in Slots, Guarded(h)'
      PROVE  lock'[ThreadOf[slot'[h].run]] = slot'[h].run
  <2>1. h # s /\ Guarded(h) /\ slot'[h] = slot[h]
    BY <1>2, <1>8 DEF Guarded
  <2>2. PICK q \in Runs : q = slot[h].run
    BY <1>0, <2>1, HandlerFields DEF Guarded
  <2>3. lock[ThreadOf[q]] = q
    BY <2>1, <2>2 DEF SerialInv, Thread
  <2>4. q # r
    <3>1. Live(q)
      BY <2>1, <2>2 DEF Guarded, Live, Executing
    <3>2. Carries(h, q)
      BY <2>1, <2>2 DEF Guarded, Carries
    <3>3. OneJob(q)
      BY <3>1 DEF SerialInv
    <3> QED
      BY <1>1, <1>2, <2>1, <3>2, <3>3 DEF OneJob, Carries
  <2>5. lock'[ThreadOf[q]] = q
    BY <1>3, <2>3, <2>4
  <2> QED
    BY <2>1, <2>2, <2>5
<1>9. Locked'
  BY <1>8 DEF Locked, Thread
<1>10. ASSUME NEW t \in Threads, lock'[t] # None
       PROVE  ThreadOf[lock'[t]] = t /\ \E h \in Slots : Holds(h, t)'
  <2>1. lock'[t] = lock[t]
    BY <1>3, <1>10
  <2>2. ThreadOf[lock[t]] = t
    BY <1>10, <2>1 DEF SerialInv
  <2>3. PICK h \in Slots : Holds(h, t)
    BY <1>10, <2>1 DEF SerialInv
  <2>4. h # s
    BY <1>1, <1>3, <1>10, <2>1, <2>2, <2>3 DEF Holds
  <2> QED
    BY <1>2, <2>1, <2>2, <2>3, <2>4 DEF Holds
<1>11. Held'
  BY <1>10 DEF Held
<1> QED
  BY <1>5, <1>7, <1>9, <1>11

LEMMA SerialTimer ==
  ASSUME SerialInv, TypeOK', NEW s \in Slots, TimerFires(s)
  PROVE  Claimed' /\ Ended' /\ Single' /\ Locked' /\ Held'
<1>0. TypeOK /\ queue \in Seq(Runs)
  BY DEF SerialInv, QuietInv, TypeOK
<1>1. PICK r \in Runs : r = slot[s].run
  BY <1>0, HandlerFields DEF TimerFires
<1>2. /\ UNCHANGED <<status, lock, posting>>
      /\ queue' = Append(queue, r)
      /\ slot[s].pc = "delayed" /\ slot'[s].pc = "free"
      /\ \A h \in Slots : h # s => slot'[h] = slot[h]
  BY <1>0, <1>1 DEF TimerFires, TypeOK, Free
<1>3. \A q \in Runs : Executing(q)' = Executing(q)
  BY <1>2 DEF Executing
<1>4. Claimed' /\ Ended'
  BY <1>2, <1>3 DEF SerialInv, Claimed, Ended
<1>5. ASSUME NEW q \in Runs, q # r PROVE NoNewJob(q)
  BY <1>0, <1>2, <1>5, ShiftAppend DEF NoNewJob, Carries
<1>6. Carries(s, r)
  BY <1>1, <1>2 DEF Carries
<1>7. ASSUME OneJob(r) PROVE OneJob(r)'
  <2>1. \A i \in DOMAIN queue' : queue'[i] = r => i = Len(queue) + 1
    BY <1>0, <1>2, <1>6, <1>7 DEF OneJob
  <2>2. \A h \in Slots : ~Carries(h, r)'
    BY <1>2, <1>6, <1>7 DEF OneJob, Carries
  <2>3. r \notin posting'
    BY <1>2, <1>6, <1>7 DEF OneJob
  <2> QED
    BY <2>1, <2>2, <2>3 DEF OneJob
<1>8. status[r] # "none"
  BY <1>6 DEF SerialInv, NoJob
<1>9. \A q \in Runs : Live(q)' => Live(q)
  BY <1>2, <1>3 DEF Live
<1>10. ASSUME NEW q \in Runs, Live(q)' PROVE OneJob(q)'
  BY <1>0, <1>5, <1>7, <1>9, <1>10, OneJobKept DEF SerialInv
<1>11. ASSUME NEW q \in Runs, status'[q] = "none" PROVE NoJob(q)'
  BY <1>2, <1>5, <1>8, <1>11, NoJobKept DEF SerialInv
<1>12. Single'
  BY <1>10, <1>11 DEF Single
<1>13. \A h \in Slots : Guarded(h)' => Guarded(h) /\ slot'[h] = slot[h]
  BY <1>2 DEF Guarded
<1>14. Locked'
  BY <1>2, <1>13 DEF SerialInv, Locked, Thread
<1>15. \A h \in Slots, t \in Threads : Holds(h, t) => Holds(h, t)'
  BY <1>2 DEF Holds
<1>16. Held'
  BY <1>2, <1>15 DEF SerialInv, Held
<1> QED
  BY <1>4, <1>12, <1>14, <1>16

\* Steps that touch none of status, lock, queue and posting.
LEMMA SerialIdle ==
  ASSUME SerialInv, TypeOK', UNCHANGED <<status, lock, queue, posting>>,
         \A s \in Slots : Stays(s)
  PROVE  Claimed' /\ Ended' /\ Single' /\ Locked' /\ Held'
<1>1. Claimed' /\ Ended' /\ Locked' /\ Held'
  BY PartsKept
<1>2. queue \in Seq(Runs)
  BY DEF SerialInv, QuietInv, TypeOK
<1>3. \A q \in Runs : NoNewJob(q)
  BY <1>2, ShiftNone DEF NoNewJob, Carries, Stays
<1>4. \A q \in Runs : Live(q)' => Live(q)
  BY DEF Live, Executing, Stays
<1>5. Single'
  BY <1>3, <1>4, SingleKept
<1> QED
  BY <1>1, <1>5

LEMMA SerialStep ==
  ASSUME Quick, SerialInv, [Next]_vars
  PROVE  SerialInv'
<1>0. QuietInv' /\ ExecutionInv' /\ TypeOK /\ TypeOK'
  BY QuietStep, ExecutionStep, QuickNeverSlow DEF SerialInv, QuietInv
<1>1. ASSUME UNCHANGED reaper, Claimed' /\ Ended' /\ Single' /\ Locked' /\ Held'
      PROVE  SerialInv'
  BY <1>0, <1>1 DEF SerialInv, Claimed, Ended, Single, Locked, Held
<1>2. ASSUME NEW r \in Runs,
             PostRun(r) \/ Publish(r) \/ CancelRead(r) \/ CancelWrite(r)
               \/ LeaseExpires(r)
      PROVE  SerialInv'
  <2>1. CASE PostRun(r)
    BY <1>0, <1>1, <2>1, SerialPost DEF PostRun
  <2>2. CASE Publish(r)
    BY <1>0, <1>1, <2>2, SerialPublish DEF Publish
  <2>3. CASE CancelWrite(r)
    BY <1>0, <1>1, <2>3, SerialCancel DEF CancelWrite
  <2>4. CASE CancelRead(r) \/ LeaseExpires(r)
    BY <1>0, <1>1, <2>4, SerialIdle DEF CancelRead, LeaseExpires, Stays
  <2> QED
    BY <1>2, <2>1, <2>2, <2>3, <2>4
<1>3. ASSUME NEW w \in Workers, NEW s \in Slots, Deliver(w, s) PROVE SerialInv'
  BY <1>0, <1>1, <1>3, SerialDeliver DEF Deliver
<1>4. ASSUME NEW s \in Slots, QuietHandle(s) PROVE SerialInv'
  <2>1. UNCHANGED reaper
    BY <1>4 DEF QuietHandle, TryAcquire, Claim, Release, Finish, TimerFires
  <2>2. CASE TryAcquire(s)
    BY <1>0, <1>1, <2>1, <2>2, SerialAcquire
  <2>3. CASE Claim(s)
    BY <1>0, <1>1, <2>1, <2>3, SerialClaim
  <2>4. CASE Release(s)
    BY <1>0, <1>1, <2>1, <2>4, SerialRelease
  <2>5. ASSUME NEW outcome \in Terminal, Finish(s, outcome) PROVE SerialInv'
    BY <1>0, <1>1, <2>1, <2>5, SerialFinish
  <2>6. CASE /\ slot[s].pc = "acquire"
             /\ Settled(s, FALSE, "delayed")
             /\ UNCHANGED <<status, lock, posting>>
    BY <1>0, <1>1, <2>1, <2>6, SerialPass
  <2>7. CASE /\ slot[s].pc = "claim"
             /\ Settled(s, FALSE, "release")
             /\ UNCHANGED <<status, lock, posting>>
    BY <1>0, <1>1, <2>1, <2>7, SerialPass
  <2>8. CASE /\ slot[s].pc \in {"ack", "nack"}
             /\ Settled(s, slot[s].pc = "nack", "release")
             /\ UNCHANGED <<status, lock, posting>>
    BY <1>0, <1>1, <2>1, <2>8, SerialAck
  <2>9. CASE TimerFires(s)
    BY <1>0, <1>1, <2>1, <2>9, SerialTimer
  <2> QED
    BY <1>4, <2>2, <2>3, <2>4, <2>5, <2>6, <2>7, <2>8, <2>9 DEF QuietHandle
<1>5. ASSUME NEW s \in Slots, Progress(s) \/ PollCancel(s) PROVE SerialInv'
  <2>1. \A h \in Slots : Stays(h)
    BY <1>0, <1>5 DEF Progress, PollCancel, Stays, TypeOK, Handlers
  <2> QED
    BY <1>0, <1>1, <1>5, <2>1, SerialIdle DEF Progress, PollCancel
<1>6. \A w \in Workers : ~Reap(w)
  BY NoReap
<1>7. CASE UNCHANGED vars
  BY <1>0, <1>1, <1>7, SerialIdle DEF vars, Stays
<1>8. QuietInv
  BY DEF SerialInv
<1>9. \A s \in Slots : ~SlowTurn(s)
  BY DEF SlowTurn, Spend, Quick
<1> QED
  BY <1>2, <1>3, <1>4, <1>5, <1>6, <1>7, <1>8, <1>9, QuietNext

\* Without faults, and when every live run emits an event within the reaper's
\* lease, at most one run per thread is executed at any time, for every number
\* of workers, runs and threads.
THEOREM ThreadsAreSerial == FaultFree /\ NoSlowTurns /\ Spec => []Serialized
<1> SUFFICES ASSUME FaultFree, NoSlowTurns PROVE Spec => []Serialized
  OBVIOUS
<1>1. Init => SerialInv
  BY SerialInit
<1>2. Quick /\ SerialInv /\ [Next]_vars => SerialInv'
  BY SerialStep
<1>a. Init => Quick
  BY QuickInit
<1>b. Quick /\ SerialInv /\ [Next]_vars => Quick'
  BY QuickStep DEF SerialInv, QuietInv
<1>3. SerialInv => Serialized
  <2> SUFFICES ASSUME SerialInv, NEW r1 \in Runs, NEW r2 \in Runs,
                      ThreadOf[r1] = ThreadOf[r2],
                      NEW s1 \in Executing(r1), NEW s2 \in Executing(r2)
               PROVE  r1 = r2
    BY DEF Serialized
  <2>1. /\ s1 \in Slots /\ slot[s1].run = r1 /\ Guarded(s1)
        /\ s2 \in Slots /\ slot[s2].run = r2 /\ Guarded(s2)
    BY DEF Executing, Guarded
  <2>2. lock[ThreadOf[r1]] = r1 /\ lock[ThreadOf[r2]] = r2
    BY <2>1 DEF SerialInv, Thread
  <2> QED
    BY <2>2
<1> QED
  BY <1>1, <1>2, <1>3, <1>a, <1>b, PTL DEF Spec

\* Under the same assumptions a locked thread always has a handler that will
\* release it.
THEOREM LocksAreHeld == FaultFree /\ NoSlowTurns /\ Spec => []NoOrphanLock
<1> SUFFICES ASSUME FaultFree, NoSlowTurns PROVE Spec => []NoOrphanLock
  OBVIOUS
<1>1. Init => SerialInv
  BY SerialInit
<1>2. Quick /\ SerialInv /\ [Next]_vars => SerialInv'
  BY SerialStep
<1>a. Init => Quick
  BY QuickInit
<1>b. Quick /\ SerialInv /\ [Next]_vars => Quick'
  BY QuickStep DEF SerialInv, QuietInv
<1>3. SerialInv => NoOrphanLock
  BY DEF SerialInv, NoOrphanLock
<1> QED
  BY <1>1, <1>2, <1>3, <1>a, <1>b, PTL DEF Spec
-----------------------------------------------------------------------------
(* The safety part of the refinement of SerialThreads, step by step. *)

phases == [r \in Runs |-> PhaseOf(r)]

\* A cancel request is for a run that has been inserted.
Inserted == \A r \in cancelling : status[r] # "none"

RefInv == Quick /\ SerialInv /\ Inserted

LEMMA SamePhases ==
  ASSUME UNCHANGED status, \A q \in Runs : Executing(q)' = Executing(q)
  PROVE  UNCHANGED phases
<1>1. \A q \in Runs : PhaseOf(q)' = PhaseOf(q)
  BY DEF PhaseOf
<1> QED BY <1>1 DEF phases

LEMMA OnePhase ==
  ASSUME NEW r \in Runs, NEW p, PhaseOf(r)' = p,
         \A q \in Runs : q # r => status'[q] = status[q] /\ Executing(q)' = Executing(q)
  PROVE  phases' = [phases EXCEPT ![r] = p]
<1>1. \A q \in Runs : q # r => PhaseOf(q)' = PhaseOf(q)
  BY DEF PhaseOf
<1>2. phases' = [q \in Runs |-> IF q = r THEN p ELSE PhaseOf(q)]
  BY <1>1 DEF phases
<1> QED BY <1>2 DEF phases

\* The handlers a step moves neither into the execution of a run nor out of it.
LEMMA SameExecuting ==
  ASSUME TypeOK, NEW s \in Slots, NEW h, slot' = [slot EXCEPT ![s] = h],
         slot[s].pc # "run", h.pc # "run"
  PROVE  \A q \in Runs : Executing(q)' = Executing(q)
<1>1. slot'[s] = h /\ \A g \in Slots : g # s => slot'[g] = slot[g]
  BY DEF TypeOK
<1> QED BY <1>1 DEF Executing

LEMMA InsertedStep ==
  ASSUME TypeOK, QuietInv, Inserted, [Next]_vars
  PROVE  Inserted'
<1>1. CASE UNCHANGED vars
  BY <1>1 DEF vars, Inserted
<1>2. CASE Next
  <2>1. ASSUME NEW r \in Runs,
               PostRun(r) \/ Publish(r) \/ CancelRead(r) \/ CancelWrite(r)
                 \/ LeaseExpires(r)
        PROVE  Inserted'
    BY <2>1
    DEF PostRun, Publish, CancelRead, CancelWrite, LeaseExpires, Inserted, TypeOK
  <2>2. ASSUME NEW s \in Slots, QuietHandle(s) PROVE Inserted'
    <3>1. slot[s].pc # "free" => slot[s].run \in Runs
      BY HandlerFields
    <3>2. UNCHANGED cancelling /\ \A r \in Runs : status'[r] = "none" => status[r] = "none"
      <4>1. CASE Claim(s)
        BY <3>1, <4>1 DEF Claim, TypeOK
      <4>2. CASE \E outcome \in Terminal : Finish(s, outcome)
        BY <3>1, <4>2 DEF Finish, TypeOK, Terminal
      <4>3. CASE ~Claim(s) /\ ~\E outcome \in Terminal : Finish(s, outcome)
        BY <2>2, <4>3 DEF QuietHandle, TryAcquire, Release, TimerFires
      <4> QED BY <4>1, <4>2, <4>3
    <3>3. cancelling \subseteq Runs
      BY DEF TypeOK
    <3> QED BY <3>2, <3>3 DEF Inserted
  <2>3. ASSUME NEW s \in Slots, (\E w \in Workers : Deliver(w, s)) \/ Progress(s)
                                 \/ PollCancel(s) \/ SlowTurn(s)
        PROVE  Inserted'
    BY <2>3 DEF Deliver, Progress, PollCancel, SlowTurn, Inserted
  <2>4. ASSUME NEW w \in Workers, Reap(w) PROVE Inserted'
    BY <2>4 DEF Reap, ReaperReset, ReaperUnlock, ReaperPublish, Inserted, TypeOK
  <2> QED BY <1>2, <2>1, <2>2, <2>3, <2>4, QuietNext
<1> QED BY <1>1, <1>2

\* claimRun starts a run: its thread's lock is held by it, hence by no other.
LEMMA ClaimStarts ==
  ASSUME SerialInv, NEW s \in Slots, Claim(s)
  PROVE  Abstract!Start(slot[s].run)
<1>0. TypeOK /\ slot[s].pc = "claim"
  BY DEF SerialInv, QuietInv, Claim
<1>1. PICK r \in Runs : r = slot[s].run
  BY <1>0, HandlerFields
<1>2. /\ status[r] = "pending" /\ status' = [status EXCEPT ![r] = "running"]
      /\ slot'[s].pc = "run" /\ slot'[s].run = r
      /\ \A h \in Slots : h # s => slot'[h] = slot[h]
  BY <1>0, <1>1, Moves DEF Claim
<1>3. status'[r] = "running" /\ \A q \in Runs : q # r => status'[q] = status[q]
  BY <1>0, <1>2 DEF TypeOK
<1>4. s \in Executing(r)' /\ \A q \in Runs : q # r => Executing(q)' = Executing(q)
  BY <1>0, <1>1, <1>2 DEF Executing
<1>5. PhaseOf(r) = "waiting" /\ PhaseOf(r)' = "active"
  <2>1. Executing(r) = {}
    BY <1>2 DEF SerialInv, ExecutionInv, Executing
  <2> QED BY <1>2, <1>3, <1>4, <2>1 DEF PhaseOf, Terminal
<1>6. phases' = [phases EXCEPT ![r] = "active"]
  BY <1>3, <1>4, <1>5, OnePhase
<1>7. \A q \in Runs : ThreadOf[q] = ThreadOf[r] => phases[q] # "active"
  <2> SUFFICES ASSUME NEW q \in Runs, ThreadOf[q] = ThreadOf[r], phases[q] = "active"
               PROVE  FALSE
    OBVIOUS
  <2>1. PICK h \in Slots : slot[h].pc = "run" /\ slot[h].run = q
    BY DEF phases, PhaseOf, Executing
  <2>2. Guarded(h) /\ Guarded(s)
    BY <1>0, <1>1, <1>2, <2>1 DEF Guarded
  <2>3. lock[ThreadOf[q]] = q /\ lock[ThreadOf[r]] = r
    BY <1>1, <2>1, <2>2 DEF SerialInv, Thread
  <2>4. q = r
    BY <2>3
  <2> QED BY <1>5, <2>4 DEF phases
<1>8. phases[r] = "waiting"
  BY <1>5 DEF phases
<1> QED
  BY <1>1, <1>6, <1>7, <1>8 DEF Abstract!Start, Abstract!Busy, phases

\* finishRun completes it, whatever the outcome.
LEMMA FinishCompletes ==
  ASSUME SerialInv, NEW s \in Slots, NEW outcome \in Terminal, Finish(s, outcome)
  PROVE  Abstract!Complete(slot[s].run)
<1>0. TypeOK /\ slot[s].pc = "run"
  BY DEF SerialInv, QuietInv, Finish
<1>1. PICK r \in Runs : r = slot[s].run
  BY <1>0, HandlerFields
<1>2. PICK next \in {"ack", "nack"} : slot' = [slot EXCEPT ![s].pc = next]
  BY DEF Finish
<1>3. /\ status' = [status EXCEPT ![r] = outcome]
      /\ slot'[s].pc = next /\ slot'[s].run = r
      /\ \A h \in Slots : h # s => slot'[h] = slot[h]
  BY <1>0, <1>1, <1>2, Moves DEF Finish
<1>4. status'[r] = outcome /\ \A q \in Runs : q # r => status'[q] = status[q]
  BY <1>0, <1>3 DEF TypeOK
<1>5. s \in Executing(r) /\ \A q \in Runs : q # r => Executing(q)' = Executing(q)
  BY <1>0, <1>1, <1>3 DEF Executing
<1>6. Executing(r)' = {}
  <2>1. \A h \in Executing(r) : h = s
    BY <1>5 DEF SerialInv, ExecutionInv, OneExecutor
  <2> QED BY <1>3, <2>1 DEF Executing
<1>7. PhaseOf(r) = "active" /\ PhaseOf(r)' = "settled"
  <2>1. status[r] # "none"
    BY <1>0, <1>1 DEF SerialInv, ExecutionInv
  <2> QED BY <1>4, <1>5, <1>6, <2>1 DEF PhaseOf, Terminal
<1>8. phases' = [phases EXCEPT ![r] = "settled"] /\ phases[r] = "active"
  BY <1>4, <1>5, <1>7, OnePhase DEF phases
<1> QED
  BY <1>1, <1>8 DEF Abstract!Complete, phases

LEMMA PostSubmits ==
  ASSUME SerialInv, NEW r \in Runs, PostRun(r)
  PROVE  Abstract!Submit(r)
<1>0. TypeOK
  BY DEF SerialInv, QuietInv
<1>1. /\ status[r] = "none" /\ status'[r] = "pending"
      /\ \A q \in Runs : q # r => status'[q] = status[q]
      /\ \A q \in Runs : Executing(q)' = Executing(q)
  BY <1>0 DEF PostRun, TypeOK, Executing
<1>2. Executing(r) = {}
  BY <1>1 DEF SerialInv, ExecutionInv, Executing
<1>3. PhaseOf(r) = "absent" /\ PhaseOf(r)' = "waiting"
  BY <1>1, <1>2 DEF PhaseOf, Terminal
<1>4. phases' = [phases EXCEPT ![r] = "waiting"] /\ phases[r] = "absent"
  BY <1>1, <1>3, OnePhase DEF phases
<1> QED
  BY <1>4 DEF Abstract!Submit, phases

\* The cancel endpoint settles a waiting run, and changes no other phase.
LEMMA CancelDrops ==
  ASSUME SerialInv, Inserted, NEW r \in Runs, CancelWrite(r)
  PROVE  Abstract!Drop(r) \/ UNCHANGED phases
<1>0. TypeOK /\ status[r] # "none"
  BY DEF SerialInv, QuietInv, Inserted, CancelWrite
<1>1. /\ status'[r] = "cancelled"
      /\ \A q \in Runs : q # r => status'[q] = status[q]
      /\ \A q \in Runs : Executing(q)' = Executing(q)
  BY <1>0 DEF CancelWrite, TypeOK, Executing
<1>2. CASE Executing(r) # {} \/ status[r] \in Terminal
  <2>1. PhaseOf(r)' = PhaseOf(r)
    BY <1>0, <1>1, <1>2 DEF PhaseOf, Terminal
  <2>2. \A q \in Runs : PhaseOf(q)' = PhaseOf(q)
    BY <1>1, <2>1 DEF PhaseOf
  <2> QED BY <2>2 DEF phases
<1>3. CASE Executing(r) = {} /\ status[r] \notin Terminal
  <2>1. PhaseOf(r) = "waiting" /\ PhaseOf(r)' = "settled"
    BY <1>0, <1>1, <1>3 DEF PhaseOf, Terminal
  <2>2. phases' = [phases EXCEPT ![r] = "settled"] /\ phases[r] = "waiting"
    BY <1>1, <2>1, OnePhase DEF phases
  <2> QED BY <2>2 DEF Abstract!Drop, phases
<1> QED BY <1>2, <1>3

\* Every step of the dispatch is one of SerialThreads or changes no phase.
LEMMA PhaseStep ==
  ASSUME RefInv, [Next]_vars
  PROVE  Abstract!Next \/ UNCHANGED phases
<1>0. TypeOK /\ QuietInv /\ SerialInv /\ Inserted
  BY DEF RefInv, SerialInv, QuietInv
<1>1. CASE UNCHANGED vars
  BY <1>1, SamePhases DEF vars, Executing
<1>2. ASSUME NEW r \in Runs,
             PostRun(r) \/ Publish(r) \/ CancelRead(r) \/ CancelWrite(r)
               \/ LeaseExpires(r)
      PROVE  Abstract!Next \/ UNCHANGED phases
  <2>1. CASE PostRun(r)
    BY <1>0, <2>1, PostSubmits DEF Abstract!Next
  <2>2. CASE CancelWrite(r)
    BY <1>0, <2>2, CancelDrops DEF Abstract!Next
  <2>3. CASE Publish(r) \/ CancelRead(r) \/ LeaseExpires(r)
    BY <2>3, SamePhases DEF Publish, CancelRead, LeaseExpires, Executing
  <2> QED BY <1>2, <2>1, <2>2, <2>3
<1>3. ASSUME NEW w \in Workers, NEW s \in Slots, Deliver(w, s)
      PROVE  UNCHANGED phases
  <2> DEFINE h == [pc |-> "acquire", w |-> w, run |-> Head(queue), via |-> "open",
                   abort |-> FALSE]
  <2>1. /\ slot' = [slot EXCEPT ![s] = h] /\ UNCHANGED status
        /\ slot[s].pc # "run" /\ h.pc # "run"
    BY <1>3 DEF Deliver
  <2>2. \A q \in Runs : Executing(q)' = Executing(q)
    <3> HIDE DEF h
    <3> QED BY <1>0, <2>1, SameExecuting
  <2> QED BY <2>1, <2>2, SamePhases
<1>4. ASSUME NEW s \in Slots, QuietHandle(s)
      PROVE  Abstract!Next \/ UNCHANGED phases
  <2>0. slot[s].pc # "free" => slot[s].run \in Runs
    BY <1>0, HandlerFields
  <2>1. CASE Claim(s)
    BY <1>0, <2>0, <2>1, ClaimStarts DEF Abstract!Next, Claim
  <2>2. ASSUME NEW outcome \in Terminal, Finish(s, outcome)
        PROVE  Abstract!Next
    BY <1>0, <2>0, <2>2, FinishCompletes DEF Abstract!Next, Finish
  <2>3. CASE Release(s) \/ TimerFires(s)
    <3>1. /\ slot' = [slot EXCEPT ![s] = Free] /\ UNCHANGED status
          /\ slot[s].pc # "run" /\ Free.pc # "run"
      BY <2>3 DEF Release, TimerFires, Free
    <3> QED BY <1>0, <3>1, SameExecuting, SamePhases
  <2>4. ASSUME NEW next \in {"claim", "delayed", "release"},
               slot' = [slot EXCEPT ![s].pc = next], slot[s].pc # "run",
               UNCHANGED status
        PROVE  UNCHANGED phases
    <3>1. \A q \in Runs : Executing(q)' = Executing(q)
      BY <1>0, <2>4, Moves DEF Executing
    <3> QED BY <2>4, <3>1, SamePhases
  <2>5. CASE TryAcquire(s)
    BY <2>4, <2>5 DEF TryAcquire
  <2>6. CASE ~(\/ Claim(s) \/ Release(s) \/ TimerFires(s) \/ TryAcquire(s)
               \/ \E outcome \in Terminal : Finish(s, outcome))
    BY <1>4, <2>4, <2>6 DEF QuietHandle, Settled
  <2> QED BY <2>1, <2>2, <2>3, <2>5, <2>6
<1>5. ASSUME NEW s \in Slots, Progress(s) \/ PollCancel(s)
      PROVE  UNCHANGED phases
  <2>1. \A h \in Slots : Stays(h)
    <3>1. CASE Progress(s)
      BY <3>1 DEF Progress, Stays
    <3>2. CASE PollCancel(s)
      BY <1>0, <3>2 DEF PollCancel, Stays, TypeOK, Handlers
    <3> QED BY <1>5, <3>1, <3>2
  <2>2. \A q \in Runs : Executing(q)' = Executing(q)
    BY <2>1 DEF Executing, Stays
  <2> QED BY <1>5, <2>2, SamePhases DEF Progress, PollCancel
<1>6. \A w \in Workers : ~Reap(w)
  BY <1>0, NoReap
<1>7. \A s \in Slots : ~SlowTurn(s)
  BY DEF SlowTurn, Spend, Quick, RefInv
<1> QED
  BY <1>0, <1>1, <1>2, <1>3, <1>4, <1>5, <1>6, <1>7, QuietNext

\* Without faults and slow turns the dispatch does what SerialThreads allows and
\* nothing else: a run is submitted once, starts while no run of its thread is
\* active, and is settled once, by its execution or by a cancellation that comes
\* before it.  This is the safety part of ImplementsSerialThreads.
THEOREM DispatchRefinesThreads == FaultFree /\ NoSlowTurns /\ Spec => Abstract!Safety
<1> SUFFICES ASSUME FaultFree, NoSlowTurns PROVE Spec => Abstract!Safety
  OBVIOUS
<1>1. Init => RefInv
  BY SerialInit, QuickInit DEF RefInv, Inserted, Init, AtStart
<1>2. RefInv /\ [Next]_vars => RefInv'
  BY SerialStep, QuickStep, InsertedStep DEF RefInv, SerialInv, QuietInv
<1>3. Init => Abstract!Init
  <2> SUFFICES ASSUME Init PROVE Abstract!Init
    OBVIOUS
  <2>1. \A r \in Runs : PhaseOf(r) = "absent"
    <3>1. \A r \in Runs : status[r] = "none" /\ Executing(r) = {}
      BY DEF Init, AtStart, Executing, Free
    <3> QED BY <3>1 DEF PhaseOf, Terminal
  <2> QED BY <2>1 DEF Abstract!Init
<1>4. RefInv /\ [Next]_vars => [Abstract!Next]_phases
  BY PhaseStep
<1> QED
  BY <1>1, <1>2, <1>3, <1>4, PTL DEF Spec, Abstract!Safety, phases
=============================================================================
