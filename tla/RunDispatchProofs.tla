------------------------- MODULE RunDispatchProofs -------------------------
(***************************************************************************)
(* Theorems about RunDispatch that hold for every number of runs, threads, *)
(* workers, handlers and faults: type correctness; at most one handler     *)
(* executes a run; a run nobody cancels keeps its terminal status; and no  *)
(* fault loses a job that the broker has.                                  *)
(***************************************************************************)
EXTENDS RunDispatch, SequenceTheorems, FiniteSetTheorems, TLAPS

USE DispatchAssumption

-----------------------------------------------------------------------------
(* Type correctness. *)

\* The messages that requeueing deliveries of runs produces are runs.
LEMMA RequeueType ==
  ASSUME TypeOK, NEW S \in SUBSET Slots, \A s \in S : slot[s].run \in Runs,
         Requeue(S)
  PROVE  queue' \in Seq(Runs)
<1>1. PICK order \in SetToSeqs(S) :
        queue' = [i \in DOMAIN order |-> slot[order[i]].run] \o queue
  BY DEF Requeue
<1>2. Cardinality(S) \in Nat
  BY FS_Subset, FS_CardinalityType
<1>3. order \in [1..Cardinality(S) -> S]
  BY <1>1 DEF SetToSeqs
<1>4. [i \in DOMAIN order |-> slot[order[i]].run] \in Seq(Runs)
  BY <1>2, <1>3
<1> QED
  BY <1>1, <1>4 DEF TypeOK

\* The unsettled deliveries of a worker are deliveries of runs.
LEMMA UnsettledRuns ==
  ASSUME TypeOK, NEW w \in Workers
  PROVE  /\ Unsettled(w) \in SUBSET Slots
         /\ \A s \in Unsettled(w) : slot[s].run \in Runs
BY DEF TypeOK, Unsettled, Unacked

\* What each field of a handler's record holds.
LEMMA HandlerFields ==
  ASSUME TypeOK, NEW s \in Slots
  PROVE  /\ slot[s] \in Handlers
         /\ slot[s].pc # "free" => slot[s].w \in Workers /\ slot[s].run \in Runs
         /\ slot[s].pc # "free" => Thread(s) \in Threads
BY DEF TypeOK, Thread

\* The part of the invariant that speaks of the handlers.
SlotsOK(sl) == /\ sl \in [Slots -> Handlers]
               /\ \A s \in Slots : sl[s].pc # "free" =>
                    sl[s].w \in Workers /\ sl[s].run \in Runs

\* Changing the state of its delivery tag changes nothing else of a handler.
LEMMA ViaField ==
  ASSUME NEW h \in Handlers, NEW v \in {"open", "closed", "spent"},
         NEW new, new = [h EXCEPT !.via = v]
  PROVE  /\ new \in Handlers
         /\ new.pc = h.pc /\ new.w = h.w /\ new.run = h.run
BY DEF Handlers

LEMMA ViaOK ==
  ASSUME NEW sl, SlotsOK(sl), NEW s \in Slots,
         NEW v \in {"open", "closed", "spent"}
  PROVE  SlotsOK([sl EXCEPT ![s].via = v])
<1> DEFINE new == [sl EXCEPT ![s].via = v]
<1>1. sl[s] \in Handlers /\ new[s] = [sl[s] EXCEPT !.via = v]
  BY DEF SlotsOK
<1>2. new \in [Slots -> Handlers]
  BY <1>1, ViaField DEF SlotsOK
<1>3. \A h \in Slots : /\ new[h].pc = sl[h].pc
                       /\ new[h].w = sl[h].w
                       /\ new[h].run = sl[h].run
  <2> TAKE h \in Slots
  <2>1. CASE h = s
    BY <1>1, <2>1, ViaField
  <2>2. CASE h # s
    BY <2>2 DEF SlotsOK
  <2> QED
    BY <2>1, <2>2
<1>4. SlotsOK(new)
  <2> HIDE DEF new
  <2> QED
    BY <1>2, <1>3 DEF SlotsOK
<1> QED
  BY <1>4

LEMMA PcOK ==
  ASSUME NEW sl, SlotsOK(sl), NEW s \in Slots, NEW next \in PCs,
         sl[s].w \in Workers, sl[s].run \in Runs
  PROVE  SlotsOK([sl EXCEPT ![s].pc = next])
BY DEF SlotsOK, Handlers

LEMMA MovedOK ==
  ASSUME TypeOK, NEW s \in Slots, slot[s].pc # "free", NEW next \in PCs
  PROVE  SlotsOK([slot EXCEPT ![s].pc = next])
BY PcOK DEF TypeOK, SlotsOK

LEMMA DetachedOK ==
  ASSUME TypeOK, NEW w \in Workers
  PROVE  SlotsOK(Detached(w))
<1>1. ASSUME NEW s \in Slots
      PROVE  /\ Detached(w)[s] \in Handlers
             /\ Detached(w)[s].pc = slot[s].pc
             /\ Detached(w)[s].w = slot[s].w
             /\ Detached(w)[s].run = slot[s].run
  <2>1. slot[s] \in Handlers
    BY DEF TypeOK
  <2>2. CASE slot[s].w = w
    <3>1. Detached(w)[s] = [slot[s] EXCEPT !.via = "closed"]
      BY <2>2 DEF Detached
    <3> QED
      BY <2>1, <3>1 DEF Handlers
  <2>3. CASE slot[s].w # w
    BY <2>1, <2>3 DEF Detached
  <2> QED
    BY <2>2, <2>3
<1>2. Detached(w) \in [Slots -> Handlers]
  BY <1>1 DEF Detached
<1> QED
  BY <1>1, <1>2 DEF TypeOK, SlotsOK

LEMMA SettleType ==
  ASSUME TypeOK, NEW s \in Slots, slot[s].pc # "free", NEW back \in BOOLEAN,
         NEW next \in PCs \ {"free"}, Settle(s, back, next)
  PROVE  /\ SlotsOK(slot')
         /\ queue' \in Seq(Runs)
         /\ chan' \in [Workers -> {"open", "closed", "dead"}]
<1>1. CASE SettleOwn(s, back, next)
  <2>1. queue' \in Seq(Runs)
    BY <1>1, RequeueType, HandlerFields DEF SettleOwn, TypeOK
  <2> QED
    BY <1>1, <2>1, MovedOK DEF SettleOwn, TypeOK
<1>2. ASSUME NEW g \in Slots, SettleOther(s, g, back, next)
      PROVE  /\ SlotsOK(slot')
             /\ queue' \in Seq(Runs)
             /\ chan' = chan
  <2>0. slot[g].pc # "free" /\ slot[g].run \in Runs
    BY <1>2, HandlerFields DEF SettleOther, Unsettled, Unacked
  <2>1. queue' \in Seq(Runs)
    BY <1>2, <2>0, RequeueType DEF SettleOther, TypeOK
  <2> DEFINE spent == [slot EXCEPT ![g].via = "spent"]
             moved == [spent EXCEPT ![s].pc = next]
  <2>2. SlotsOK(spent)
    <3>1. SlotsOK(slot)
      BY DEF SlotsOK, TypeOK
    <3> QED
      BY <3>1, ViaOK
  <2>3. spent[s].w \in Workers /\ spent[s].run \in Runs
    <3>1. spent[s].w = slot[s].w /\ spent[s].run = slot[s].run
      <4>1. CASE s = g
        <5>1. spent[s] = [slot[s] EXCEPT !.via = "spent"]
          BY <4>1 DEF TypeOK
        <5> QED
          BY <5>1, HandlerFields, ViaField
      <4>2. CASE s # g
        BY <4>2 DEF TypeOK
      <4> QED
        BY <4>1, <4>2
    <3> QED
      BY <3>1, HandlerFields
  <2>4. SlotsOK(moved)
    <3> HIDE DEF spent
    <3> QED
      BY <2>2, <2>3, PcOK
  <2>5. SlotsOK(slot')
    <3>1. slot' = [moved EXCEPT ![s].via = "open"]
      BY <1>2 DEF SettleOther
    <3> HIDE DEF moved
    <3> QED
      BY <2>4, <3>1, ViaOK
  <2> QED
    BY <1>2, <2>1, <2>5 DEF SettleOther
<1>3. CASE SettleUnknown(s, next)
  <2>0. slot[s].w \in Workers
    BY HandlerFields
  <2>1. queue' \in Seq(Runs)
    BY <1>3, <2>0, RequeueType, UnsettledRuns DEF SettleUnknown
  <2> DEFINE detached == Detached(slot[s].w)
  <2>2. SlotsOK(detached)
    BY <2>0, DetachedOK
  <2>3. detached[s].w \in Workers /\ detached[s].run \in Runs
    BY <2>0, HandlerFields DEF Detached, TypeOK, Handlers
  <2>4. SlotsOK(slot')
    <3>1. slot' = [detached EXCEPT ![s].pc = next]
      BY <1>3 DEF SettleUnknown
    <3> HIDE DEF detached
    <3> QED
      BY <3>1, <2>2, <2>3, PcOK
  <2> QED
    BY <1>3, <2>0, <2>1, <2>4 DEF SettleUnknown, TypeOK
<1> QED
  BY <1>1, <1>2, <1>3 DEF Settle, TypeOK

LEMMA GuardedType ==
  ASSUME TypeOK, NEW s \in Slots, slot[s].pc # "free", NEW back \in BOOLEAN,
         SettleGuarded(s, back)
  PROVE  /\ SlotsOK(slot')
         /\ queue' \in Seq(Runs)
         /\ chan' \in [Workers -> {"open", "closed", "dead"}]
<1>1. "release" \in PCs \ {"free"}
  BY DEF PCs
<1>2. CASE Settle(s, back, "release")
  BY <1>1, <1>2, SettleType
<1>3. CASE /\ slot' = [slot EXCEPT ![s].pc = "release"]
           /\ UNCHANGED <<queue, chan>>
  <2>1. SlotsOK(slot')
    BY <1>1, <1>3, MovedOK
  <2> QED
    BY <1>3, <2>1 DEF TypeOK
<1> QED
  BY <1>2, <1>3 DEF SettleGuarded

LEMMA DieType ==
  ASSUME TypeOK, NEW w \in Workers, Die(w)
  PROVE  /\ SlotsOK(slot')
         /\ queue' \in Seq(Runs)
         /\ chan' \in [Workers -> {"open", "closed", "dead"}]
         /\ reaper' \in [Workers -> [at : {"idle", "unlock", "publish"},
                                     run : Runs \cup {None}]]
         /\ \A v \in Workers : reaper'[v].at # "idle" => reaper'[v].run \in Runs
<1>1. queue' \in Seq(Runs)
  BY RequeueType, UnsettledRuns DEF Die
<1>2. SlotsOK(slot')
  BY DEF Die, SlotsOK, TypeOK, Free, Handlers, PCs
<1>3. chan' \in [Workers -> {"open", "closed", "dead"}]
  BY DEF Die, TypeOK
<1>4. Idle \in [at : {"idle", "unlock", "publish"}, run : Runs \cup {None}]
  BY DEF Idle
<1>5. reaper' = [reaper EXCEPT ![w] = Idle]
  BY DEF Die
<1>6. reaper' \in [Workers -> [at : {"idle", "unlock", "publish"},
                              run : Runs \cup {None}]]
  BY <1>4, <1>5 DEF TypeOK
<1>7. \A v \in Workers : reaper'[v].at # "idle" => reaper'[v].run \in Runs
  BY <1>5 DEF TypeOK, Idle
<1> QED
  BY <1>1, <1>2, <1>3, <1>6, <1>7

\* Every fault spends from a finite budget.
LEMMA SpendType ==
  ASSUME TypeOK, NEW kind \in FaultKinds, Spend(kind)
  PROVE  left' \in [FaultKinds -> Nat]
BY DEF TypeOK, Spend

LEMMA TypeInit == Init => TypeOK
<1> SUFFICES ASSUME Init PROVE TypeOK
  OBVIOUS
<1>1. Free \in Handlers /\ Free.pc = "free"
  BY DEF Free, Handlers, PCs
<1>2. Idle \in [at : {"idle", "unlock", "publish"}, run : Runs \cup {None}]
  BY DEF Idle
<1>3. << >> \in Seq(Runs)
  OBVIOUS
<1> QED
  BY <1>1, <1>2, <1>3 DEF Init, AtStart, TypeOK, Statuses, Idle

LEMMA TypeStep == TypeOK /\ [Next]_vars => TypeOK'
<1> SUFFICES ASSUME TypeOK, [Next]_vars PROVE TypeOK'
  OBVIOUS
<1> USE DEF Statuses, Terminal
<1>1. ASSUME NEW r \in Runs, Web(r) PROVE TypeOK'
  <2>1. CASE PostRun(r)
    BY <2>1 DEF PostRun, TypeOK
  <2>2. CASE Publish(r)
    BY <2>2 DEF Publish, TypeOK
  <2>3. CASE PublishFails(r)
    BY <2>3, SpendType DEF PublishFails, TypeOK, FaultKinds
  <2>4. CASE CancelRead(r)
    BY <2>4 DEF CancelRead, TypeOK
  <2>5. CASE CancelWrite(r)
    BY <2>5 DEF CancelWrite, TypeOK
  <2> QED
    BY <1>1, <2>1, <2>2, <2>3, <2>4, <2>5 DEF Web
<1>2. ASSUME NEW r \in Runs, LeaseExpires(r) PROVE TypeOK'
  BY <1>2 DEF LeaseExpires, TypeOK
<1>3. ASSUME NEW w \in Workers, NEW s \in Slots, Deliver(w, s) PROVE TypeOK'
  <2>1. Head(queue) \in Runs /\ Tail(queue) \in Seq(Runs)
    BY <1>3 DEF Deliver, TypeOK
  <2>2. [pc |-> "acquire", w |-> w, run |-> Head(queue), via |-> "open",
         abort |-> FALSE] \in Handlers
    BY <2>1 DEF Handlers, PCs
  <2>3. SlotsOK(slot')
    BY <1>3, <2>1, <2>2 DEF Deliver, SlotsOK, TypeOK
  <2> QED
    BY <1>3, <2>1, <2>3 DEF Deliver, SlotsOK, TypeOK
<1>4. ASSUME NEW s \in Slots, Handle(s) PROVE TypeOK'
  <2>0. /\ slot[s] \in Handlers
        /\ slot[s].pc # "free" => slot[s].w \in Workers /\ slot[s].run \in Runs
        /\ slot[s].pc # "free" => Thread(s) \in Threads
        /\ {"claim", "run", "release", "delayed", "ack", "nack"} \in SUBSET PCs
    BY HandlerFields DEF PCs
  <2>1. CASE TryAcquire(s)
    <3>1. SlotsOK(slot')
      BY <2>0, <2>1, MovedOK DEF TryAcquire
    <3> QED
      BY <2>0, <2>1, <3>1 DEF TryAcquire, TypeOK, SlotsOK
  <2>2. CASE Busy(s)
    <3>1. SlotsOK(slot') /\ queue' \in Seq(Runs)
            /\ chan' \in [Workers -> {"open", "closed", "dead"}]
      BY <2>0, <2>2, SettleType DEF Busy
    <3> QED
      BY <2>2, <3>1 DEF Busy, TypeOK, SlotsOK
  <2>3. CASE BusyThrows(s) \/ TimerThrows(s)
    <3>1. Die(slot[s].w) /\ slot[s].w \in Workers
      BY <2>0, <2>3 DEF BusyThrows, TimerThrows
    <3> QED
      BY <2>3, <3>1, DieType DEF BusyThrows, TimerThrows, TypeOK, SlotsOK
  <2>4. CASE Claim(s)
    <3>1. SlotsOK(slot')
      BY <2>0, <2>4, MovedOK DEF Claim
    <3> QED
      BY <2>0, <2>4, <3>1 DEF Claim, TypeOK, SlotsOK
  <2>5. CASE ClaimNull(s)
    <3>1. SlotsOK(slot') /\ queue' \in Seq(Runs)
            /\ chan' \in [Workers -> {"open", "closed", "dead"}]
      BY <2>0, <2>5, GuardedType DEF ClaimNull
    <3> QED
      BY <2>5, <3>1 DEF ClaimNull, TypeOK, SlotsOK
  <2>6. ASSUME NEW outcome \in Terminal, Finish(s, outcome) PROVE TypeOK'
    <3>1. SlotsOK(slot')
      BY <2>0, <2>6, MovedOK DEF Finish
    <3> QED
      BY <2>0, <2>6, <3>1 DEF Finish, TypeOK, SlotsOK
  <2>7. CASE Acknowledge(s)
    <3>1. SlotsOK(slot') /\ queue' \in Seq(Runs)
            /\ chan' \in [Workers -> {"open", "closed", "dead"}]
      BY <2>0, <2>7, GuardedType DEF Acknowledge
    <3> QED
      BY <2>7, <3>1 DEF Acknowledge, TypeOK, SlotsOK
  <2>8. CASE Release(s)
    <3>1. SlotsOK([slot EXCEPT ![s] = Free])
      BY DEF TypeOK, SlotsOK, Free, Handlers, PCs
    <3>2. lock' \in [Threads -> Runs \cup {None}]
      BY <2>0, <2>8 DEF Release, TypeOK, Unlocked
    <3> QED
      BY <2>8, <3>1, <3>2 DEF Release, TypeOK, SlotsOK
  <2>9. CASE TimerFires(s)
    <3>1. SlotsOK([slot EXCEPT ![s] = Free])
      BY DEF TypeOK, SlotsOK, Free, Handlers, PCs
    <3>2. slot[s].run \in Runs
      BY <2>0, <2>9 DEF TimerFires
    <3>3. queue' \in Seq(Runs)
      BY <2>9, <3>2 DEF TimerFires, TypeOK
    <3> QED
      BY <2>9, <3>1, <3>3 DEF TimerFires, TypeOK, SlotsOK
  <2> QED
    BY <1>4, <2>1, <2>2, <2>3, <2>4, <2>5, <2>6, <2>7, <2>8, <2>9 DEF Handle
<1>5. ASSUME NEW s \in Slots, Upset(s) PROVE TypeOK'
  <2>0. slot[s].pc # "free" => slot[s].w \in Workers
    BY HandlerFields
  <2>1. CASE AcquireThrows(s)
    <3>1. Die(slot[s].w) /\ slot[s].w \in Workers
      BY <2>0, <2>1 DEF AcquireThrows
    <3> QED
      BY <2>1, <3>1, DieType, SpendType
      DEF AcquireThrows, TypeOK, SlotsOK, FaultKinds
  <2>2. CASE HandlerThrows(s)
    <3>1. SlotsOK(slot') /\ queue' \in Seq(Runs)
            /\ chan' \in [Workers -> {"open", "closed", "dead"}]
      BY <2>2, GuardedType DEF HandlerThrows
    <3> QED
      BY <2>2, <3>1, SpendType DEF HandlerThrows, TypeOK, SlotsOK, FaultKinds
  <2>3. CASE ReleaseFails(s)
    <3>1. SlotsOK([slot EXCEPT ![s] = Free])
      BY DEF TypeOK, SlotsOK, Free, Handlers, PCs
    <3> QED
      BY <2>3, <3>1, SpendType DEF ReleaseFails, TypeOK, SlotsOK, FaultKinds
  <2>4. CASE SlowTurn(s)
    BY <2>4, SpendType DEF SlowTurn, TypeOK, FaultKinds
  <2> QED
    BY <1>5, <2>1, <2>2, <2>3, <2>4 DEF Upset
<1>6. ASSUME NEW s \in Slots, Progress(s) \/ PollCancel(s) PROVE TypeOK'
  <2>1. CASE Progress(s)
    BY <2>1 DEF Progress, TypeOK
  <2>2. CASE PollCancel(s)
    <3>1. slot[s] \in Handlers /\ slot[s].run \in Runs /\ slot[s].w \in Workers
      BY <2>2, HandlerFields DEF PollCancel
    <3> DEFINE h == [slot[s] EXCEPT !.abort = TRUE]
    <3>2. h \in Handlers /\ h.run = slot[s].run /\ h.w = slot[s].w
      BY <3>1 DEF Handlers
    <3>3. slot' = [slot EXCEPT ![s] = h]
      BY <2>2 DEF PollCancel
    <3>4. SlotsOK(slot')
      <4> HIDE DEF h
      <4> QED
        BY <3>1, <3>2, <3>3 DEF TypeOK, SlotsOK
    <3> QED
      BY <2>2, <3>4 DEF PollCancel, TypeOK, SlotsOK
  <2> QED
    BY <1>6, <2>1, <2>2
<1>7. ASSUME NEW w \in Workers, ConnectionLost(w) PROVE TypeOK'
  <2>1. queue' \in Seq(Runs)
    BY <1>7, RequeueType, UnsettledRuns DEF ConnectionLost
  <2>2. SlotsOK(slot')
    BY <1>7, DetachedOK DEF ConnectionLost
  <2> QED
    BY <1>7, <2>1, <2>2, SpendType DEF ConnectionLost, TypeOK, SlotsOK, FaultKinds
<1>8. ASSUME NEW w \in Workers, Reconnect(w) PROVE TypeOK'
  BY <1>8 DEF Reconnect, TypeOK
<1>9. ASSUME NEW w \in Workers, Crash(w) PROVE TypeOK'
  BY <1>9, DieType, SpendType DEF Crash, TypeOK, SlotsOK, FaultKinds
<1>10. ASSUME NEW w \in Workers, Reap(w) \/ ReaperThrows(w) PROVE TypeOK'
  <2>1. ASSUME NEW r \in Runs, ReaperReset(w, r) PROVE TypeOK'
    BY <2>1 DEF ReaperReset, TypeOK
  <2>2. CASE ReaperUnlock(w)
    <3>1. reaper[w].run \in Runs /\ ThreadOf[reaper[w].run] \in Threads
      BY <2>2 DEF ReaperUnlock, TypeOK
    <3>2. lock' \in [Threads -> Runs \cup {None}]
      BY <2>2, <3>1 DEF ReaperUnlock, Unlocked, TypeOK
    <3>3. reaper' \in [Workers -> [at : {"idle", "unlock", "publish"},
                                  run : Runs \cup {None}]]
      BY <2>2 DEF ReaperUnlock, TypeOK
    <3>4. \A v \in Workers : reaper'[v].at # "idle" => reaper'[v].run \in Runs
      BY <2>2, <3>1 DEF ReaperUnlock, TypeOK
    <3> QED
      BY <2>2, <3>2, <3>3, <3>4 DEF ReaperUnlock, TypeOK
  <2>3. CASE ReaperPublish(w)
    BY <2>3 DEF ReaperPublish, TypeOK, Idle
  <2>4. CASE ReaperThrows(w)
    <3>1. left' \in [FaultKinds -> Nat]
      BY <2>4, SpendType DEF ReaperThrows, FaultKinds
    <3> QED
      BY <2>4, <3>1 DEF ReaperThrows, TypeOK, Idle
  <2> QED
    BY <1>10, <2>1, <2>2, <2>3, <2>4 DEF Reap
<1>11. CASE UNCHANGED vars
  BY <1>11 DEF vars, TypeOK
<1> QED
  BY <1>1, <1>2, <1>3, <1>4, <1>5, <1>6, <1>7, <1>8, <1>9, <1>10, <1>11
  DEF Next, Delivery

\* Every variable keeps its type, whatever goes wrong.
THEOREM TypeCorrect == Spec => []TypeOK
<1> QED
  BY TypeInit, TypeStep, PTL DEF Spec

-----------------------------------------------------------------------------
(* The elements of the queue. *)

\* The elements of a sequence after each operation of the queue.
LEMMA QueueElements ==
  ASSUME NEW q \in Seq(Runs), NEW e \in Runs
  PROVE  /\ ToSet(Append(q, e)) = ToSet(q) \cup {e}
         /\ ToSet(<<e>> \o q) = ToSet(q) \cup {e}
         /\ q # << >> => ToSet(q) = ToSet(Tail(q)) \cup {Head(q)}
<1>0. ASSUME NEW p \in Seq(Runs), NEW x
      PROVE  x \in ToSet(p) <=> \E i \in 1..Len(p) : x = p[i]
  BY DEF ToSet
<1>1. ToSet(Append(q, e)) = ToSet(q) \cup {e}
  <2> DEFINE p == Append(q, e)
  <2>1. /\ p \in Seq(Runs) /\ Len(p) = Len(q) + 1 /\ p[Len(q) + 1] = e
        /\ \A i \in 1..Len(q) : p[i] = q[i]
    OBVIOUS
  <2>2. ASSUME NEW x PROVE x \in ToSet(p) <=> x \in ToSet(q) \cup {e}
    <3> HIDE DEF p
    <3>1. x \in ToSet(p) <=> \E i \in 1..Len(p) : x = p[i]
      BY <1>0, <2>1
    <3>2. x \in ToSet(q) <=> \E i \in 1..Len(q) : x = q[i]
      BY <1>0
    <3>3. ASSUME NEW i \in 1..Len(p), x = p[i]
          PROVE  x = e \/ \E j \in 1..Len(q) : x = q[j]
      <4>1. i = Len(q) + 1 \/ (i \in 1..Len(q) /\ x = q[i])
        BY <2>1, <3>3
      <4> QED
        BY <2>1, <3>3, <4>1
    <3>4. ASSUME NEW j \in 1..Len(q), x = q[j]
          PROVE  j \in 1..Len(p) /\ x = p[j]
      BY <2>1, <3>4
    <3>5. Len(q) + 1 \in 1..Len(p)
      BY <2>1
    <3> QED
      BY <2>1, <3>1, <3>2, <3>3, <3>4, <3>5
  <2> QED
    BY <2>2
<1>2. ToSet(<<e>> \o q) = ToSet(q) \cup {e}
  <2> DEFINE p == <<e>> \o q
  <2>1. /\ p \in Seq(Runs) /\ Len(p) = Len(q) + 1 /\ p[1] = e
        /\ \A i \in 1..Len(q) : p[i + 1] = q[i]
    OBVIOUS
  <2>2. ASSUME NEW x PROVE x \in ToSet(p) <=> x \in ToSet(q) \cup {e}
    <3> HIDE DEF p
    <3>1. x \in ToSet(p) <=> \E i \in 1..Len(p) : x = p[i]
      BY <1>0, <2>1
    <3>2. x \in ToSet(q) <=> \E i \in 1..Len(q) : x = q[i]
      BY <1>0
    <3>3. ASSUME NEW i \in 1..Len(p), x = p[i]
          PROVE  x = e \/ \E j \in 1..Len(q) : x = q[j]
      <4>1. i = 1 \/ (i - 1 \in 1..Len(q) /\ x = q[i - 1])
        BY <2>1, <3>3
      <4> QED
        BY <2>1, <3>3, <4>1
    <3>4. ASSUME NEW j \in 1..Len(q), x = q[j]
          PROVE  j + 1 \in 1..Len(p) /\ x = p[j + 1]
      BY <2>1, <3>4
    <3>5. 1 \in 1..Len(p)
      BY <2>1
    <3> QED
      BY <2>1, <3>1, <3>2, <3>3, <3>4, <3>5
  <2> QED
    BY <2>2
<1>3. q # << >> => ToSet(q) = ToSet(Tail(q)) \cup {Head(q)}
  <2> SUFFICES ASSUME q # << >> PROVE ToSet(q) = ToSet(Tail(q)) \cup {Head(q)}
    OBVIOUS
  <2> DEFINE p == Tail(q)
  <2>1. /\ p \in Seq(Runs) /\ Len(q) = Len(p) + 1 /\ Head(q) = q[1]
        /\ Len(p) \in Nat
        /\ \A i \in 1..Len(p) : p[i] = q[i + 1]
    OBVIOUS
  <2>2. ASSUME NEW x PROVE x \in ToSet(q) <=> x \in ToSet(p) \cup {Head(q)}
    <3> HIDE DEF p
    <3>1. x \in ToSet(p) <=> \E i \in 1..Len(p) : x = p[i]
      BY <1>0, <2>1
    <3>2. x \in ToSet(q) <=> \E i \in 1..Len(q) : x = q[i]
      BY <1>0
    <3>3. ASSUME NEW i \in 1..Len(q), x = q[i]
          PROVE  x = Head(q) \/ \E j \in 1..Len(p) : x = p[j]
      <4>1. i = 1 \/ (i - 1 \in 1..Len(p) /\ x = p[i - 1])
        BY <2>1, <3>3
      <4> QED
        BY <2>1, <3>3, <4>1
    <3>4. ASSUME NEW j \in 1..Len(p), x = p[j]
          PROVE  j + 1 \in 1..Len(q) /\ x = q[j + 1]
      BY <2>1, <3>4
    <3>5. 1 \in 1..Len(q)
      BY <2>1
    <3> QED
      BY <2>1, <3>1, <3>2, <3>3, <3>4, <3>5
  <2> QED
    BY <2>2
<1> QED
  BY <1>1, <1>2, <1>3

\* What the broker requeues is added to what waits.
LEMMA RequeueKeeps ==
  ASSUME TypeOK, NEW S \in SUBSET Slots, \A s \in S : slot[s].run \in Runs,
         Requeue(S)
  PROVE  ToSet(queue) \subseteq ToSet(queue')
<1>1. PICK order \in SetToSeqs(S) :
        queue' = [i \in DOMAIN order |-> slot[order[i]].run] \o queue
  BY DEF Requeue
<1> DEFINE p == [i \in DOMAIN order |-> slot[order[i]].run]
<1>2. Cardinality(S) \in Nat
  BY FS_Subset, FS_CardinalityType
<1>3. order \in [1..Cardinality(S) -> S]
  BY <1>1 DEF SetToSeqs
<1>4. p \in Seq(Runs) /\ queue \in Seq(Runs) /\ queue' = p \o queue
  <2>1. p \in Seq(Runs)
    BY <1>2, <1>3
  <2> QED
    BY <1>1, <2>1 DEF TypeOK
<1> HIDE DEF p
<1>5. ASSUME NEW i \in 1..Len(queue)
      PROVE  Len(p) + i \in 1..Len(queue') /\ queue'[Len(p) + i] = queue[i]
  <2>1. Len(p) \in Nat /\ Len(queue) \in Nat
    BY <1>4
  <2>2. /\ Len(p) + i \in 1 .. Len(p) + Len(queue)
        /\ ~(Len(p) + i <= Len(p))
        /\ (Len(p) + i) - Len(p) = i
    BY <2>1
  <2>3. /\ Len(p \o queue) = Len(p) + Len(queue)
        /\ \A k \in 1 .. Len(p) + Len(queue) :
             (p \o queue)[k] = IF k <= Len(p) THEN p[k] ELSE queue[k - Len(p)]
    BY <1>4, ConcatProperties
  <2>4. (p \o queue)[Len(p) + i] = queue[i]
    BY <2>2, <2>3
  <2> QED
    BY <1>4, <2>2, <2>3, <2>4
<1>6. queue' \in Seq(Runs)
  BY <1>4
<1>7. ASSUME NEW q \in Seq(Runs), NEW x
      PROVE  x \in ToSet(q) <=> \E i \in 1..Len(q) : x = q[i]
  BY DEF ToSet
<1>8. ASSUME NEW x \in ToSet(queue) PROVE x \in ToSet(queue')
  <2>1. PICK i \in 1..Len(queue) : x = queue[i]
    BY <1>4, <1>7
  <2> QED
    BY <1>5, <1>6, <1>7, <2>1
<1> QED
  BY <1>8

\* Every message the broker takes back is in the queue.
LEMMA RequeueAdds ==
  ASSUME TypeOK, NEW S \in SUBSET Slots, \A s \in S : slot[s].run \in Runs,
         Requeue(S), NEW s \in S
  PROVE  slot[s].run \in ToSet(queue')
<1>1. PICK order \in SetToSeqs(S) :
        queue' = [i \in DOMAIN order |-> slot[order[i]].run] \o queue
  BY DEF Requeue
<1> DEFINE n == Cardinality(S)
           p == [i \in DOMAIN order |-> slot[order[i]].run]
<1>2. IsFiniteSet(S) /\ n \in Nat
  BY FS_Subset, FS_CardinalityType
<1>3. order \in Injection(1..n, S)
  BY <1>1 DEF SetToSeqs, Injection, IsInjective
<1>4. Cardinality(1..n) = n
  BY <1>2, FS_Interval
<1>5. order \in Surjection(1..n, S)
  BY <1>2, <1>3, <1>4, FS_Injection
<1>6. PICK i \in 1..n : order[i] = s
  BY <1>5 DEF Surjection
<1>7. DOMAIN order = 1..n
  BY <1>5 DEF Surjection
<1>8. p \in Seq(Runs) /\ Len(p) = n /\ p[i] = slot[s].run
  BY <1>2, <1>5, <1>6, <1>7 DEF Surjection
<1>9. queue' = p \o queue /\ queue \in Seq(Runs)
  BY <1>1 DEF TypeOK
<1> HIDE DEF p, n
<1>10. i \in 1..Len(queue') /\ queue'[i] = slot[s].run /\ queue' \in Seq(Runs)
  <2>1. i \in Nat /\ Len(queue) \in Nat /\ n \in Nat /\ 1 <= i /\ i <= n
    BY <1>2, <1>6, <1>9
  <2>2. /\ Len(p \o queue) = Len(p) + Len(queue)
        /\ \A k \in 1 .. Len(p) + Len(queue) :
             (p \o queue)[k] = IF k <= Len(p) THEN p[k] ELSE queue[k - Len(p)]
    <3>1. p \in Seq(Runs) /\ queue \in Seq(Runs)
      BY <1>8, <1>9
    <3> QED BY <3>1, ConcatProperties
  <2>3. p \o queue \in Seq(Runs)
    BY <1>8, <1>9
  <2> QED
    BY <1>8, <1>9, <2>1, <2>2, <2>3
<1> QED
  BY <1>10 DEF ToSet

-----------------------------------------------------------------------------
(* One execution per run. *)

\* A handler that executes after the step was executing the same run before.
NoneStarts == \A s \in Slots : slot'[s].pc = "run" =>
                slot[s].pc = "run" /\ slot'[s].run = slot[s].run

LEMMA NoneStartsMove ==
  ASSUME TypeOK, NEW s \in Slots, NEW next \in PCs \ {"run"},
         slot' = [slot EXCEPT ![s].pc = next]
  PROVE  NoneStarts
BY DEF TypeOK, Handlers, NoneStarts

LEMMA DetachedFields ==
  ASSUME TypeOK, NEW w \in Workers, NEW s \in Slots
  PROVE  /\ Detached(w)[s].pc = slot[s].pc
         /\ Detached(w)[s].run = slot[s].run
<1>1. slot[s] \in Handlers
  BY DEF TypeOK
<1>2. CASE slot[s].w = w
  <2>1. Detached(w)[s] = [slot[s] EXCEPT !.via = "closed"]
    BY <1>2 DEF Detached
  <2> QED
    BY <1>1, <2>1, ViaField
<1>3. CASE slot[s].w # w
  BY <1>3 DEF Detached
<1> QED
  BY <1>2, <1>3

LEMMA NoneStartsSettle ==
  ASSUME TypeOK, NEW s \in Slots, slot[s].pc # "free", NEW back \in BOOLEAN,
         NEW next \in PCs \ {"run"}, Settle(s, back, next)
  PROVE  NoneStarts
<1>1. CASE SettleOwn(s, back, next)
  BY <1>1, NoneStartsMove DEF SettleOwn
<1>2. ASSUME NEW g \in Slots, SettleOther(s, g, back, next) PROVE NoneStarts
  <2> DEFINE spent == [slot EXCEPT ![g].via = "spent"]
             moved == [spent EXCEPT ![s].pc = next]
             new == [moved EXCEPT ![s].via = "open"]
  <2>1. slot' = new
    BY <1>2 DEF SettleOther
  <2>2. ASSUME NEW h \in Slots
        PROVE  spent[h] \in Handlers /\ spent[h].pc = slot[h].pc
                 /\ spent[h].run = slot[h].run
    BY ViaField DEF TypeOK
  <2>3. new[s].pc = next
    BY <2>2 DEF TypeOK, Handlers
  <2>4. ASSUME NEW h \in Slots, h # s PROVE new[h] = spent[h]
    BY <2>4 DEF TypeOK
  <2> HIDE DEF new, spent
  <2> QED
    BY <2>1, <2>2, <2>3, <2>4 DEF NoneStarts
<1>3. CASE SettleUnknown(s, next)
  <2>1. slot[s].w \in Workers
    BY HandlerFields
  <2> DEFINE detached == Detached(slot[s].w)
  <2>2. slot' = [detached EXCEPT ![s].pc = next]
    BY <1>3 DEF SettleUnknown
  <2>3. \A h \in Slots : detached[h].pc = slot[h].pc
                           /\ detached[h].run = slot[h].run
    BY <2>1, DetachedFields
  <2>4. detached \in [Slots -> Handlers]
    BY <2>1, DetachedOK DEF SlotsOK
  <2> HIDE DEF detached
  <2> QED
    BY <2>2, <2>3, <2>4 DEF NoneStarts, Handlers
<1> QED
  BY <1>1, <1>2, <1>3 DEF Settle

LEMMA NoneStartsGuarded ==
  ASSUME TypeOK, NEW s \in Slots, slot[s].pc # "free", NEW back \in BOOLEAN,
         SettleGuarded(s, back)
  PROVE  NoneStarts
<1>1. "release" \in PCs \ {"run"}
  BY DEF PCs
<1> QED
  BY <1>1, NoneStartsSettle, NoneStartsMove DEF SettleGuarded

LEMMA NoneStartsDie ==
  ASSUME TypeOK, NEW w \in Workers, Die(w)
  PROVE  NoneStarts
BY DEF Die, NoneStarts, TypeOK, Free

\* A step that starts nothing and leaves the runs' documents alone.
LEMMA ExecutionCalm ==
  ASSUME ExecutionInv, TypeOK', NoneStarts, UNCHANGED <<status, stale>>
  PROVE  ExecutionInv'
<1>1. \A s \in Slots : slot'[s].pc = "run"
                         => status'[slot'[s].run] \notin {"none", "pending"}
  BY DEF ExecutionInv, NoneStarts
<1>2. \A r \in Runs : Executing(r)' \in SUBSET Executing(r)
  BY DEF Executing, NoneStarts
<1> QED
  BY <1>1, <1>2 DEF ExecutionInv, OneExecutor

LEMMA ExecutionInit == Init => ExecutionInv
<1> SUFFICES ASSUME Init PROVE ExecutionInv
  OBVIOUS
<1>1. \A s \in Slots : slot[s].pc = "free"
  BY DEF Init, AtStart, Free
<1> QED
  BY <1>1, TypeInit DEF Init, AtStart, ExecutionInv, OneExecutor, Executing

\* A step changes the budget only by spending a fault.
LEMMA Spending ==
  ASSUME [Next]_vars
  PROVE  UNCHANGED left \/ \E kind \in FaultKinds : Spend(kind)
<1>1. ASSUME NEW r \in Runs, Web(r) \/ LeaseExpires(r)
      PROVE  UNCHANGED left \/ Spend("refuse")
  BY <1>1 DEF Web, PostRun, Publish, PublishFails, CancelRead, CancelWrite,
              LeaseExpires
<1>2. ASSUME NEW s \in Slots,
             Handle(s) \/ Upset(s) \/ Progress(s) \/ PollCancel(s)
      PROVE  UNCHANGED left \/ Spend("mongo") \/ Spend("slow")
  BY <1>2 DEF Handle, Upset, Progress, PollCancel, TryAcquire, Busy,
              BusyThrows, Claim, ClaimNull, Finish, Acknowledge, Release,
              TimerFires, TimerThrows, AcquireThrows, HandlerThrows,
              ReleaseFails, SlowTurn
<1>3. ASSUME NEW w \in Workers, \/ ConnectionLost(w) \/ Reconnect(w)
                                \/ Crash(w) \/ Reap(w) \/ ReaperThrows(w)
      PROVE  \/ UNCHANGED left \/ Spend("drop") \/ Spend("crash")
             \/ Spend("mongo") \/ Spend("refuse")
  BY <1>3 DEF ConnectionLost, Reconnect, Crash, Reap, ReaperThrows,
              ReaperReset, ReaperUnlock, ReaperPublish
<1>4. Delivery => UNCHANGED left
  BY DEF Delivery, Deliver
<1>5. UNCHANGED vars => UNCHANGED left
  BY DEF vars
<1> QED
  BY <1>1, <1>2, <1>3, <1>4, <1>5 DEF Next, FaultKinds

\* No turn can be slow.
Quick == left["slow"] = 0

LEMMA QuickInit == NoSlowTurns /\ Init => Quick
BY DEF NoSlowTurns, Init, AtStart, Quick

LEMMA QuickStep ==
  ASSUME TypeOK, Quick, [Next]_vars
  PROVE  Quick'
<1>1. ASSUME NEW kind \in FaultKinds, Spend(kind) PROVE Quick'
  <2>1. kind # "slow"
    BY <1>1 DEF Spend, Quick
  <2> QED
    BY <1>1, <2>1 DEF Spend, Quick, TypeOK, FaultKinds
<1> QED
  BY <1>1, Spending DEF Quick

LEMMA QuickNeverSlow == Quick => ~Spend("slow")
BY DEF Quick, Spend

LEMMA ExecutionStep ==
  ASSUME ~Spend("slow"), ExecutionInv, [Next]_vars
  PROVE  ExecutionInv'
<1>0. TypeOK /\ TypeOK'
  BY TypeStep DEF ExecutionInv
<1>a. ASSUME NEW s \in Slots
      PROVE  slot[s].pc # "free" => slot[s].w \in Workers /\ slot[s].run \in Runs
  BY <1>0, HandlerFields
<1>1. ASSUME NEW r \in Runs, Web(r) PROVE ExecutionInv'
  <2>0. UNCHANGED slot
    BY <1>1 DEF Web, PostRun, Publish, PublishFails, CancelRead, CancelWrite
  <2>1. UNCHANGED <<status, stale>> => ExecutionInv'
    BY <1>0, <2>0, ExecutionCalm DEF NoneStarts
  <2>2. ASSUME UNCHANGED stale \/ stale' = [stale EXCEPT ![r] = FALSE],
               NEW v, status' = [status EXCEPT ![r] = v],
               v # "running", v \notin {"none", "pending"} \/ status[r] = "none"
        PROVE  ExecutionInv'
    <3>1. \A q \in Runs : Executing(q)' = Executing(q)
      BY <2>0 DEF Executing
    <3>2. \A s \in Slots : slot'[s].pc = "run"
                             => status'[slot'[s].run] \notin {"none", "pending"}
      BY <1>0, <1>a, <2>0, <2>2 DEF ExecutionInv, TypeOK
    <3>3. \A q \in Runs : stale'[q] /\ status'[q] = "running"
                            => Executing(q)' = {}
      BY <1>0, <2>2, <3>1 DEF ExecutionInv, TypeOK
    <3> QED
      BY <1>0, <3>1, <3>2, <3>3 DEF ExecutionInv, OneExecutor
  <2> QED
    BY <1>1, <2>1, <2>2
    DEF Web, PostRun, Publish, PublishFails, CancelRead, CancelWrite
<1>2. ASSUME NEW r \in Runs, LeaseExpires(r) PROVE ExecutionInv'
  <2>1. Executing(r) = {} /\ UNCHANGED <<status, slot>>
    BY <1>2 DEF LeaseExpires
  <2>2. \A q \in Runs : Executing(q)' = Executing(q)
    BY <2>1 DEF Executing
  <2>3. \A q \in Runs : q # r => stale'[q] = stale[q]
    BY <1>0, <1>2 DEF LeaseExpires, TypeOK
  <2> QED
    BY <1>0, <2>1, <2>2, <2>3 DEF ExecutionInv, OneExecutor
<1>3. ASSUME NEW w \in Workers, NEW s \in Slots, Deliver(w, s)
      PROVE  ExecutionInv'
  <2>1. NoneStarts
    BY <1>0, <1>3 DEF Deliver, NoneStarts, TypeOK
  <2> QED
    BY <1>0, <1>3, <2>1, ExecutionCalm DEF Deliver
<1>4. ASSUME NEW s \in Slots, Handle(s) PROVE ExecutionInv'
  <2>0. {"claim", "release", "delayed", "ack", "nack"} \in SUBSET (PCs \ {"run"})
    BY DEF PCs
  <2>1. CASE TryAcquire(s)
    <3>1. NoneStarts
      BY <1>0, <2>0, <2>1, NoneStartsMove DEF TryAcquire
    <3> QED
      BY <1>0, <2>1, <3>1, ExecutionCalm DEF TryAcquire
  <2>2. CASE Busy(s)
    <3>1. NoneStarts
      BY <1>0, <2>0, <2>2, NoneStartsSettle DEF Busy
    <3> QED
      BY <1>0, <2>2, <3>1, ExecutionCalm DEF Busy
  <2>3. CASE BusyThrows(s) \/ TimerThrows(s)
    <3>1. NoneStarts
      BY <1>0, <1>a, <2>3, NoneStartsDie DEF BusyThrows, TimerThrows
    <3> QED
      BY <1>0, <2>3, <3>1, ExecutionCalm DEF BusyThrows, TimerThrows
  <2>4. CASE Claim(s)
    <3>0. PICK r \in Runs : r = slot[s].run
      BY <1>a, <2>4 DEF Claim
    <3>1. status[r] = "pending"
      BY <2>4, <3>0 DEF Claim
    <3>2. \A h \in Slots : slot[h].pc = "run" => slot[h].run # r
      BY <3>1 DEF ExecutionInv
    <3>3. \A h \in Slots : /\ slot'[h].run = slot[h].run
                           /\ slot'[h].pc = IF h = s THEN "run" ELSE slot[h].pc
      BY <1>0, <2>4 DEF Claim, TypeOK, Handlers
    <3>4. status' = [status EXCEPT ![r] = "running"]
            /\ stale' = [stale EXCEPT ![r] = FALSE]
      BY <2>4, <3>0 DEF Claim
    <3>5. Executing(r)' = {s}
      BY <3>0, <3>2, <3>3 DEF Executing
    <3>6. \A q \in Runs : q # r => Executing(q)' = Executing(q)
      BY <3>0, <3>3 DEF Executing
    <3>7. \A h \in Slots : slot'[h].pc = "run"
                             => status'[slot'[h].run] \notin {"none", "pending"}
      BY <1>0, <1>a, <3>0, <3>3, <3>4 DEF ExecutionInv, TypeOK
    <3>8. \A q \in Runs : stale'[q] /\ status'[q] = "running"
                            => Executing(q)' = {}
      BY <1>0, <3>1, <3>4, <3>6 DEF ExecutionInv, TypeOK
    <3>9. ASSUME NEW q \in Runs, NEW s1 \in Executing(q)', NEW s2 \in Executing(q)'
          PROVE  s1 = s2
      <4>1. CASE q = r
        BY <3>5, <3>9, <4>1
      <4>2. CASE q # r
        <5>1. s1 \in Executing(q) /\ s2 \in Executing(q)
          BY <3>6, <3>9, <4>2
        <5> QED
          BY <5>1 DEF ExecutionInv, OneExecutor
      <4> QED
        BY <4>1, <4>2
    <3> QED
      BY <1>0, <3>7, <3>8, <3>9 DEF ExecutionInv, OneExecutor
  <2>5. CASE ClaimNull(s)
    <3>1. NoneStarts
      BY <1>0, <2>5, NoneStartsGuarded DEF ClaimNull
    <3> QED
      BY <1>0, <2>5, <3>1, ExecutionCalm DEF ClaimNull
  <2>6. ASSUME NEW outcome \in Terminal, Finish(s, outcome)
        PROVE  ExecutionInv'
    <3> DEFINE r == slot[s].run
    <3>1. r \in Runs /\ outcome \notin {"none", "pending", "running"}
      BY <1>a, <2>6 DEF Finish, Terminal
    <3>2. NoneStarts
      BY <1>0, <2>0, <2>6, NoneStartsMove DEF Finish
    <3>3. status' = [status EXCEPT ![r] = outcome]
            /\ stale' = [stale EXCEPT ![r] = FALSE]
      BY <2>6 DEF Finish
    <3>4. \A q \in Runs : Executing(q)' \in SUBSET Executing(q)
      BY <3>2 DEF Executing, NoneStarts
    <3>5. \A h \in Slots : slot'[h].pc = "run"
                             => status'[slot'[h].run] \notin {"none", "pending"}
      BY <1>0, <1>a, <3>1, <3>2, <3>3 DEF ExecutionInv, TypeOK, NoneStarts
    <3>6. \A q \in Runs : stale'[q] /\ status'[q] = "running"
                            => Executing(q)' = {}
      BY <1>0, <3>1, <3>3, <3>4 DEF ExecutionInv, TypeOK
    <3> QED
      BY <1>0, <3>4, <3>5, <3>6 DEF ExecutionInv, OneExecutor
  <2>7. CASE Acknowledge(s)
    <3>1. NoneStarts
      BY <1>0, <2>7, NoneStartsGuarded DEF Acknowledge
    <3> QED
      BY <1>0, <2>7, <3>1, ExecutionCalm DEF Acknowledge
  <2>8. CASE Release(s) \/ TimerFires(s)
    <3>1. NoneStarts
      <4>1. slot' = [slot EXCEPT ![s] = Free]
        BY <2>8 DEF Release, TimerFires
      <4> QED
        BY <1>0, <4>1 DEF NoneStarts, Free, TypeOK
    <3> QED
      BY <1>0, <2>8, <3>1, ExecutionCalm DEF Release, TimerFires
  <2> QED
    BY <1>4, <2>1, <2>2, <2>3, <2>4, <2>5, <2>6, <2>7, <2>8 DEF Handle
<1>5. ASSUME NEW s \in Slots, Upset(s) PROVE ExecutionInv'
  <2>0. ~SlowTurn(s)
    BY DEF SlowTurn
  <2>1. NoneStarts
    <3>1. CASE AcquireThrows(s)
      BY <1>0, <1>a, <3>1, NoneStartsDie DEF AcquireThrows
    <3>2. CASE HandlerThrows(s)
      BY <1>0, <3>2, NoneStartsGuarded DEF HandlerThrows
    <3>3. CASE ReleaseFails(s)
      BY <1>0, <3>3 DEF ReleaseFails, NoneStarts, Free, TypeOK
    <3> QED
      BY <1>5, <2>0, <3>1, <3>2, <3>3 DEF Upset
  <2> QED
    BY <1>0, <1>5, <2>0, <2>1, ExecutionCalm
    DEF Upset, AcquireThrows, HandlerThrows, ReleaseFails
<1>6. ASSUME NEW s \in Slots, Progress(s) PROVE ExecutionInv'
  <2>1. \A q \in Runs : Executing(q)' = Executing(q)
    BY <1>6 DEF Progress, Executing
  <2>2. \A q \in Runs : stale'[q] => stale[q]
    BY <1>0, <1>6 DEF Progress, TypeOK
  <2> QED
    BY <1>0, <1>6, <2>1, <2>2 DEF Progress, ExecutionInv, OneExecutor
<1>7. ASSUME NEW s \in Slots, PollCancel(s) PROVE ExecutionInv'
  <2>1. NoneStarts
    BY <1>0, <1>7 DEF PollCancel, NoneStarts, TypeOK, Handlers
  <2> QED
    BY <1>0, <1>7, <2>1, ExecutionCalm DEF PollCancel
<1>8. ASSUME NEW w \in Workers,
             \/ ConnectionLost(w) \/ Reconnect(w) \/ Crash(w)
             \/ ReaperUnlock(w) \/ ReaperPublish(w) \/ ReaperThrows(w)
      PROVE  ExecutionInv'
  <2>1. NoneStarts
    <3>1. CASE ConnectionLost(w)
      BY <1>0, <3>1, DetachedFields DEF ConnectionLost, NoneStarts
    <3>2. CASE Crash(w)
      BY <1>0, <3>2, NoneStartsDie DEF Crash
    <3>3. CASE UNCHANGED slot
      BY <3>3 DEF NoneStarts
    <3> QED
      BY <1>8, <3>1, <3>2, <3>3
      DEF Reconnect, ReaperUnlock, ReaperPublish, ReaperThrows
  <2>2. UNCHANGED <<status, stale>>
    BY <1>8 DEF ConnectionLost, Crash, Reconnect, ReaperUnlock, ReaperPublish,
                ReaperThrows
  <2> QED
    BY <1>0, <2>1, <2>2, ExecutionCalm
<1>9. ASSUME NEW w \in Workers, NEW r \in Runs, ReaperReset(w, r)
      PROVE  ExecutionInv'
  <2>1. Executing(r) = {} /\ UNCHANGED slot
    BY <1>9 DEF ReaperReset, ExecutionInv
  <2>2. \A q \in Runs : Executing(q)' = Executing(q)
    BY <2>1 DEF Executing
  <2>3. status' = [status EXCEPT ![r] = "pending"]
          /\ stale' = [stale EXCEPT ![r] = FALSE]
    BY <1>9 DEF ReaperReset
  <2>4. \A s \in Slots : slot'[s].pc = "run"
                           => status'[slot'[s].run] \notin {"none", "pending"}
    BY <1>0, <1>a, <2>1, <2>3 DEF ExecutionInv, TypeOK, Executing
  <2>5. \A q \in Runs : stale'[q] /\ status'[q] = "running"
                          => Executing(q)' = {}
    BY <1>0, <2>2, <2>3 DEF ExecutionInv, TypeOK
  <2> QED
    BY <1>0, <2>2, <2>4, <2>5 DEF ExecutionInv, OneExecutor
<1>10. CASE UNCHANGED vars
  BY <1>0, <1>10, ExecutionCalm DEF vars, NoneStarts
<1> QED
  BY <1>1, <1>2, <1>3, <1>4, <1>5, <1>6, <1>7, <1>8, <1>9, <1>10
  DEF Next, Delivery, Reap

\* The slow turns spent so far: a step that leaves none behind spends none.
LeaseInv == TypeOK /\ left["slow"] <= Budget["slow"]

LEMMA PromptStep ==
  ASSUME LeaseInv, [Next]_vars
  PROVE  /\ LeaseInv'
         /\ Prompt' => Prompt /\ ~Spend("slow")
<1>0. TypeOK /\ TypeOK' /\ "slow" \in FaultKinds
  BY TypeStep DEF LeaseInv, FaultKinds
<1>1. left["slow"] \in Nat /\ Budget["slow"] \in Nat
  BY <1>0, DispatchAssumption DEF TypeOK
<1>2. CASE UNCHANGED left
  BY <1>0, <1>1, <1>2 DEF LeaseInv, Prompt, Spend, TypeOK
<1>3. ASSUME NEW kind \in FaultKinds, Spend(kind)
      PROVE  /\ left'["slow"] <= Budget["slow"]
             /\ Prompt' => Prompt /\ ~Spend("slow")
  BY <1>0, <1>1, <1>3 DEF LeaseInv, Prompt, Spend, TypeOK
<1> QED
  BY <1>0, <1>2, <1>3, Spending DEF LeaseInv

LEMMA LeaseInit == Init => LeaseInv
BY TypeInit, DispatchAssumption DEF Init, AtStart, LeaseInv, FaultKinds

\* Two handlers never execute the same run, whatever crashes, dropped
\* connections, database errors and refused publications do to its job, until
\* a live run has outlasted the reaper's lease.
THEOREM OneExecution == Spec => []SingleExecution
<1> DEFINE Inv == LeaseInv /\ (Prompt => ExecutionInv)
<1>1. Init => Inv
  BY LeaseInit, ExecutionInit
<1>2. Inv /\ [Next]_vars => Inv'
  BY PromptStep, ExecutionStep
<1>3. Inv => SingleExecution
  BY DEF ExecutionInv, SingleExecution
<1> QED
  BY <1>1, <1>2, <1>3, PTL DEF Spec


-----------------------------------------------------------------------------
(* Terminal statuses. *)

LEMMA EndingCalm ==
  ASSUME EndingInv, ExecutionInv', NoneStarts,
         UNCHANGED status
  PROVE  EndingInv'
BY DEF EndingInv, NoneStarts

LEMMA EndingStep ==
  ASSUME ~Spend("slow"), EndingInv, [Next]_vars
  PROVE  EndingInv' /\ \A r \in Runs : StaysTerminal(r)
<1>0. TypeOK /\ TypeOK' /\ ExecutionInv /\ ExecutionInv'
  BY ExecutionStep DEF EndingInv, ExecutionInv
<1>a. ASSUME NEW s \in Slots
      PROVE  slot[s].pc # "free" => slot[s].w \in Workers /\ slot[s].run \in Runs
  BY <1>0, HandlerFields
<1> DEFINE Goal == EndingInv' /\ \A r \in Runs : StaysTerminal(r)
<1>b. ASSUME NoneStarts, UNCHANGED status PROVE Goal
  BY <1>0, <1>b, EndingCalm DEF StaysTerminal
\* A step that moves one document from outside Terminal.
<1>c. ASSUME NEW r \in Runs, NEW v, status' = [status EXCEPT ![r] = v],
             status[r] \notin Terminal
      PROVE  \A q \in Runs : StaysTerminal(q)
  BY <1>0, <1>c DEF StaysTerminal, TypeOK
<1>1. ASSUME NEW r \in Runs, Web(r) PROVE Goal
  <2>1. CASE CancelWrite(r)
    <3>1. /\ r \in cancelling
          /\ status' = [status EXCEPT ![r] = "cancelled"]
          /\ UNCHANGED slot
      BY <2>1 DEF CancelWrite
    <3>2. \A q \in Runs : StaysTerminal(q)
      BY <1>0, <3>1 DEF StaysTerminal, TypeOK, Terminal
    <3>3. EndingInv'
      BY <1>0, <1>a, <3>1 DEF EndingInv, TypeOK
    <3> QED
      BY <3>2, <3>3
  <2>2. CASE PostRun(r)
    <3>1. status[r] = "none" /\ status' = [status EXCEPT ![r] = "pending"]
            /\ UNCHANGED slot
      BY <2>2 DEF PostRun
    <3>2. \A q \in Runs : StaysTerminal(q)
      BY <1>c, <3>1 DEF Terminal
    <3>3. EndingInv'
      BY <1>0, <1>a, <3>1 DEF EndingInv, TypeOK
    <3> QED
      BY <3>2, <3>3
  <2>3. CASE Publish(r) \/ PublishFails(r) \/ CancelRead(r)
    BY <1>b, <2>3 DEF Publish, PublishFails, CancelRead, NoneStarts
  <2> QED
    BY <1>1, <2>1, <2>2, <2>3 DEF Web
<1>2. ASSUME NEW s \in Slots, Claim(s) PROVE Goal
  <2>0. PICK r \in Runs : r = slot[s].run
    BY <1>a, <1>2 DEF Claim
  <2>1. status[r] = "pending" /\ status' = [status EXCEPT ![r] = "running"]
    BY <1>2, <2>0 DEF Claim
  <2>2. \A h \in Slots : /\ slot'[h].run = slot[h].run
                         /\ slot'[h].pc = IF h = s THEN "run" ELSE slot[h].pc
    BY <1>0, <1>2 DEF Claim, TypeOK, Handlers
  <2>3. \A q \in Runs : StaysTerminal(q)
    BY <1>c, <2>1 DEF Terminal
  <2>4. EndingInv'
    BY <1>0, <1>a, <2>0, <2>1, <2>2 DEF EndingInv, TypeOK
  <2> QED
    BY <2>3, <2>4
<1>3. ASSUME NEW s \in Slots, NEW outcome \in Terminal, Finish(s, outcome)
      PROVE  Goal
  <2>0. PICK r \in Runs : r = slot[s].run
    BY <1>a, <1>3 DEF Finish
  <2>1. /\ status[r] \in {"running", "cancelled"}
        /\ status' = [status EXCEPT ![r] = outcome]
        /\ Executing(r) # {}
    BY <1>3, <2>0 DEF Finish, EndingInv, Executing
  <2>2. \A h \in Slots : slot'[h].pc = "run" => /\ h # s
                                                /\ slot[h].pc = "run"
                                                /\ slot'[h].run = slot[h].run
    BY <1>0, <1>3 DEF Finish, TypeOK, Handlers
  <2>3. \A h \in Slots : h # s /\ slot[h].pc = "run" => slot[h].run # r
    BY <1>0, <1>3, <2>0
    DEF Finish, ExecutionInv, OneExecutor, Executing
  <2>4. EndingInv'
    BY <1>0, <1>a, <2>1, <2>2, <2>3 DEF EndingInv, TypeOK
  <2>5. \A q \in Runs : StaysTerminal(q)
    BY <1>0, <2>1 DEF StaysTerminal, TypeOK, Terminal
  <2> QED
    BY <2>4, <2>5
<1>4. ASSUME NEW w \in Workers, NEW r \in Runs, ReaperReset(w, r) PROVE Goal
  <2>1. status[r] = "running" /\ status' = [status EXCEPT ![r] = "pending"]
          /\ UNCHANGED slot /\ Executing(r) = {}
    BY <1>0, <1>4 DEF ReaperReset, ExecutionInv
  <2>2. EndingInv'
    BY <1>0, <1>a, <2>1 DEF EndingInv, TypeOK, Executing
  <2>3. \A q \in Runs : StaysTerminal(q)
    BY <1>c, <2>1 DEF Terminal
  <2> QED
    BY <2>2, <2>3
<1>5. ASSUME NEW s \in Slots, Handle(s),
             ~Claim(s), \A outcome \in Terminal : ~Finish(s, outcome)
      PROVE  Goal
  <2>0. {"claim", "release", "delayed"} \in SUBSET (PCs \ {"run"})
    BY DEF PCs
  <2>1. UNCHANGED status
    BY <1>5 DEF Handle, TryAcquire, Busy, BusyThrows, ClaimNull, Acknowledge,
                Release, TimerFires, TimerThrows
  <2>2. NoneStarts
    <3>1. CASE TryAcquire(s)
      BY <1>0, <2>0, <3>1, NoneStartsMove DEF TryAcquire
    <3>2. CASE Busy(s)
      BY <1>0, <2>0, <3>2, NoneStartsSettle DEF Busy
    <3>3. CASE BusyThrows(s) \/ TimerThrows(s)
      BY <1>0, <1>a, <3>3, NoneStartsDie DEF BusyThrows, TimerThrows
    <3>4. CASE ClaimNull(s) \/ Acknowledge(s)
      BY <1>0, <3>4, NoneStartsGuarded DEF ClaimNull, Acknowledge
    <3>5. CASE Release(s) \/ TimerFires(s)
      <4>1. slot' = [slot EXCEPT ![s] = Free]
        BY <3>5 DEF Release, TimerFires
      <4> QED
        BY <1>0, <4>1 DEF NoneStarts, Free, TypeOK
    <3> QED
      BY <1>5, <3>1, <3>2, <3>3, <3>4, <3>5 DEF Handle
  <2> QED
    BY <1>b, <2>1, <2>2
<1>6. ASSUME NEW s \in Slots, Upset(s) \/ Progress(s) \/ PollCancel(s) PROVE Goal
  <2>1. UNCHANGED status
    BY <1>6 DEF Upset, AcquireThrows, HandlerThrows, ReleaseFails, SlowTurn,
                Progress, PollCancel
  <2>2. NoneStarts
    <3>1. CASE AcquireThrows(s)
      BY <1>0, <1>a, <3>1, NoneStartsDie DEF AcquireThrows
    <3>2. CASE HandlerThrows(s)
      BY <1>0, <3>2, NoneStartsGuarded DEF HandlerThrows
    <3>3. CASE ReleaseFails(s)
      BY <1>0, <3>3 DEF ReleaseFails, NoneStarts, Free, TypeOK
    <3>4. CASE Progress(s)
      BY <3>4 DEF Progress, NoneStarts
    <3>5. CASE PollCancel(s)
      BY <1>0, <3>5 DEF PollCancel, NoneStarts, TypeOK, Handlers
    <3>6. CASE SlowTurn(s)
      BY <3>6 DEF SlowTurn, NoneStarts
    <3> QED
      BY <1>6, <3>1, <3>2, <3>3, <3>4, <3>5, <3>6 DEF Upset
  <2> QED
    BY <1>b, <2>1, <2>2
<1>7. ASSUME NEW w \in Workers,
             \/ ConnectionLost(w) \/ Reconnect(w) \/ Crash(w)
             \/ ReaperUnlock(w) \/ ReaperPublish(w) \/ ReaperThrows(w)
      PROVE  Goal
  <2>1. NoneStarts
    <3>1. CASE ConnectionLost(w)
      BY <1>0, <3>1, DetachedFields DEF ConnectionLost, NoneStarts
    <3>2. CASE Crash(w)
      BY <1>0, <3>2, NoneStartsDie DEF Crash
    <3>3. CASE UNCHANGED slot
      BY <3>3 DEF NoneStarts
    <3> QED
      BY <1>7, <3>1, <3>2, <3>3
      DEF Reconnect, ReaperUnlock, ReaperPublish, ReaperThrows
  <2>2. UNCHANGED status
    BY <1>7 DEF ConnectionLost, Crash, Reconnect, ReaperUnlock, ReaperPublish,
                ReaperThrows
  <2> QED
    BY <1>b, <2>1, <2>2
<1>8. ASSUME NEW w \in Workers, NEW s \in Slots, Deliver(w, s) PROVE Goal
  <2>1. NoneStarts
    BY <1>0, <1>8 DEF Deliver, NoneStarts, TypeOK
  <2> QED
    BY <1>b, <1>8, <2>1 DEF Deliver
<1>9. ASSUME NEW r \in Runs, LeaseExpires(r) PROVE Goal
  BY <1>b, <1>9 DEF LeaseExpires, NoneStarts
<1>10. CASE UNCHANGED vars
  BY <1>b, <1>10 DEF vars, NoneStarts
<1> QED
  BY <1>1, <1>2, <1>3, <1>4, <1>5, <1>6, <1>7, <1>8, <1>9, <1>10
  DEF Next, Delivery, Reap

\* A run that has ended is never reopened, and how it ended is rewritten by
\* nothing but a cancellation that met the end, whatever faults re-deliver or
\* re-publish its job, until a live run has outlasted the reaper's lease.
THEOREM EndingIsFinal == Spec => TerminalIsFinal
<1> DEFINE Inv == LeaseInv /\ (Prompt => EndingInv)
<1>1. Init => Inv
  <2> SUFFICES ASSUME Init PROVE EndingInv
    BY LeaseInit
  <2>1. \A s \in Slots : slot[s].pc # "run"
    BY DEF Init, AtStart, Free
  <2> QED
    BY <2>1, ExecutionInit DEF Init, AtStart, EndingInv
<1>2. Inv /\ [Next]_vars => Inv'
  BY PromptStep, EndingStep
<1>3. Inv /\ [Next]_vars => [Prompt' => \A r \in Runs : StaysTerminal(r)]_vars
  BY PromptStep, EndingStep
<1> QED
  BY <1>1, <1>2, <1>3, PTL DEF Spec, TerminalIsFinal

-----------------------------------------------------------------------------
(* Whatever fails, a job is lost only where the broker no longer has it: in  *)
(* the 250 ms timer of the busy path, with a handler whose delivery tag is   *)
(* dead or was used up by another one, or between the reaper's reset and its *)
(* publish.                                                                  *)

\* The broker has a job of run r: queued, or delivered and not settled to a
\* handler that has not decided yet.
WithBroker(r) ==
  \/ r \in ToSet(queue)
  \/ \E s \in Slots : /\ slot[s].run = r
                      /\ slot[s].pc \in {"acquire", "claim"}
                      /\ slot[s].via = "open"

\* The at-least-once delivery that worker.ts relies on: no step of any actor and
\* no fault leaves a pending run without a job if the broker had one before.
BrokerKeepsJobs ==
  [][\A r \in Runs : WithBroker(r) /\ status'[r] = "pending" => HasJob(r)']_vars

\* Handler s may still claim its run or put its job back.
MayDecide(s) == slot[s].pc \in {"acquire", "claim", "delayed"}

LEMMA JobStays ==
  ASSUME NEW r \in Runs, WithBroker(r),
         ToSet(queue) \subseteq ToSet(queue'),
         \A s \in Slots :
           /\ slot[s].run = r
           /\ slot[s].pc \in {"acquire", "claim"}
           /\ slot[s].via = "open"
           => \/ r \in ToSet(queue')
              \/ slot'[s].run = r /\ MayDecide(s)'
  PROVE  HasJob(r)'
BY DEF WithBroker, MayDecide, HasJob

\* A delivery may be settled on its own tag or on one of another handler; the
\* queue loses nothing, and a tag of its own that is nacked brings its job back.
LEMMA SettleKeeps ==
  ASSUME TypeOK, NEW s \in Slots, slot[s].pc # "free", NEW back \in BOOLEAN,
         NEW next \in PCs, Settle(s, back, next)
  PROVE  /\ ToSet(queue) \subseteq ToSet(queue')
         /\ slot'[s].pc = next /\ slot'[s].run = slot[s].run
         /\ \A h \in Slots \ {s} : /\ slot'[h].pc = slot[h].pc
                                   /\ slot'[h].run = slot[h].run
         /\ slot[s].via = "open" /\ back => slot[s].run \in ToSet(queue')
<1>0. slot[s].run \in Runs /\ slot[s].w \in Workers
  BY HandlerFields
<1>1. CASE SettleOwn(s, back, next)
  <2>1. back => ToSet(queue) \subseteq ToSet(queue') /\ slot[s].run \in ToSet(queue')
    <3>1. back => Requeue({s})
      BY <1>1 DEF SettleOwn
    <3>2. {s} \in SUBSET Slots /\ s \in {s} /\ \A h \in {s} : slot[h].run \in Runs
      BY <1>0
    <3>3. back => ToSet(queue) \subseteq ToSet(queue')
      BY <3>1, <3>2, RequeueKeeps
    <3>4. back => slot[s].run \in ToSet(queue')
      BY <3>1, <3>2, RequeueAdds
    <3> QED BY <3>3, <3>4
  <2>2. ~back => queue' = queue
    BY <1>1 DEF SettleOwn
  <2> QED
    BY <1>1, <2>1, <2>2 DEF SettleOwn, TypeOK, Handlers
<1>2. ASSUME NEW g \in Slots, SettleOther(s, g, back, next)
      PROVE  /\ ToSet(queue) \subseteq ToSet(queue')
             /\ slot'[s].pc = next /\ slot'[s].run = slot[s].run
             /\ \A h \in Slots \ {s} : /\ slot'[h].pc = slot[h].pc
                                       /\ slot'[h].run = slot[h].run
             /\ slot[s].via # "open"
  <2>0. slot[g].run \in Runs /\ slot[s].via # "open"
    BY <1>2, HandlerFields DEF SettleOther, Unsettled, Unacked
  <2>1. ToSet(queue) \subseteq ToSet(queue')
    BY <1>2, <2>0, RequeueKeeps DEF SettleOther
  <2> DEFINE spent == [slot EXCEPT ![g].via = "spent"]
             moved == [spent EXCEPT ![s].pc = next]
             new == [moved EXCEPT ![s].via = "open"]
  <2>2. slot' = new
    BY <1>2 DEF SettleOther
  <2>3. ASSUME NEW h \in Slots
        PROVE  spent[h] \in Handlers /\ spent[h].pc = slot[h].pc
                 /\ spent[h].run = slot[h].run
    BY ViaField DEF TypeOK
  <2>4. new[s].pc = next /\ new[s].run = spent[s].run
    BY <2>3 DEF TypeOK, Handlers
  <2>5. ASSUME NEW h \in Slots, h # s PROVE new[h] = spent[h]
    BY <2>5 DEF TypeOK
  <2> HIDE DEF new, spent
  <2> QED
    BY <2>0, <2>1, <2>2, <2>3, <2>4, <2>5
<1>3. CASE SettleUnknown(s, next)
  <2> DEFINE detached == Detached(slot[s].w)
  <2>1. slot' = [detached EXCEPT ![s].pc = next] /\ slot[s].via # "open"
    BY <1>3 DEF SettleUnknown
  <2>2. \A h \in Slots : detached[h].pc = slot[h].pc
                           /\ detached[h].run = slot[h].run
    BY <1>0, DetachedFields
  <2>3. detached \in [Slots -> Handlers]
    BY <1>0, DetachedOK DEF SlotsOK
  <2>4. ToSet(queue) \subseteq ToSet(queue')
    BY <1>0, <1>3, UnsettledRuns, RequeueKeeps DEF SettleUnknown
  <2> HIDE DEF detached
  <2> QED
    BY <2>1, <2>2, <2>3, <2>4 DEF Handlers
<1> QED
  BY <1>1, <1>2, <1>3 DEF Settle

\* The same inside the try block, where the settling may throw.
LEMMA GuardedKeeps ==
  ASSUME TypeOK, NEW s \in Slots, slot[s].pc # "free", NEW back \in BOOLEAN,
         SettleGuarded(s, back)
  PROVE  /\ ToSet(queue) \subseteq ToSet(queue')
         /\ \A h \in Slots \ {s} : /\ slot'[h].pc = slot[h].pc
                                   /\ slot'[h].run = slot[h].run
         /\ slot[s].via = "open" /\ back => slot[s].run \in ToSet(queue')
<1>1. "release" \in PCs
  BY DEF PCs
<1>2. CASE Settle(s, back, "release")
  BY <1>1, <1>2, SettleKeeps
<1>3. CASE /\ SettleThrows(s)
           /\ slot' = [slot EXCEPT ![s].pc = "release"]
           /\ UNCHANGED <<queue, chan>>
  BY <1>3 DEF SettleThrows, TypeOK
<1> QED
  BY <1>2, <1>3 DEF SettleGuarded

\* A process that ends gives back what it had not settled.
LEMMA DieKeeps ==
  ASSUME TypeOK, NEW w \in Workers, Die(w), NEW r \in Runs, WithBroker(r)
  PROVE  HasJob(r)'
<1>1. Requeue(Unsettled(w)) /\ ToSet(queue) \subseteq ToSet(queue')
  BY UnsettledRuns, RequeueKeeps DEF Die
<1>2. ASSUME NEW s \in Slots, slot[s].run = r, slot[s].via = "open",
             slot[s].pc \in {"acquire", "claim"}
      PROVE  r \in ToSet(queue') \/ (slot'[s].run = r /\ MayDecide(s)')
  <2>1. CASE slot[s].w = w
    <3>1. s \in Unsettled(w)
      BY <1>2, <2>1 DEF Unsettled, Unacked
    <3> QED
      BY <1>1, <1>2, <3>1, UnsettledRuns, RequeueAdds
  <2>2. CASE slot[s].w # w
    BY <1>2, <2>2 DEF Die, MayDecide
  <2> QED
    BY <2>1, <2>2
<1> QED
  BY <1>1, <1>2, JobStays

LEMMA BrokerStep ==
  ASSUME TypeOK, [Next]_vars, NEW r \in Runs, WithBroker(r), status'[r] = "pending"
  PROVE  HasJob(r)'
<1>1. CASE UNCHANGED <<queue, slot>>
  BY <1>1, JobStays DEF MayDecide
<1>2. ASSUME ToSet(queue) \subseteq ToSet(queue'), UNCHANGED slot
      PROVE  HasJob(r)'
  BY <1>2, JobStays DEF MayDecide
\* One handler moves; the job it may have carried is the step's concern.
<1>3. ASSUME NEW s \in Slots, ToSet(queue) \subseteq ToSet(queue'),
             \A h \in Slots \ {s} : /\ slot'[h].pc = slot[h].pc
                                    /\ slot'[h].run = slot[h].run,
             /\ slot[s].run = r
             /\ slot[s].pc \in {"acquire", "claim"}
             /\ slot[s].via = "open"
             => \/ r \in ToSet(queue')
                \/ slot'[s].run = r /\ MayDecide(s)'
      PROVE  HasJob(r)'
  BY <1>3, JobStays DEF MayDecide
<1>4. ASSUME NEW q \in Runs, Web(q) \/ LeaseExpires(q) PROVE HasJob(r)'
  <2>1. CASE Publish(q)
    <3>1. ToSet(queue') = ToSet(queue) \cup {q}
      <4>1. queue' = Append(queue, q) /\ queue \in Seq(Runs)
        BY <2>1 DEF Publish, TypeOK
      <4> QED BY <4>1, QueueElements
    <3> QED
      BY <1>2, <2>1, <3>1 DEF Publish
  <2>2. CASE ~Publish(q)
    BY <1>1, <1>4, <2>2
    DEF Web, PostRun, PublishFails, CancelRead, CancelWrite, LeaseExpires
  <2> QED BY <2>1, <2>2
<1>5. ASSUME NEW w \in Workers, NEW s \in Slots, Deliver(w, s) PROVE HasJob(r)'
  <2>1. ToSet(queue) = ToSet(queue') \cup {Head(queue)}
    BY <1>5, QueueElements DEF Deliver, TypeOK
  <2>2. \A h \in Slots : h # s => slot'[h] = slot[h]
    BY <1>5 DEF Deliver, TypeOK
  <2>3. slot'[s].pc = "acquire" /\ slot'[s].run = Head(queue) /\ slot[s].pc = "free"
    BY <1>5 DEF Deliver, TypeOK
  <2> QED
    BY <2>1, <2>2, <2>3 DEF WithBroker, HasJob
<1>6. ASSUME NEW s \in Slots, Handle(s) PROVE HasJob(r)'
  <2>0. slot[s].pc # "free" /\ slot[s] \in Handlers
    BY <1>6
    DEF Handle, TryAcquire, Busy, BusyThrows, Claim, ClaimNull, Finish, Acknowledge,
        Release, TimerFires, TimerThrows, TypeOK
  <2>a. slot[s].run \in Runs /\ slot[s].w \in Workers
    BY <2>0, HandlerFields
  <2>1. CASE TryAcquire(s)
    <3>1. slot'[s].pc = "claim" /\ slot'[s].run = slot[s].run
      BY <2>0, <2>1 DEF TryAcquire, TypeOK, Handlers
    <3> QED
      BY <1>3, <2>1, <3>1 DEF TryAcquire, TypeOK, MayDecide
  <2>2. CASE Busy(s)
    <3>1. "delayed" \in PCs /\ FALSE \in BOOLEAN /\ Settle(s, FALSE, "delayed")
      BY <2>2 DEF Busy, PCs
    <3>2. /\ ToSet(queue) \subseteq ToSet(queue')
          /\ slot'[s].pc = "delayed" /\ slot'[s].run = slot[s].run
          /\ \A h \in Slots \ {s} : /\ slot'[h].pc = slot[h].pc
                                    /\ slot'[h].run = slot[h].run
      BY <2>0, <3>1, SettleKeeps
    <3> QED
      BY <1>3, <3>2 DEF MayDecide
  <2>3. CASE BusyThrows(s) \/ TimerThrows(s)
    BY <2>a, <2>3, DieKeeps DEF BusyThrows, TimerThrows
  <2>4. CASE Claim(s)
    <3>1. slot[s].run # r
      BY <2>a, <2>4 DEF Claim, TypeOK
    <3> QED
      BY <1>3, <2>4, <3>1 DEF Claim, TypeOK
  <2>5. CASE ClaimNull(s)
    <3>1. slot[s].run # r
      BY <2>5 DEF ClaimNull
    <3>2. FALSE \in BOOLEAN /\ SettleGuarded(s, FALSE)
      BY <2>5 DEF ClaimNull
    <3> QED
      BY <1>3, <2>0, <3>1, <3>2, GuardedKeeps
  <2>6. CASE \E outcome \in Terminal : Finish(s, outcome)
    BY <1>3, <2>6 DEF Finish, TypeOK
  <2>7. CASE Acknowledge(s)
    <3>1. SettleGuarded(s, slot[s].pc = "nack") /\ (slot[s].pc = "nack") \in BOOLEAN
            /\ slot[s].pc \in {"ack", "nack"}
      BY <2>7 DEF Acknowledge
    <3>2. /\ ToSet(queue) \subseteq ToSet(queue')
          /\ \A h \in Slots \ {s} : /\ slot'[h].pc = slot[h].pc
                                    /\ slot'[h].run = slot[h].run
      BY <2>0, <3>1, GuardedKeeps
    <3> QED
      BY <1>3, <3>1, <3>2
  <2>8. CASE Release(s)
    BY <1>3, <2>8 DEF Release, TypeOK
  <2>9. CASE TimerFires(s)
    <3>1. ToSet(queue') = ToSet(queue) \cup {slot[s].run}
      <4>1. queue' = Append(queue, slot[s].run) /\ queue \in Seq(Runs)
        BY <2>9 DEF TimerFires, TypeOK
      <4> QED BY <2>a, <4>1, QueueElements
    <3> QED
      BY <1>3, <2>9, <3>1 DEF TimerFires, TypeOK
  <2> QED
    BY <1>6, <2>1, <2>2, <2>3, <2>4, <2>5, <2>6, <2>7, <2>8, <2>9 DEF Handle
<1>7. ASSUME NEW s \in Slots, Upset(s) \/ Progress(s) \/ PollCancel(s)
      PROVE  HasJob(r)'
  <2>0. slot[s].pc # "free" /\ slot[s] \in Handlers
    BY <1>7
    DEF Upset, AcquireThrows, HandlerThrows, ReleaseFails, SlowTurn, Progress,
        PollCancel, TypeOK
  <2>1. CASE AcquireThrows(s)
    BY <2>0, <2>1, HandlerFields, DieKeeps DEF AcquireThrows
  <2>2. CASE HandlerThrows(s)
    <3>1. TRUE \in BOOLEAN /\ SettleGuarded(s, TRUE)
      BY <2>2 DEF HandlerThrows
    <3>2. /\ ToSet(queue) \subseteq ToSet(queue')
          /\ \A h \in Slots \ {s} : /\ slot'[h].pc = slot[h].pc
                                    /\ slot'[h].run = slot[h].run
          /\ slot[s].via = "open" => slot[s].run \in ToSet(queue')
      BY <2>0, <3>1, GuardedKeeps
    <3> QED
      BY <1>3, <3>2
  <2>3. CASE ReleaseFails(s)
    BY <1>3, <2>3 DEF ReleaseFails, TypeOK
  <2>4. CASE Progress(s) \/ SlowTurn(s)
    BY <1>1, <2>4 DEF Progress, SlowTurn
  <2>5. CASE PollCancel(s)
    BY <1>3, <2>5 DEF PollCancel, TypeOK
  <2> QED
    BY <1>7, <2>1, <2>2, <2>3, <2>4, <2>5 DEF Upset
<1>8. ASSUME NEW w \in Workers, ConnectionLost(w) PROVE HasJob(r)'
  <2>1. ToSet(queue) \subseteq ToSet(queue')
    BY <1>8, UnsettledRuns, RequeueKeeps DEF ConnectionLost
  <2>2. \A h \in Slots : slot'[h].pc = slot[h].pc /\ slot'[h].run = slot[h].run
    BY <1>8, DetachedFields DEF ConnectionLost
  <2> QED
    BY <2>1, <2>2, JobStays DEF MayDecide
<1>9. ASSUME NEW w \in Workers, Reap(w) PROVE HasJob(r)'
  <2>1. CASE ReaperPublish(w)
    <3>1. queue' = Append(queue, reaper[w].run) /\ queue \in Seq(Runs)
            /\ reaper[w].run \in Runs
      BY <2>1 DEF ReaperPublish, TypeOK
    <3>2. ToSet(queue') = ToSet(queue) \cup {reaper[w].run}
      BY <3>1, QueueElements
    <3> QED
      BY <1>2, <2>1, <3>2 DEF ReaperPublish
  <2>2. CASE ~ReaperPublish(w)
    BY <1>1, <1>9, <2>2 DEF Reap, ReaperReset, ReaperUnlock
  <2> QED BY <2>1, <2>2
<1>10. ASSUME NEW w \in Workers, Reconnect(w) \/ ReaperThrows(w) PROVE HasJob(r)'
  BY <1>1, <1>10 DEF Reconnect, ReaperThrows
<1>11. ASSUME NEW w \in Workers, Crash(w) PROVE HasJob(r)'
  BY <1>11, DieKeeps DEF Crash
<1>12. CASE UNCHANGED vars
  BY <1>1, <1>12 DEF vars
<1> QED
  BY <1>4, <1>5, <1>6, <1>7, <1>8, <1>9, <1>10, <1>11, <1>12 DEF Next, Delivery

\* With any faults, slow turns included, a run the broker has a job of keeps a
\* job as long as it is pending: crashes, lost connections, stale delivery tags
\* and failed database operations lose no job that is queued or unsettled.
THEOREM BrokerLosesNoJob == Spec => BrokerKeepsJobs
<1>1. TypeOK /\ [Next]_vars
        => [\A r \in Runs : WithBroker(r) /\ status'[r] = "pending" => HasJob(r)']_vars
  BY BrokerStep
<1> QED
  BY <1>1, TypeCorrect, PTL DEF Spec, BrokerKeepsJobs
=============================================================================
