----------------------- MODULE GracefulShutdownProofs -----------------------
(***************************************************************************)
(* Theorems about GracefulShutdown for every number of runs, workers,      *)
(* handlers, signals and faults: type correctness, the condition under     *)
(* which initiate() cuts no run off, and that a planned shutdown loses no  *)
(* job even when its timer cuts runs off.                                  *)
(***************************************************************************)
EXTENDS GracefulShutdown, RunDispatchProofs

USE DispatchAssumption, ShutdownAssumption

-----------------------------------------------------------------------------
(* Type correctness. *)

\* What this module adds to TypeOK.
OursOK ==
  /\ tracker \in [Objects -> [down : BOOLEAN, inFlight : SUBSET Runs]]
  /\ made \in Objects \cup {0}
  /\ current \in 0 .. made
  /\ cancelled \in BOOLEAN
  /\ redial \in {"off", "wait", "dial"}
  /\ stop \in [Signals -> Stops]
  /\ alive \in BOOLEAN
  /\ early \in BOOLEAN
  /\ cleared \in BOOLEAN
  /\ late \in BOOLEAN

\* A connection is made for each one lost, and one for each life of the process.
Promised == made + (IF redial = "off" THEN 0 ELSE 1)

Counted == /\ left["drop"] <= Budget["drop"]
           /\ Promised + left["drop"] <= 1 + Budget["drop"]

TrackInv == TypeOK /\ OursOK /\ Counted

LEMMA BudgetType == Budget["drop"] \in Nat /\ "drop" \in FaultKinds
BY DEF FaultKinds

\* Every step is one of the dispatch, one that leaves the dispatch alone, or
\* closes the channel, or ends the process.
LEMMA StepKinds ==
  ASSUME [ShutdownNext]_allVars
  PROVE  [Next]_vars \/ \E i \in Signals : CloseReturns(i) \/ Exit(i)
<1>1. CASE UNCHANGED allVars
  BY <1>1 DEF allVars
<1>2. CASE Elsewhere
  BY <1>2 DEF Elsewhere, Next
<1>3. CASE Delivers
  BY <1>3 DEF Delivers, DeliverOurs, DeliverOther, Next, Delivery
<1>4. ASSUME NEW s \in Slots, Handler(s) \/ Interrupted(s)
      PROVE  [Next]_vars
  <2>1. Handle(s) \/ Upset(s) \/ Progress(s) \/ PollCancel(s)
    BY <1>4 DEF Handler, Interrupted, Goes, BusyPath, Completes, Throws, Handle,
                Upset
  <2> QED
    BY <2>1 DEF Next
<1>5. ASSUME NEW w \in Workers, Reaping(w) \/ Consume(w) PROVE [Next]_vars
  BY <1>5 DEF Reaping, Consume, Next
<1>6. CASE Lost \/ Killed
  BY <1>6 DEF Lost, Killed, Next
<1>7. CASE Redial \/ Track
  BY <1>7 DEF Redial, Track
<1>8. ASSUME NEW i \in Signals, Signal(i) \/ Stopping(i)
      PROVE  UNCHANGED vars \/ CloseReturns(i) \/ Exit(i)
  BY <1>8 DEF Signal, Stopping, CancelReturns, Timeout
<1> QED
  BY <1>1, <1>2, <1>3, <1>4, <1>5, <1>6, <1>7, <1>8 DEF ShutdownNext

LEMMA DispatchTypes == TypeOK /\ [ShutdownNext]_allVars => TypeOK'
<1> SUFFICES ASSUME TypeOK, [ShutdownNext]_allVars PROVE TypeOK'
  OBVIOUS
<1>1. CASE [Next]_vars
  BY <1>1, TypeStep
<1>2. ASSUME NEW i \in Signals, CloseReturns(i) PROVE TypeOK'
  <2>1. CASE InUse(stop[i].obj)
    <3>1. queue' \in Seq(Runs)
      BY <1>2, <2>1, RequeueType, UnsettledRuns DEF CloseReturns
    <3>2. SlotsOK(slot')
      BY <1>2, <2>1, DetachedOK DEF CloseReturns
    <3> QED
      BY <1>2, <2>1, <3>1, <3>2 DEF CloseReturns, TypeOK, SlotsOK
  <2>2. CASE ~InUse(stop[i].obj)
    BY <1>2, <2>2 DEF CloseReturns, TypeOK
  <2> QED
    BY <2>1, <2>2
<1>3. ASSUME NEW i \in Signals, Exit(i) PROVE TypeOK'
  BY <1>3, DieType DEF Exit, TypeOK, SlotsOK
<1> QED
  BY <1>1, <1>2, <1>3, StepKinds

LEMMA TrackInit == ShutdownInit => TrackInv
<1> SUFFICES ASSUME ShutdownInit PROVE TrackInv
  OBVIOUS
<1>1. TypeOK
  BY TypeInit DEF ShutdownInit
<1>2. OursOK
  <2>1. Fresh \in [down : BOOLEAN, inFlight : SUBSET Runs]
    BY DEF Fresh
  <2>2. [at |-> "none", obj |-> 0] \in Stops
    BY DEF Stops
  <2>3. 1 \in Objects
    BY BudgetType DEF Objects
  <2>4. made \in Objects \cup {0} /\ current \in 0 .. made
    BY <2>3 DEF ShutdownInit
  <2>5. stop \in [Signals -> Stops]
    BY <2>2 DEF ShutdownInit
  <2> QED
    BY <2>1, <2>4, <2>5 DEF ShutdownInit, OursOK
<1>3. Counted
  BY BudgetType DEF ShutdownInit, Init, AtStart, Counted, Promised
<1> QED
  BY <1>1, <1>2, <1>3 DEF TrackInv

\* A step changes the budget only by spending a fault.
LEMMA LeftOrSpent ==
  ASSUME [ShutdownNext]_allVars
  PROVE  UNCHANGED left \/ \E kind \in FaultKinds : Spend(kind)
<1>1. CASE [Next]_vars
  BY <1>1, Spending
<1>2. ASSUME NEW i \in Signals, CloseReturns(i) \/ Exit(i)
      PROVE  UNCHANGED left
  BY <1>2 DEF CloseReturns, Exit
<1> QED
  BY <1>1, <1>2, StepKinds

LEMMA DropsFew ==
  ASSUME TypeOK, [ShutdownNext]_allVars
  PROVE  left'["drop"] \in Nat /\ left'["drop"] <= left["drop"]
<1>1. left["drop"] \in Nat
  BY BudgetType DEF TypeOK
<1>2. ASSUME NEW kind \in FaultKinds, Spend(kind)
      PROVE  left'["drop"] \in Nat /\ left'["drop"] <= left["drop"]
  BY <1>2, BudgetType DEF TypeOK, Spend
<1> QED
  BY <1>1, <1>2, LeftOrSpent

\* What MarkComplete and Ends leave.
LEMMA MarkCompleteType ==
  ASSUME OursOK, NEW r \in Runs, MarkComplete(r)
  PROVE  /\ tracker' \in [Objects -> [down : BOOLEAN, inFlight : SUBSET Runs]]
         /\ stop' \in [Signals -> Stops]
<1> DEFINE rest == tracker[current].inFlight \ {r}
<1> DEFINE Trackers == [Objects -> [down : BOOLEAN, inFlight : SUBSET Runs]]
<1>1. ASSUME current \in Objects PROVE tracker' \in Trackers
  <2>1. rest \in SUBSET Runs
    BY <1>1 DEF OursOK
  <2>2. tracker' = [tracker EXCEPT ![current].inFlight = rest]
    BY DEF MarkComplete
  <2>3. tracker[current] \in [down : BOOLEAN, inFlight : SUBSET Runs]
    BY <1>1 DEF OursOK
  <2>4. [tracker[current] EXCEPT !.inFlight = rest]
          \in [down : BOOLEAN, inFlight : SUBSET Runs]
    BY <2>1, <2>3
  <2> HIDE DEF rest
  <2> QED
    BY <1>1, <2>2, <2>4 DEF OursOK
<1>2. ASSUME current \notin Objects PROVE tracker' \in Trackers
  <2>1. tracker' = [tracker EXCEPT ![current].inFlight = rest]
    BY DEF MarkComplete
  <2> HIDE DEF rest
  <2> QED
    BY <1>2, <2>1 DEF OursOK
<1>3. ASSUME NEW i \in Signals
      PROVE  stop[i] \in Stops /\ [stop[i] EXCEPT !.at = "close"] \in Stops
  BY DEF OursOK, Stops
<1>4. stop' \in [Signals -> Stops]
  BY <1>3 DEF MarkComplete
<1>5. tracker' \in Trackers
  BY <1>1, <1>2
<1> QED
  BY <1>4, <1>5

\* The actions of this module that change nothing but its own variables, or do
\* so along with an action of the dispatch.
LEMMA TrackStep == TrackInv /\ [ShutdownNext]_allVars => TrackInv'
<1> SUFFICES ASSUME TrackInv, [ShutdownNext]_allVars PROVE TrackInv'
  OBVIOUS
<1>0. /\ TypeOK /\ TypeOK' /\ OursOK /\ Counted
      /\ left["drop"] \in Nat /\ left'["drop"] \in Nat
      /\ left'["drop"] <= left["drop"]
      /\ made \in Nat
  BY DispatchTypes, DropsFew, BudgetType DEF TrackInv, TypeOK, OursOK, Objects
<1>1. ASSUME UNCHANGED <<made, current, cancelled, redial, alive, early, late>>,
             UNCHANGED cleared \/ cleared' \in BOOLEAN,
             tracker' \in [Objects -> [down : BOOLEAN, inFlight : SUBSET Runs]],
             stop' \in [Signals -> Stops]
      PROVE  TrackInv'
  <2>1. OursOK'
    BY <1>0, <1>1 DEF OursOK
  <2>2. Counted'
    BY <1>0, <1>1, BudgetType DEF Counted, Promised
  <2> QED
    BY <1>0, <2>1, <2>2 DEF TrackInv
<1>2. CASE UNCHANGED ours
  BY <1>0, <1>1, <1>2 DEF ours, OursOK
<1>3. ASSUME NEW w \in Workers, NEW s \in Slots, DeliverOurs(s)
      PROVE  TrackInv'
  <2>1. Head(queue) \in Runs
    BY <1>0, <1>3 DEF DeliverOurs, Deliver, TypeOK
  <2>2. tracker' \in [Objects -> [down : BOOLEAN, inFlight : SUBSET Runs]]
    BY <1>0, <1>3, <2>1 DEF DeliverOurs, MarkRunning, OursOK
  <2>3. OursOK'
    BY <1>0, <1>3, <2>2 DEF DeliverOurs, OursOK
  <2>4. Counted'
    BY <1>0, <1>3, BudgetType DEF DeliverOurs, Counted, Promised
  <2> QED
    BY <1>0, <2>3, <2>4 DEF TrackInv
<1>4. ASSUME NEW s \in Slots, Completes(s) PROVE TrackInv'
  <2>1. slot[s].run \in Runs
    BY <1>0, <1>4, HandlerFields DEF Completes, Release, ReleaseFails
  <2>2. CASE Ours(s)
    BY <1>0, <1>1, <1>4, <2>1, <2>2, MarkCompleteType DEF Completes, OursOK
  <2>3. CASE ~Ours(s)
    BY <1>2, <1>4, <2>3 DEF Completes
  <2> QED
    BY <2>2, <2>3
<1>5. ASSUME NEW w \in Workers, Ends(w) PROVE TrackInv'
  <2>1. CASE w = Target
    <3>1. Fresh \in [down : BOOLEAN, inFlight : SUBSET Runs]
      BY DEF Fresh
    <3>2. OursOK'
      <4>1. tracker' = [g \in Objects |-> Fresh] /\ made' = 0 /\ current' = 0
              /\ alive' \in BOOLEAN
        BY <1>5, <2>1 DEF Ends
      <4>2. current' \in 0 .. made'
        BY <4>1
      <4>3. tracker' \in [Objects -> [down : BOOLEAN, inFlight : SUBSET Runs]]
        BY <3>1, <4>1
      <4> QED
        BY <1>0, <1>5, <2>1, <4>1, <4>2, <4>3 DEF Ends, OursOK
    <3>3. Counted'
      BY <1>0, <1>5, <2>1, BudgetType DEF Ends, Counted, Promised
    <3> QED
      BY <1>0, <3>2, <3>3 DEF TrackInv
  <2> QED
    BY <1>2, <1>5, <2>1 DEF Ends
<1>6. ASSUME NEW s \in Slots, Throws(s) PROVE TrackInv'
  BY <1>0, <1>5, <1>6, HandlerFields
  DEF Throws, BusyThrows, AcquireThrows, TimerThrows
<1>7. CASE Lost
  <2>1. left'["drop"] = left["drop"] - 1
    BY <1>0, <1>7, BudgetType DEF Lost, ConnectionLost, Spend, TypeOK
  <2>2. OursOK'
    BY <1>0, <1>7 DEF Lost, OursOK
  <2>3. Counted'
    BY <1>0, <1>7, <2>1, BudgetType DEF Lost, Counted, Promised
  <2> QED
    BY <1>0, <2>2, <2>3 DEF TrackInv
<1>8. CASE Redial
  <2>1. OursOK'
    BY <1>0, <1>8 DEF Redial, OursOK
  <2>2. Counted'
    BY <1>0, <1>8, BudgetType DEF Redial, Counted, Promised
  <2> QED
    BY <1>0, <2>1, <2>2 DEF TrackInv
<1>9. ASSUME NEW w \in Workers, Consume(w) PROVE TrackInv'
  <2>1. CASE w = Target
    <3>1. made + 1 + left["drop"] <= 1 + Budget["drop"]
      BY <1>0, <1>9, <2>1, BudgetType DEF Consume, Counted, Promised
    <3>2. made + 1 \in Objects
      BY <1>0, <3>1, BudgetType DEF Objects
    <3>3. current \in 0 .. made + 1
      BY <1>0 DEF OursOK
    <3>4. OursOK'
      BY <1>0, <1>9, <2>1, <3>2, <3>3 DEF Consume, OursOK
    <3>5. Counted'
      BY <1>0, <1>9, <2>1, <3>1, BudgetType DEF Consume, Counted, Promised
    <3> QED
      BY <1>0, <3>4, <3>5 DEF TrackInv
  <2> QED
    BY <1>2, <1>9, <2>1 DEF Consume
<1>10. CASE Track
  <2>1. OursOK'
    BY <1>0, <1>10 DEF Track, OursOK
  <2>2. Counted'
    BY <1>0, <1>10, BudgetType DEF Track, Counted, Promised
  <2> QED
    BY <1>0, <2>1, <2>2 DEF TrackInv
<1>11. ASSUME NEW i \in Signals, Signal(i) PROVE TrackInv'
  <2>1. current \in Objects
    BY <1>0, <1>11, BudgetType DEF Signal, OursOK, Objects
  <2>2. tracker' \in [Objects -> [down : BOOLEAN, inFlight : SUBSET Runs]]
    BY <1>0, <1>11, <2>1 DEF Signal, OursOK
  <2>3. stop' \in [Signals -> Stops]
    BY <1>0, <1>11, <2>1 DEF Signal, OursOK, Stops
  <2> QED
    BY <1>1, <1>11, <2>2, <2>3 DEF Signal
<1>12. ASSUME NEW i \in Signals, Stopping(i) PROVE TrackInv'
  <2>1. \A next \in {"wait", "close", "leave"} :
          [stop EXCEPT ![i].at = next] \in [Signals -> Stops]
    BY <1>0 DEF OursOK, Stops
  <2>2. OursOK'
    <3>1. CASE CancelReturns(i)
      BY <1>0, <2>1, <3>1 DEF CancelReturns, OursOK, InUse
    <3>2. CASE Timeout(i)
      BY <1>0, <2>1, <3>2 DEF Timeout, OursOK
    <3>3. CASE CloseReturns(i)
      BY <1>0, <2>1, <3>3 DEF CloseReturns, OursOK
    <3>4. CASE Exit(i)
      BY <1>0, <3>4 DEF Exit, OursOK
    <3> QED
      BY <1>12, <3>1, <3>2, <3>3, <3>4 DEF Stopping
  <2>3. UNCHANGED <<made, redial>>
    BY <1>12 DEF Stopping, CancelReturns, Timeout, CloseReturns, Exit
  <2>4. Counted'
    BY <1>0, <2>3, BudgetType DEF Counted, Promised
  <2> QED
    BY <1>0, <2>2, <2>4 DEF TrackInv
<1>13. ASSUME NEW s \in Slots, Handler(s) \/ Interrupted(s) PROVE TrackInv'
  BY <1>2, <1>4, <1>6, <1>13
  DEF Handler, Interrupted, Goes, BusyPath
<1>14. CASE UNCHANGED allVars
  BY <1>2, <1>14 DEF allVars
<1> QED
  BY <1>2, <1>3, <1>5, <1>7, <1>8, <1>9, <1>10, <1>11, <1>12, <1>13, <1>14
  DEF ShutdownNext, Elsewhere, Delivers, DeliverOther, Reaping, Killed

\* The shutdown's own state keeps its type, and no process makes more handler
\* objects than it loses connections and one.
THEOREM ShutdownTypes == ShutdownSpec => []ShutdownTypeOK
<1>1. TrackInv => ShutdownTypeOK
  BY DEF TrackInv, OursOK, ShutdownTypeOK
<1> QED
  BY TrackInit, TrackStep, <1>1, PTL DEF ShutdownSpec

-----------------------------------------------------------------------------
(* initiate() cuts no tracked run off. *)

\* The deliveries of the worker after the step are ones it had before.
SameRun(h) == /\ slot'[h].run = slot[h].run
              /\ slot'[h].via = slot[h].via
NoneComes == \A h \in Slots : Ours(h)' => Ours(h) /\ SameRun(h)

LEMMA NoneComesMove ==
  ASSUME TypeOK, NEW s \in Slots, NEW next,
         slot' = [slot EXCEPT ![s].pc = next]
  PROVE  NoneComes
BY DEF TypeOK, Handlers, NoneComes, SameRun, Ours

LEMMA NoneComesFree ==
  ASSUME TypeOK, NEW s \in Slots, slot' = [slot EXCEPT ![s] = Free]
  PROVE  NoneComes /\ ~Ours(s)'
<1>1. Free.w # Target
  BY DEF Free
<1> QED
  BY <1>1 DEF TypeOK, NoneComes, SameRun, Ours

LEMMA NoneComesDie ==
  ASSUME TypeOK, NEW w \in Workers, Die(w)
  PROVE  NoneComes
<1>1. Free.w # Target
  BY DEF Free
<1> QED
  BY <1>1 DEF Die, TypeOK, NoneComes, SameRun, Ours

\* Detaching the channels of another worker leaves the deliveries of this one.
LEMMA DetachedElsewhere ==
  ASSUME TypeOK, NEW w \in Workers, w # Target, NEW h \in Slots
  PROVE  /\ Detached(w)[h] \in Handlers
         /\ Detached(w)[h].w = slot[h].w
         /\ Detached(w)[h].run = slot[h].run
         /\ Ours(h) => Detached(w)[h] = slot[h]
<1>1. slot[h] \in Handlers
  BY DEF TypeOK
<1>2. CASE slot[h].w = w
  <2>1. Detached(w)[h] = [slot[h] EXCEPT !.via = "closed"]
    BY <1>2 DEF Detached
  <2> QED
    BY <1>1, <1>2, <2>1, ViaField DEF Ours
<1>3. CASE slot[h].w # w
  BY <1>1, <1>3 DEF Detached
<1> QED
  BY <1>2, <1>3

\* A handler that settles its delivery takes none of the worker's others along,
\* if those of the worker are all open.
LEMMA NoneComesSettle ==
  ASSUME TypeOK, NEW s \in Slots, slot[s].pc # "free",
         Ours(s) => slot[s].via = "open",
         NEW back, NEW next, Settle(s, back, next)
  PROVE  NoneComes
<1>0. slot[s].w \in Workers
  BY HandlerFields
<1>1. CASE SettleOwn(s, back, next)
  BY <1>1, NoneComesMove DEF SettleOwn
<1>2. ASSUME NEW g \in Slots, SettleOther(s, g, back, next) PROVE NoneComes
  <2> DEFINE spent == [slot EXCEPT ![g].via = "spent"]
             moved == [spent EXCEPT ![s].pc = next]
             new == [moved EXCEPT ![s].via = "open"]
  <2>1. slot' = new /\ ~Ours(s) /\ ~Ours(g)
    BY <1>2 DEF SettleOther, Ours, Unsettled
  <2>2. ASSUME NEW h \in Slots
        PROVE  /\ spent[h] \in Handlers /\ spent[h].w = slot[h].w
               /\ h # g => spent[h] = slot[h]
    BY ViaField DEF TypeOK
  <2>3. new[s].w = slot[s].w
    BY <2>2 DEF TypeOK, Handlers
  <2>4. ASSUME NEW h \in Slots, h # s PROVE new[h] = spent[h]
    BY <2>4 DEF TypeOK
  <2> HIDE DEF new, spent
  <2> QED
    BY <2>1, <2>2, <2>3, <2>4 DEF NoneComes, SameRun, Ours
<1>3. CASE SettleUnknown(s, next)
  <2> DEFINE detached == Detached(slot[s].w)
  <2>1. slot' = [detached EXCEPT ![s].pc = next] /\ slot[s].w # Target
    BY <1>3 DEF SettleUnknown, Ours
  <2>2. \A h \in Slots : /\ detached[h] \in Handlers
                         /\ detached[h].w = slot[h].w
                         /\ Ours(h) => detached[h] = slot[h]
    BY <1>0, <2>1, DetachedElsewhere
  <2>3. detached \in [Slots -> Handlers]
    BY <1>0, DetachedOK DEF SlotsOK
  <2>4. \A h \in Slots : /\ slot'[h].w = slot[h].w
                         /\ h # s => slot'[h] = detached[h]
    <3> HIDE DEF detached
    <3> QED
      BY <2>1, <2>2, <2>3 DEF Handlers
  <2>5. ~Ours(s)
    BY <2>1 DEF Ours
  <2> HIDE DEF detached
  <2> QED
    BY <2>2, <2>4, <2>5 DEF NoneComes, SameRun, Ours
<1> QED
  BY <1>1, <1>2, <1>3 DEF Settle

LEMMA NoneComesGuarded ==
  ASSUME TypeOK, NEW s \in Slots, slot[s].pc # "free",
         Ours(s) => slot[s].via = "open", NEW back, SettleGuarded(s, back)
  PROVE  NoneComes
BY NoneComesSettle, NoneComesMove DEF SettleGuarded

\* A fault that is spent is missing from the budget ever after.
LEMMA NotPlanned ==
  ASSUME TypeOK, \A k \in FaultKinds : left[k] <= Budget[k],
         NEW kind \in FaultKinds, Spend(kind)
  PROVE  ~Planned' /\ \A k \in FaultKinds : left'[k] <= Budget[k]
<1>1. \A k \in FaultKinds : left[k] \in Nat /\ Budget[k] \in Nat
  BY DEF TypeOK
<1>2. left'[kind] = left[kind] - 1
  BY DEF Spend, TypeOK
<1>3. left'[kind] # Budget[kind]
  BY <1>1, <1>2
<1>4. \A k \in FaultKinds : left'[k] \in Int /\ left'[k] <= left[k]
  BY <1>1 DEF Spend, TypeOK
<1> QED
  BY <1>1, <1>3, <1>4 DEF Planned

\* What disturbs the shutdown is not forgotten.
LEMMA HistoryGrows ==
  ASSUME OursOK, [ShutdownNext]_allVars
  PROVE  /\ late => late'
         /\ Missed => Missed'
         /\ \A i \in Signals : stop'[i].at = "none" => stop[i].at = "none"
<1>1. CASE UNCHANGED ours
  BY <1>1 DEF ours, Missed
<1>2. ASSUME NEW s \in Slots, DeliverOurs(s) \/ Completes(s)
      PROVE  /\ late => late'
             /\ Missed => Missed'
             /\ \A i \in Signals : stop'[i].at = "none" => stop[i].at = "none"
  <2>1. UNCHANGED stop \/ \E r \in {slot[s].run} : MarkComplete(r)
    BY <1>2 DEF DeliverOurs, Completes, ours
  <2>2. \A i \in Signals : stop'[i].at = "none" => stop[i].at = "none"
    BY <2>1 DEF MarkComplete, OursOK, Stops
  <2> QED
    BY <1>2, <2>2 DEF DeliverOurs, Completes, ours, Missed
<1>3. ASSUME NEW w \in Workers, Ends(w) \/ Consume(w)
      PROVE  UNCHANGED <<late, early, cleared, stop>>
  BY <1>3 DEF Ends, Consume, ours
<1>4. ASSUME NEW i \in Signals, Signal(i) \/ Stopping(i)
      PROVE  /\ late => late'
             /\ Missed => Missed'
             /\ \A j \in Signals : stop'[j].at = "none" => stop[j].at = "none"
  BY <1>4 DEF Signal, Stopping, CancelReturns, Timeout, CloseReturns, Exit,
              OursOK, Stops, Missed
<1>5. Lost \/ Redial \/ Track => UNCHANGED <<late, early, cleared, stop>>
  BY DEF Lost, Redial, Track
<1>6. UNCHANGED <<late, early, cleared, stop>> =>
        /\ late => late'
        /\ Missed => Missed'
        /\ \A j \in Signals : stop'[j].at = "none" => stop[j].at = "none"
  BY DEF Missed
<1>7. UNCHANGED allVars => UNCHANGED ours
  BY DEF allVars
<1>8. ASSUME NEW s \in Slots, Handler(s) \/ Interrupted(s)
      PROVE  \/ UNCHANGED ours
             \/ Completes(s)
             \/ UNCHANGED <<late, early, cleared, stop>>
  BY <1>8 DEF Handler, Interrupted, Goes, BusyPath, Throws, Ends, ours
<1> QED
  BY <1>1, <1>2, <1>3, <1>4, <1>5, <1>6, <1>7, <1>8
  DEF ShutdownNext, Elsewhere, Delivers, DeliverOther, Reaping, Killed

LEMMA TrackedInit == ShutdownInit => TrackedInv
<1> SUFFICES ASSUME ShutdownInit PROVE TrackedInv
  OBVIOUS
<1>1. ShutdownTypeOK
  BY TrackInit DEF TrackInv, OursOK, ShutdownTypeOK
<1>2. \A k \in FaultKinds : left[k] <= Budget[k]
  BY DEF ShutdownInit, Init, AtStart
<1>3. \A s \in Slots : ~Ours(s)
  BY DEF ShutdownInit, Init, AtStart, Free, Ours
<1>4. Tracked
  BY <1>3, BudgetType
  DEF ShutdownInit, Tracked, WaitsForRuns, Fresh, Signals, Objects
<1> QED
  BY <1>1, <1>2, <1>4 DEF TrackedInv

\* A step of the dispatch that leaves the shutdown's state alone.
LEMMA TrackedCalm ==
  ASSUME Undisturbed, Tracked, NoneComes, UNCHANGED <<left, ours>>
  PROVE  Tracked'
BY DEF Tracked, WaitsForRuns, Undisturbed, Planned, Missed, NoneComes, SameRun,
       ours, Ours

LEMMA TrackedDispatch ==
  ASSUME TypeOK, Undisturbed, Tracked, NEW s \in Slots,
         Goes(s) \/ BusyPath(s) \/ Throws(s) \/ Interrupted(s), UNCHANGED left
  PROVE  Tracked' \/ \E kind \in FaultKinds : Spend(kind)
<1>1. slot[s].pc # "free" => (Ours(s) => slot[s].via = "open")
  BY DEF Tracked
<1>2. ASSUME TryAcquire(s) \/ Claim(s) \/ \E outcome \in Terminal : Finish(s, outcome)
      PROVE  NoneComes
  <2>1. PICK next : slot' = [slot EXCEPT ![s].pc = next]
    BY <1>2 DEF TryAcquire, Claim, Finish
  <2> QED
    BY <2>1, NoneComesMove
<1>3. ASSUME ClaimNull(s) \/ Acknowledge(s) PROVE NoneComes
  BY <1>1, <1>3, NoneComesGuarded DEF ClaimNull, Acknowledge
<1>4. ASSUME Busy(s) PROVE NoneComes
  BY <1>1, <1>4, NoneComesSettle DEF Busy
<1>5. ASSUME TimerFires(s) PROVE NoneComes
  BY <1>5, NoneComesFree DEF TimerFires
<1>6. ASSUME PollCancel(s) PROVE NoneComes
  BY <1>6 DEF PollCancel, TypeOK, Handlers, NoneComes, SameRun, Ours
<1>7. ASSUME Progress(s) PROVE NoneComes
  BY <1>7 DEF Progress, NoneComes, SameRun, Ours
<1>8. ASSUME BusyThrows(s) \/ TimerThrows(s), Ends(slot[s].w)
      PROVE  NoneComes /\ UNCHANGED ours
  <2>1. slot[s].w \in Workers /\ Die(slot[s].w) /\ slot[s].via # "open"
    BY <1>8, HandlerFields DEF BusyThrows, TimerThrows, SettleThrows
  <2>2. slot[s].w # Target
    BY <2>1 DEF Tracked, Ours
  <2> QED
    BY <1>8, <2>1, <2>2, NoneComesDie DEF Ends
<1>9. /\ AcquireThrows(s) \/ HandlerThrows(s) => Spend("mongo")
      /\ SlowTurn(s) => Spend("slow")
  BY DEF AcquireThrows, HandlerThrows, SlowTurn
<1>10. CASE Throws(s)
  BY <1>8, <1>9, <1>10, TrackedCalm DEF Throws, FaultKinds
<1>11. CASE Goes(s)
  BY <1>2, <1>3, <1>5, <1>11, TrackedCalm DEF Goes
<1>12. CASE BusyPath(s)
  BY <1>4, <1>12, TrackedCalm DEF BusyPath
<1>13. CASE Interrupted(s)
  BY <1>6, <1>7, <1>9, <1>13, TrackedCalm DEF Interrupted, FaultKinds
<1> QED
  BY <1>10, <1>11, <1>12, <1>13

\* What MarkComplete does to the only handler object and to those that wait.
LEMMA MarkTaken ==
  ASSUME OursOK, current = 1, NEW r \in Runs, MarkComplete(r),
         NEW rest, rest = tracker[1].inFlight \ {r}
  PROVE  /\ tracker'[1].inFlight = rest
         /\ tracker'[1].down = tracker[1].down
         /\ \A i \in Signals : /\ stop'[i].obj = stop[i].obj
                               /\ stop'[i].at = "none" <=> stop[i].at = "none"
                               /\ stop'[i].at = "leave" <=> stop[i].at = "leave"
                               /\ \/ stop'[i].at = stop[i].at
                                  \/ stop'[i].at = "close" /\ rest = {}
<1>1. 1 \in Objects
  BY BudgetType DEF Objects
<1>2. tracker'[1].inFlight = rest /\ tracker'[1].down = tracker[1].down
  <2>1. tracker[1] \in [down : BOOLEAN, inFlight : SUBSET Runs]
    BY <1>1 DEF OursOK
  <2>2. tracker' = [tracker EXCEPT ![1].inFlight = rest]
    BY DEF MarkComplete
  <2> QED
    BY <1>1, <2>1, <2>2 DEF OursOK
<1>3. ASSUME NEW i \in Signals
      PROVE  /\ stop'[i].obj = stop[i].obj
             /\ stop'[i].at = "none" <=> stop[i].at = "none"
             /\ stop'[i].at = "leave" <=> stop[i].at = "leave"
             /\ \/ stop'[i].at = stop[i].at
                \/ stop'[i].at = "close" /\ rest = {}
  <2>1. stop[i] \in Stops
    BY DEF OursOK
  <2>2. \/ stop'[i] = stop[i]
        \/ stop'[i] = [stop[i] EXCEPT !.at = "close"] /\ rest = {}
             /\ stop[i].at = "wait"
    BY DEF MarkComplete
  <2> QED
    BY <2>1, <2>2 DEF Stops
<1> QED
  BY <1>2, <1>3

\* Completing a run of the worker: its mark is the only one that goes, and the
\* wait is resolved when none is left.
LEMMA TrackedCompletes ==
  ASSUME TypeOK, OursOK, Undisturbed, Undisturbed', Tracked,
         NEW s \in Slots, Completes(s)
  PROVE  Tracked'
<1>1. NoneComes /\ ~Ours(s)' /\ slot[s].pc = "release"
  BY NoneComesFree DEF Completes, Release, ReleaseFails
<1>2. CASE ~Ours(s)
  <2>1. UNCHANGED left
    <3>1. ASSUME ReleaseFails(s) PROVE FALSE
      <4>1. Spend("mongo") /\ left = Budget /\ left' = Budget
        BY <3>1 DEF ReleaseFails, Undisturbed, Planned
      <4>2. Budget["mongo"] \in Nat
        BY DEF FaultKinds
      <4> QED
        BY <4>1, <4>2 DEF Spend, TypeOK, FaultKinds
    <3> QED
      BY <3>1 DEF Completes, Release
  <2> QED
    BY <1>1, <1>2, <2>1, TrackedCalm DEF Completes
<1>3. CASE Ours(s)
  <2> DEFINE r == slot[s].run
             rest == tracker[current].inFlight \ {r}
  <2>0. current = 1 /\ 1 \in Objects /\ r \in tracker[1].inFlight
    BY <1>3, BudgetType DEF Tracked, Objects
  <2>1. /\ MarkComplete(r)
        /\ UNCHANGED <<made, current, redial>>
        /\ ~cleared'
    BY <1>3 DEF Completes, Undisturbed, Missed
  <2>2. \A h \in Slots \ {s} : Ours(h) => slot[h].run # r
    BY <1>3, <2>1 DEF Completes
  <2>3. tracker'[1].inFlight = rest /\ tracker'[1].down = tracker[1].down
    <3>1. rest = tracker[1].inFlight \ {r} /\ r \in Runs
      BY <1>1, <2>0, HandlerFields
    <3> HIDE DEF r, rest
    <3> QED
      BY <2>0, <2>1, <3>1, MarkTaken
  <2>4. \A h \in Slots : Ours(h)' => /\ Ours(h) /\ h # s
                                     /\ slot'[h].via = "open"
                                     /\ slot'[h].run = slot[h].run
                                     /\ slot[h].run \in rest
    BY <1>1, <2>0, <2>2 DEF NoneComes, SameRun, Tracked
  <2>5. ASSUME NEW i \in Signals
        PROVE  /\ stop'[i].obj = stop[i].obj
               /\ stop'[i].at = "none" <=> stop[i].at = "none"
               /\ \/ stop'[i].at = stop[i].at
                  \/ stop'[i].at = "close" /\ rest = {}
    <3>1. rest = tracker[1].inFlight \ {r} /\ r \in Runs
      BY <1>1, <2>0, HandlerFields
    <3> HIDE DEF r, rest
    <3> QED
      BY <2>0, <2>1, <3>1, MarkTaken
  <2>6. \A i \in Signals : stop'[i].at \in {"close", "leave"}
                             => \A h \in Slots : ~Ours(h)'
    BY <2>4, <2>5 DEF Tracked, WaitsForRuns, Undisturbed
  <2> HIDE DEF r, rest
  <2> QED
    BY <2>0, <2>1, <2>3, <2>4, <2>5, <2>6 DEF Tracked, WaitsForRuns
<1> QED
  BY <1>2, <1>3

LEMMA TrackedStep ==
  ASSUME TrackInv, TrackedInv, [ShutdownNext]_allVars
  PROVE  TrackedInv'
<1>0. /\ TypeOK /\ TypeOK' /\ OursOK /\ OursOK' /\ ShutdownTypeOK'
      /\ \A k \in FaultKinds : left[k] <= Budget[k]
      /\ 1 \in Objects
  BY TrackStep, BudgetType DEF TrackInv, TrackedInv, OursOK, ShutdownTypeOK, Objects
<1>1. \A k \in FaultKinds : left'[k] <= Budget[k]
  BY <1>0, LeftOrSpent, NotPlanned
<1>2. SUFFICES ASSUME Undisturbed' PROVE Tracked'
  BY <1>0, <1>1 DEF TrackedInv
<1>3. UNCHANGED left /\ \A kind \in FaultKinds : ~Spend(kind)
  BY <1>0, <1>2, LeftOrSpent, NotPlanned DEF Undisturbed
<1>4. Undisturbed /\ Tracked
  BY <1>0, <1>2, <1>3, HistoryGrows DEF Undisturbed, Planned, TrackedInv
<1>5. CASE UNCHANGED <<slot, ours>>
  BY <1>3, <1>4, <1>5, TrackedCalm DEF NoneComes, SameRun, Ours
<1>6. CASE Elsewhere
  BY <1>5, <1>6 DEF Elsewhere, Web, PostRun, Publish, PublishFails, CancelRead,
                    CancelWrite, LeaseExpires
<1>7. ASSUME NEW s \in Slots, DeliverOurs(s) PROVE Tracked'
  <2>0. ~early' /\ early' = (early \/ ~Settled) /\ ~ShuttingDown
    BY <1>2, <1>7 DEF DeliverOurs, Undisturbed, Missed
  <2>1. Settled /\ current = 1 /\ ~tracker[1].down
    <3>1. Settled
      BY <2>0
    <3> QED
      BY <1>4, <2>0, <3>1 DEF Settled, ShuttingDown, Tracked
  <2>2. \A i \in Signals : stop'[i].at = "none"
    BY <1>4, <1>7, <2>1 DEF Tracked, DeliverOurs
  <2> DEFINE h == [pc |-> "acquire", w |-> Target, run |-> Head(queue),
                   via |-> "open", abort |-> FALSE]
  <2>3. slot' = [slot EXCEPT ![s] = h]
    BY <1>7 DEF DeliverOurs, Deliver
  <2>4. tracker'[1].inFlight = tracker[1].inFlight \cup {Head(queue)}
          /\ tracker'[1].down = tracker[1].down
    <3>1. tracker' = [tracker EXCEPT ![1].inFlight = @ \cup {Head(queue)}]
      BY <1>7, <2>1 DEF DeliverOurs, MarkRunning
    <3> QED
      BY <1>0, <3>1 DEF OursOK
  <2>5. ASSUME NEW g \in Slots, Ours(g)'
        PROVE  slot'[g].via = "open" /\ slot'[g].run \in tracker'[1].inFlight
    <3>1. CASE g = s
      BY <1>0, <2>3, <2>4, <3>1 DEF TypeOK
    <3>2. CASE g # s
      <4>1. slot'[g] = slot[g]
        BY <1>0, <2>3, <3>2 DEF TypeOK
      <4> QED
        BY <1>4, <2>4, <2>5, <4>1 DEF Tracked, Ours
    <3> QED
      BY <3>1, <3>2
  <2> QED
    BY <1>4, <1>7, <2>1, <2>2, <2>4, <2>5
    DEF DeliverOurs, Tracked, WaitsForRuns
<1>8. ASSUME NEW w \in Workers, NEW s \in Slots, DeliverOther(w, s)
      PROVE  Tracked'
  <2>1. NoneComes
    BY <1>0, <1>8 DEF DeliverOther, Deliver, NoneComes, SameRun, Ours, TypeOK
  <2> QED
    BY <1>3, <1>4, <1>8, <2>1, TrackedCalm DEF DeliverOther
<1>9. ASSUME NEW s \in Slots, Handler(s) \/ Interrupted(s) PROVE Tracked'
  BY <1>0, <1>2, <1>3, <1>4, <1>9, TrackedDispatch, TrackedCompletes DEF Handler
<1>10. ASSUME NEW w \in Workers, Reaping(w) \/ Consume(w) PROVE Tracked'
  <2>1. UNCHANGED <<slot, ours>>
    BY <1>4, <1>10
    DEF Reaping, Reap, ReaperThrows, ReaperReset, ReaperUnlock, ReaperPublish,
        Consume, Reconnect, Tracked
  <2> QED
    BY <1>5, <2>1
<1>11. ~Lost /\ ~Killed
  BY <1>3 DEF Lost, ConnectionLost, Killed, Crash, FaultKinds
<1>12. ~Redial
  BY <1>4 DEF Redial, Tracked
<1>13. CASE Track
  <2>1. current' = 1 /\ UNCHANGED <<slot, tracker, made, redial, stop>>
    BY <1>4, <1>13 DEF Track, Tracked, vars
  <2> QED
    BY <1>4, <2>1 DEF Tracked, WaitsForRuns, Ours, Undisturbed
<1>14. ASSUME NEW i \in Signals, Signal(i) PROVE Tracked'
  <2>1. current = 1 /\ UNCHANGED <<slot, made, redial, current>>
    BY <1>4, <1>14 DEF Signal, Settled, Tracked, vars
  <2>2. i = 1 /\ \A j \in Signals : stop[j].at = "none"
    <3>1. stop'[i].at # "none"
      BY <1>0, <1>14 DEF Signal, OursOK
    <3>2. i = 1
      BY <1>2, <3>1 DEF Undisturbed, Planned, Signals
    <3>3. \A j \in Signals : j > 1 => stop[j].at = "none"
      BY <1>4 DEF Undisturbed, Planned
    <3>4. \A j \in Signals : j = 1 \/ j > 1
      BY DEF Signals
    <3> QED
      BY <1>14, <3>2, <3>3, <3>4 DEF Signal
  <2>3. ~tracker[1].down
    BY <1>4, <2>2 DEF Tracked
  <2>4. tracker'[1].inFlight = tracker[1].inFlight /\ tracker'[1].down
    BY <1>0, <1>14, <2>1 DEF Signal, OursOK
  <2>5. stop' = [stop EXCEPT ![i] = [at |-> "cancel", obj |-> 1]]
    BY <1>14, <2>1, <2>3 DEF Signal, ShuttingDown
  <2>6. /\ stop'[i].at = "cancel"
        /\ stop'[i].obj = 1
        /\ \A j \in Signals \ {i} : stop'[j] = stop[j]
    BY <1>0, <2>5 DEF OursOK
  <2> QED
    BY <1>4, <2>1, <2>2, <2>4, <2>6 DEF Tracked, WaitsForRuns, Ours
<1>15. ASSUME NEW i \in Signals, CancelReturns(i) PROVE Tracked'
  <2>1. /\ current = 1 /\ stop[i].obj = 1
        /\ UNCHANGED <<slot, made, redial, current, tracker>>
    BY <1>4, <1>15 DEF CancelReturns, Tracked, vars
  <2>2. /\ \A j \in Signals : stop'[j].obj = stop[j].obj
        /\ \A j \in Signals \ {i} : stop'[j].at = stop[j].at
        /\ stop'[i].at = IF tracker[1].inFlight = {} THEN "close" ELSE "wait"
    BY <1>0, <1>15, <2>1 DEF CancelReturns, OursOK, Stops
  <2>3. stop'[i].at = "close" => \A s \in Slots : ~Ours(s)
    BY <1>4, <2>2 DEF Tracked
  <2> QED
    BY <1>4, <1>15, <2>1, <2>2, <2>3
    DEF CancelReturns, Tracked, WaitsForRuns, Ours, Undisturbed
<1>16. ASSUME NEW i \in Signals PROVE ~Timeout(i)
  BY <1>2 DEF Timeout, Undisturbed
<1>17. ASSUME NEW i \in Signals, CloseReturns(i) \/ Exit(i) PROVE Tracked'
  <2>1. \A s \in Slots : ~Ours(s)
    BY <1>4, <1>17 DEF CloseReturns, Exit, Tracked, WaitsForRuns, Undisturbed
  <2>2. \A s \in Slots : ~Ours(s)'
    <3>1. CASE CloseReturns(i)
      BY <1>0, <2>1, <3>1 DEF CloseReturns, Detached, Ours
    <3>2. CASE Exit(i)
      BY <1>0, <2>1, <3>2, NoneComesDie DEF Exit, NoneComes
    <3> QED
      BY <1>17, <3>1, <3>2
  <2>3. \A j \in Signals : /\ stop'[j].obj = stop[j].obj
                           /\ stop'[j].at = "none" <=> stop[j].at = "none"
    BY <1>0, <1>17 DEF CloseReturns, Exit, OursOK, Stops
  <2>4. UNCHANGED <<made, redial, current, tracker>>
    BY <1>17 DEF CloseReturns, Exit
  <2> QED
    BY <1>4, <2>2, <2>3, <2>4 DEF Tracked, WaitsForRuns
<1>18. CASE UNCHANGED allVars
  BY <1>5, <1>18 DEF allVars, vars
<1> QED
  BY <1>6, <1>7, <1>8, <1>9, <1>10, <1>11, <1>12, <1>13, <1>14, <1>15, <1>16,
     <1>17, <1>18
  DEF ShutdownNext, Delivers, Stopping

\* A planned shutdown whose timer does not fire closes the channel, and ends the
\* process, with no delivery, run or timer of the worker left, unless a delivery
\* came before its handler object or a mark was taken away too early.
THEOREM NoRunIsCutOff == ShutdownSpec => []NoExitUnderRun
<1>1. TrackedInv => NoExitUnderRun
  BY DEF TrackedInv, Tracked, Undisturbed, NoExitUnderRun, WaitsForRuns
<1> QED
  BY TrackInit, TrackStep, TrackedInit, TrackedStep, <1>1, PTL DEF ShutdownSpec

-----------------------------------------------------------------------------
(* A planned shutdown loses no job, even if its timer cuts runs off. *)

\* No fault so far, one signal at most, and every delivery of the worker is
\* marked.  The timer may have fired.
Steady == Planned /\ ~Missed

\* The handlers that may still claim or re-publish their run.
Undecided == {"acquire", "claim", "delayed"}

Over == \E i \in Signals : stop[i].at \in {"close", "leave"}
Leaving == \E i \in Signals : stop[i].at = "leave"

\* What the timer leaves of Tracked: the worker's deliveries are marked and come
\* before the shutdown; once the wait is over none of them is undecided, and only
\* the closing of the channel makes a delivery tag useless.
Followed ==
  /\ made = 1
  /\ redial = "off"
  /\ \A s \in Slots : Ours(s) => /\ current = 1
                                 /\ slot[s].run \in tracker[1].inFlight
  /\ \A i \in Signals : stop[i].at # "none" => /\ current = 1
                                               /\ stop[i].obj = 1
                                               /\ tracker[1].down
  /\ tracker[1].down => \E i \in Signals : stop[i].at # "none"
  /\ Over => \A s \in Slots : Ours(s) => slot[s].pc \notin Undecided
  /\ Leaving => chan[Target] = "closed"
  /\ ~Leaving => /\ chan[Target] = "open"
                 /\ \A s \in Slots : Ours(s) => slot[s].via = "open"
  /\ \A w \in Workers \ {Target} :
       /\ chan[w] = "open"
       /\ \A s \in Slots : slot[s].w = w => slot[s].via = "open"

\* A pending run is being posted or has a job; no run waits for the reaper while
\* the worker lives, so that its own reaper has none to lose when it exits.
JobsKept ==
  /\ \A r \in Runs : status[r] = "pending" => r \in posting \/ HasJob(r)
  /\ \A r \in Runs : status[r] = "none" => r \notin posting \cup ToSet(accepted)
  /\ \A r \in posting : r \notin ToSet(accepted)
  /\ reaper[Target] = Idle
  /\ alive => \A r \in Runs : status[r] = "running" => Executing(r) # {}

KeepInv ==
  /\ \A k \in FaultKinds : left[k] <= Budget[k]
  /\ Steady => ExecutionInv /\ Followed /\ JobsKept

LEMMA KeepInit == ShutdownInit => KeepInv
<1> SUFFICES ASSUME ShutdownInit PROVE KeepInv
  OBVIOUS
<1>1. \A s \in Slots : slot[s].pc = "free" /\ ~Ours(s) /\ slot[s].w = None
  BY DEF ShutdownInit, Init, AtStart, Free, Ours
<1>2. 1 \in Objects /\ Target \in Workers /\ None \notin Workers
  BY BudgetType DEF Objects
<1>3. /\ \A i \in Signals : stop[i].at = "none"
      /\ \A w \in Workers : chan[w] = "open"
      /\ ~tracker[1].down
  BY <1>2 DEF ShutdownInit, Init, AtStart, Fresh
<1>4. Followed
  BY <1>1, <1>2, <1>3 DEF ShutdownInit, Followed, Over, Leaving
<1>5. posting = {} /\ ToSet(accepted) = {} /\ \A r \in Runs : status[r] = "none"
  BY DEF ShutdownInit, Init, AtStart, ToSet
<1>6. JobsKept
  BY <1>2, <1>5 DEF ShutdownInit, Init, AtStart, JobsKept
<1>7. \A k \in FaultKinds : left[k] <= Budget[k]
  BY DEF ShutdownInit, Init, AtStart
<1> QED
  BY <1>4, <1>6, <1>7, ExecutionInit DEF ShutdownInit, KeepInv

\* Whatever the handlers of the worker do, they keep their delivery; a handler
\* that ended has no worker.
Stays(h) == /\ slot'[h].w = slot[h].w
            /\ slot'[h].run = slot[h].run
            /\ slot'[h].via = slot[h].via
            /\ slot'[h].pc \in Undecided => slot[h].pc \in Undecided
SlotsStay == \A h \in Slots : slot'[h].w = None \/ Stays(h)

LEMMA StayMove ==
  ASSUME TypeOK, NEW s \in Slots, NEW next,
         slot' = [slot EXCEPT ![s].pc = next],
         next \in Undecided => slot[s].pc \in Undecided
  PROVE  /\ SlotsStay
         /\ slot'[s].pc = next /\ slot'[s].run = slot[s].run
         /\ \A h \in Slots : h # s => slot'[h] = slot[h]
BY DEF TypeOK, Handlers, SlotsStay, Stays

LEMMA StayFree ==
  ASSUME TypeOK, NEW s \in Slots, slot' = [slot EXCEPT ![s] = Free]
  PROVE  /\ SlotsStay
         /\ slot'[s].w = None
         /\ \A h \in Slots : h # s => slot'[h] = slot[h]
BY DEF TypeOK, Free, SlotsStay, Stays

LEMMA FollowedCalm ==
  ASSUME Followed, SlotsStay, UNCHANGED <<chan, ours>>
  PROVE  Followed'
<1>1. \A s \in Slots : Ours(s)' => Ours(s) /\ Stays(s)
  BY DEF SlotsStay, Stays, Ours
<1>2. ASSUME NEW w \in Workers \ {Target}, NEW s \in Slots, slot'[s].w = w
      PROVE  slot'[s].via = "open"
  BY <1>2 DEF SlotsStay, Stays, Followed
<1>3. /\ made' = made /\ redial' = redial /\ current' = current
      /\ tracker' = tracker /\ stop' = stop /\ chan' = chan
  BY DEF ours
<1>4. (Over' <=> Over) /\ (Leaving' <=> Leaving)
  BY <1>3 DEF Over, Leaving
<1>5. \A s \in Slots : Ours(s)' => /\ Ours(s)
                                   /\ slot'[s].run = slot[s].run
                                   /\ slot'[s].via = slot[s].via
                                   /\ slot[s].pc \notin Undecided =>
                                        slot'[s].pc \notin Undecided
  BY <1>1 DEF Stays
<1>6. /\ Over' => \A s \in Slots : Ours(s)' => slot'[s].pc \notin Undecided
      /\ Leaving' => chan'[Target] = "closed"
      /\ ~Leaving' => /\ chan'[Target] = "open"
                      /\ \A s \in Slots : Ours(s)' => slot'[s].via = "open"
  BY <1>3, <1>4, <1>5 DEF Followed
<1>7. /\ made' = 1 /\ redial' = "off"
      /\ \A s \in Slots : Ours(s)' => /\ current' = 1
                                      /\ slot'[s].run \in tracker'[1].inFlight
      /\ \A i \in Signals : stop'[i].at # "none" => /\ current' = 1
                                                    /\ stop'[i].obj = 1
                                                    /\ tracker'[1].down
      /\ tracker'[1].down => \E i \in Signals : stop'[i].at # "none"
  BY <1>3, <1>5 DEF Followed
<1>8. \A w \in Workers \ {Target} : chan'[w] = "open"
  BY DEF Followed
<1> QED
  BY <1>2, <1>6, <1>7, <1>8 DEF Followed

\* A step that keeps the jobs of the runs that are pending and the executions of
\* a worker that lives.
LEMMA JobsCalm ==
  ASSUME JobsKept, UNCHANGED <<status, posting, accepted>>, alive' => alive,
         \A w \in Workers : reaper'[w] = reaper[w],
         ToSet(queue) \subseteq ToSet(queue'),
         \A h \in Slots :
           slot[h].pc \in Undecided /\ status[slot[h].run] = "pending"
             => slot'[h].pc \in Undecided /\ slot'[h].run = slot[h].run,
         alive' => \A h \in Slots : slot[h].pc = "run" =>
                     slot'[h].pc = "run" /\ slot'[h].run = slot[h].run
  PROVE  JobsKept'
<1>1. ASSUME NEW r \in Runs, status[r] = "pending", HasJob(r) PROVE HasJob(r)'
  BY <1>1 DEF HasJob, Undecided
<1>2. ASSUME alive', NEW r \in Runs, Executing(r) # {} PROVE Executing(r)' # {}
  BY <1>2 DEF Executing
<1>3. \A r \in Runs : status'[r] = "pending" => r \in posting' \/ HasJob(r)'
  BY <1>1 DEF JobsKept
<1>4. reaper'[Target] = Idle
  BY DEF JobsKept
<1>5. alive' => \A r \in Runs : status'[r] = "running" => Executing(r)' # {}
  BY <1>2 DEF JobsKept
<1>6. /\ \A r \in Runs : status'[r] = "none"
                           => r \notin posting' \cup ToSet(accepted')
      /\ \A r \in posting' : r \notin ToSet(accepted')
  BY DEF JobsKept
<1> QED
  BY <1>3, <1>4, <1>5, <1>6 DEF JobsKept

\* Without faults a handler settles its own delivery, or one the closed channel
\* took away, which its catch clause ignores.
Moves(s, next) == /\ slot' = [slot EXCEPT ![s].pc = next]
                  /\ ToSet(queue) \subseteq ToSet(queue')
                  /\ chan' = chan

LEMMA OwnSettle ==
  ASSUME TypeOK, Followed, NEW s \in Slots, slot[s].pc # "free",
         NEW back \in BOOLEAN, NEW next, Settle(s, back, next)
  PROVE  Moves(s, next)
<1>0. slot[s].w \in Workers /\ slot[s].run \in Runs
  BY HandlerFields
<1>1. slot[s].via # "open" => chan[slot[s].w] = "closed"
  BY <1>0 DEF Followed, Ours
<1>2. SettleOwn(s, back, next)
  BY <1>1 DEF Settle, SettleOther, SettleUnknown
<1>3. ToSet(queue) \subseteq ToSet(queue')
  BY <1>0, <1>2, RequeueKeeps DEF SettleOwn
<1> QED
  BY <1>2, <1>3 DEF SettleOwn, Moves

LEMMA OwnGuarded ==
  ASSUME TypeOK, Followed, NEW s \in Slots, slot[s].pc # "free",
         NEW back \in BOOLEAN, SettleGuarded(s, back)
  PROVE  Moves(s, "release")
BY OwnSettle DEF SettleGuarded, Moves

\* A handler whose step moves it on, without a decision on a pending run.
LEMMA JobsMove ==
  ASSUME TypeOK, JobsKept, NEW s \in Slots, slot[s].pc # "run", NEW next,
         Moves(s, next), UNCHANGED <<status, posting, accepted, reaper, alive>>,
         \/ next \in Undecided
         \/ slot[s].pc \notin Undecided
         \/ status[slot[s].run] # "pending",
         next \in Undecided => slot[s].pc \in Undecided
  PROVE  JobsKept'
<1>1. /\ slot'[s].pc = next /\ slot'[s].run = slot[s].run
      /\ \A h \in Slots : h # s => slot'[h] = slot[h]
  BY StayMove DEF Moves
<1>2. ASSUME NEW h \in Slots
      PROVE  /\ slot[h].pc \in Undecided /\ status[slot[h].run] = "pending"
                  => slot'[h].pc \in Undecided /\ slot'[h].run = slot[h].run
             /\ slot[h].pc = "run" =>
                  slot'[h].pc = "run" /\ slot'[h].run = slot[h].run
  BY <1>1
<1>3. ToSet(queue) \subseteq ToSet(queue')
  BY DEF Moves
<1> QED
  BY <1>2, <1>3, JobsCalm

\* What a handler does without faults: its runs keep their jobs, and the worker
\* its channel.
LEMMA HandlerKeeps ==
  ASSUME TypeOK, TypeOK', ExecutionInv, Followed, JobsKept, NEW s \in Slots,
         Handle(s) \/ Upset(s) \/ Progress(s) \/ PollCancel(s),
         \A kind \in FaultKinds : ~Spend(kind)
  PROVE  /\ ~Throws(s)
         /\ SlotsStay
         /\ UNCHANGED <<chan, left>>
         /\ alive' = alive => JobsKept'
<1>0. slot[s].pc # "free" => slot[s].run \in Runs /\ slot[s].w \in Workers
  BY HandlerFields
<1>1. ~BusyThrows(s) /\ ~TimerThrows(s) /\ ~Upset(s)
  <2>1. slot[s].pc \in Undecided /\ slot[s].via # "open" => FALSE
    <3> SUFFICES ASSUME slot[s].pc \in Undecided, slot[s].via # "open"
                 PROVE  FALSE
      OBVIOUS
    <3>1. Ours(s) /\ Leaving
      BY <1>0 DEF Followed, Ours, Undecided
    <3>2. Over
      BY <3>1 DEF Leaving, Over
    <3> QED
      BY <3>1, <3>2 DEF Followed
  <2> QED
    BY <2>1 DEF BusyThrows, TimerThrows, SettleThrows, Upset, AcquireThrows,
                HandlerThrows, ReleaseFails, SlowTurn, FaultKinds, Undecided
<1>2. ~Throws(s)
  BY <1>1 DEF Throws, Upset
<1> DEFINE Goal == /\ SlotsStay
                   /\ UNCHANGED <<chan, left>>
                   /\ alive' = alive => JobsKept'
<1> SUFFICES Goal
  BY <1>2
<1>3. ASSUME NEW next, Moves(s, next), slot[s].pc # "run",
             UNCHANGED <<status, posting, accepted, reaper, left>>,
             \/ next \in Undecided
             \/ slot[s].pc \notin Undecided
             \/ status[slot[s].run] # "pending",
             next \in Undecided => slot[s].pc \in Undecided
      PROVE  Goal
  BY <1>3, StayMove, JobsMove DEF Moves
<1>4. CASE TryAcquire(s)
  <2>1. Moves(s, "claim")
    BY <1>4 DEF TryAcquire, Moves
  <2> QED
    BY <1>3, <1>4, <2>1 DEF TryAcquire, Undecided
<1>5. CASE Busy(s)
  <2>1. Moves(s, "delayed")
    BY <1>5, OwnSettle DEF Busy
  <2> QED
    BY <1>3, <1>5, <2>1 DEF Busy, Undecided
<1>6. CASE ClaimNull(s)
  <2>1. Moves(s, "release")
    BY <1>6, OwnGuarded DEF ClaimNull
  <2> QED
    BY <1>3, <1>6, <2>1 DEF ClaimNull, Undecided
<1>7. CASE Acknowledge(s)
  <2>1. Moves(s, "release")
    BY <1>7, OwnGuarded DEF Acknowledge
  <2> QED
    BY <1>3, <1>7, <2>1 DEF Acknowledge, Undecided
<1>8. CASE Release(s)
  <2>1. SlotsStay /\ \A h \in Slots : h # s => slot'[h] = slot[h]
    BY <1>8, StayFree DEF Release
  <2>2. slot[s].pc \notin Undecided /\ slot[s].pc # "run"
    BY <1>8 DEF Release, Undecided
  <2>3. alive' = alive => JobsKept'
    BY <1>8, <2>1, <2>2, JobsCalm DEF Release
  <2> QED
    BY <1>8, <2>1, <2>3 DEF Release
<1>9. CASE PollCancel(s)
  <2>1. \A h \in Slots : /\ slot'[h].w = slot[h].w
                         /\ slot'[h].run = slot[h].run
                         /\ slot'[h].via = slot[h].via
                         /\ slot'[h].pc = slot[h].pc
    BY <1>9 DEF PollCancel, TypeOK, Handlers
  <2>2. alive' = alive => JobsKept'
    BY <1>9, <2>1, JobsCalm DEF PollCancel
  <2> QED
    BY <1>9, <2>1, <2>2 DEF PollCancel, SlotsStay, Stays
<1>10. CASE Progress(s)
  <2>1. alive' = alive => JobsKept'
    BY <1>10, JobsCalm DEF Progress
  <2> QED
    BY <1>10, <2>1 DEF Progress, SlotsStay, Stays
<1>11. CASE TimerFires(s)
  <2>1. SlotsStay /\ \A h \in Slots : h # s => slot'[h] = slot[h]
    BY <1>11, StayFree DEF TimerFires
  <2>2. ToSet(queue') = ToSet(queue) \cup {slot[s].run}
    BY <1>0, <1>11, QueueElements DEF TimerFires, TypeOK
  <2>3. ASSUME NEW r \in Runs, HasJob(r) PROVE HasJob(r)'
    BY <1>11, <2>1, <2>2, <2>3 DEF TimerFires, HasJob
  <2>4. \A r \in Runs : Executing(r) # {} => Executing(r)' # {}
    BY <1>11, <2>1 DEF TimerFires, Executing
  <2>5. alive' = alive => JobsKept'
    BY <1>11, <2>3, <2>4 DEF TimerFires, JobsKept
  <2> QED
    BY <1>11, <2>1, <2>5 DEF TimerFires
<1>12. CASE Claim(s)
  <2> DEFINE r == slot[s].run
  <2>0. r \in Runs /\ status' = [status EXCEPT ![r] = "running"]
    BY <1>0, <1>12 DEF Claim
  <2>1. /\ SlotsStay
        /\ slot'[s].pc = "run" /\ slot'[s].run = slot[s].run
        /\ \A h \in Slots : h # s => slot'[h] = slot[h]
    <3>1. slot' = [slot EXCEPT ![s].pc = "run"] /\ "run" \notin Undecided
      BY <1>12 DEF Claim, Undecided
    <3> QED
      BY <3>1, StayMove
  <2>2. ASSUME NEW q \in Runs, q # r, HasJob(q) PROVE HasJob(q)'
    BY <1>12, <2>1, <2>2 DEF Claim, HasJob
  <2>3. ASSUME NEW q \in Runs, Executing(q) # {} \/ q = r
        PROVE  Executing(q)' # {}
    BY <2>1, <2>3 DEF Executing
  <2>4. \A q \in Runs : q # r => status'[q] = status[q]
    BY <2>0 DEF TypeOK
  <2>5. status'[r] = "running" /\ status[r] = "pending"
    BY <1>12, <2>0 DEF TypeOK, Claim
  <2>6. alive' = alive => JobsKept'
    <3> HIDE DEF r
    <3> QED
      BY <1>12, <2>2, <2>3, <2>4, <2>5 DEF Claim, JobsKept
  <2> QED
    BY <1>12, <2>1, <2>6 DEF Claim
<1>13. ASSUME NEW outcome \in Terminal, Finish(s, outcome) PROVE Goal
  <2> DEFINE r == slot[s].run
             next == IF outcome = "done" THEN "ack" ELSE "nack"
  <2>0. /\ r \in Runs /\ status' = [status EXCEPT ![r] = outcome]
        /\ outcome \notin {"none", "pending", "running"}
        /\ status[r] # "pending"
        /\ slot[s].pc = "run"
    BY <1>0, <1>13 DEF Finish, Terminal, ExecutionInv
  <2>1. /\ SlotsStay
        /\ slot'[s].pc = next /\ slot'[s].run = slot[s].run
        /\ \A h \in Slots : h # s => slot'[h] = slot[h]
    <3>1. slot' = [slot EXCEPT ![s].pc = next] /\ next \notin Undecided
      BY <1>13 DEF Finish, Undecided
    <3> HIDE DEF next
    <3> QED
      BY <3>1, StayMove
  <2>2. ASSUME NEW q \in Runs, HasJob(q) PROVE HasJob(q)'
    BY <1>13, <2>0, <2>1, <2>2 DEF Finish, HasJob
  <2>3. ASSUME NEW q \in Runs, q # r, Executing(q) # {}
        PROVE  Executing(q)' # {}
    BY <2>1, <2>3 DEF Executing
  <2>4. \A q \in Runs : q # r => status'[q] = status[q]
    BY <2>0 DEF TypeOK
  <2>5. status'[r] \notin {"none", "pending", "running"}
    BY <2>0 DEF TypeOK
  <2>6. alive' = alive => JobsKept'
    <3> HIDE DEF r
    <3> QED
      BY <1>13, <2>2, <2>3, <2>4, <2>5 DEF Finish, JobsKept
  <2> QED
    BY <1>13, <2>1, <2>6 DEF Finish
<1> QED
  BY <1>1, <1>4, <1>5, <1>6, <1>7, <1>8, <1>9, <1>10, <1>11, <1>12, <1>13
  DEF Handle

\* A run of the worker is complete: its mark is the only one that goes.
LEMMA FollowedCompletes ==
  ASSUME TypeOK, OursOK, Followed, ~cleared', NEW s \in Slots, Completes(s),
         UNCHANGED chan
  PROVE  Followed'
<1>1. slot' = [slot EXCEPT ![s] = Free]
  BY DEF Completes, Release, ReleaseFails
<1>2. /\ SlotsStay
      /\ slot'[s].w = None
      /\ \A h \in Slots : h # s => slot'[h] = slot[h]
  BY <1>1, StayFree
<1>3. CASE ~Ours(s)
  BY <1>2, <1>3, FollowedCalm DEF Completes
<1>4. CASE Ours(s)
  <2> DEFINE r == slot[s].run
             rest == tracker[1].inFlight \ {r}
  <2>1. /\ current = 1 /\ MarkComplete(r)
        /\ UNCHANGED <<made, current, redial>>
        /\ \A h \in Slots \ {s} : Ours(h) => slot[h].run # r
    BY <1>4 DEF Followed, Completes
  <2>2. /\ tracker'[1].inFlight = rest
        /\ tracker'[1].down = tracker[1].down
        /\ \A i \in Signals : /\ stop'[i].obj = stop[i].obj
                              /\ stop'[i].at = "none" <=> stop[i].at = "none"
                              /\ stop'[i].at = "leave" <=> stop[i].at = "leave"
                              /\ \/ stop'[i].at = stop[i].at
                                 \/ stop'[i].at = "close" /\ rest = {}
    <3>1. rest = tracker[1].inFlight \ {r} /\ r \in Runs
      BY HandlerFields DEF Completes, Release, ReleaseFails
    <3> HIDE DEF r, rest
    <3> QED
      BY <2>1, <3>1, MarkTaken
  <2>3. \A h \in Slots : Ours(h)' => /\ Ours(h) /\ h # s
                                     /\ slot'[h] = slot[h]
                                     /\ slot[h].run \in rest
    <3>1. ASSUME NEW h \in Slots, Ours(h)' PROVE h # s
      BY <1>2, <3>1 DEF Ours
    <3>2. ASSUME NEW h \in Slots, Ours(h)' PROVE slot'[h] = slot[h] /\ Ours(h)
      BY <1>2, <3>1, <3>2 DEF Ours
    <3> QED
      BY <2>1, <3>1, <3>2 DEF Followed
  <2> HIDE DEF rest, r
  <2>4. Leaving' <=> Leaving
    BY <2>2 DEF Leaving
  <2>5. Over' => Over \/ rest = {}
    BY <2>2 DEF Over
  <2>6. /\ Over' => \A h \in Slots : Ours(h)' => slot'[h].pc \notin Undecided
        /\ Leaving' => chan'[Target] = "closed"
        /\ ~Leaving' => /\ chan'[Target] = "open"
                        /\ \A h \in Slots : Ours(h)' => slot'[h].via = "open"
    BY <2>3, <2>4, <2>5 DEF Followed
  <2>7. ASSUME NEW w \in Workers \ {Target}
        PROVE  /\ chan'[w] = "open"
               /\ \A h \in Slots : slot'[h].w = w => slot'[h].via = "open"
    BY <1>2, <2>7 DEF Followed
  <2>8. /\ made' = 1 /\ redial' = "off"
        /\ \A h \in Slots : Ours(h)' => /\ current' = 1
                                        /\ slot'[h].run \in tracker'[1].inFlight
        /\ \A i \in Signals : stop'[i].at # "none" => /\ current' = 1
                                                      /\ stop'[i].obj = 1
                                                      /\ tracker'[1].down
        /\ tracker'[1].down => \E i \in Signals : stop'[i].at # "none"
    BY <2>1, <2>2, <2>3 DEF Followed
  <2> QED
    BY <2>6, <2>7, <2>8 DEF Followed
<1> QED
  BY <1>3, <1>4

\* The web tier posts, publishes and cancels; a lease may expire.
LEMMA WebKeeps ==
  ASSUME TypeOK, JobsKept, NEW r \in Runs, Web(r) \/ LeaseExpires(r),
         alive' = alive, \A kind \in FaultKinds : ~Spend(kind)
  PROVE  JobsKept'
<1>0. UNCHANGED <<slot, reaper>>
  BY DEF Web, PostRun, Publish, PublishFails, CancelRead, CancelWrite,
         LeaseExpires
<1>1. \A q \in Runs : Executing(q)' = Executing(q)
  BY <1>0 DEF Executing
<1>2. ASSUME UNCHANGED queue, NEW q \in Runs, HasJob(q) PROVE HasJob(q)'
  BY <1>0, <1>2 DEF HasJob
<1>3. CASE PostRun(r)
  <2>1. status[r] = "none" /\ \A q \in Runs : q # r => status'[q] = status[q]
    BY <1>3 DEF PostRun, TypeOK
  <2>2. status'[r] = "pending"
    BY <1>3 DEF PostRun, TypeOK
  <2> QED
    BY <1>0, <1>1, <1>2, <1>3, <2>1, <2>2 DEF PostRun, JobsKept
<1>4. CASE Publish(r)
  <2>1. /\ ToSet(queue') = ToSet(queue) \cup {r}
        /\ ToSet(accepted') = ToSet(accepted) \cup {r}
    BY <1>4, QueueElements DEF Publish, TypeOK
  <2>2. ASSUME NEW q \in Runs, HasJob(q) \/ q = r PROVE HasJob(q)'
    BY <1>0, <2>1, <2>2 DEF HasJob
  <2> QED
    BY <1>0, <1>1, <1>4, <2>1, <2>2 DEF Publish, JobsKept
<1>5. CASE CancelRead(r)
  BY <1>0, <1>1, <1>2, <1>5 DEF CancelRead, JobsKept
<1>6. CASE CancelWrite(r)
  <2>1. \A q \in Runs : status'[q] = status[q] \/ status'[q] = "cancelled"
    BY <1>6 DEF CancelWrite, TypeOK
  <2> QED
    BY <1>0, <1>1, <1>2, <1>6, <2>1 DEF CancelWrite, JobsKept
<1>7. CASE LeaseExpires(r)
  BY <1>0, <1>1, <1>2, <1>7 DEF LeaseExpires, JobsKept
<1>8. ~PublishFails(r)
  BY DEF PublishFails, FaultKinds
<1> QED
  BY <1>3, <1>4, <1>5, <1>6, <1>7, <1>8 DEF Web

\* A delivery takes the job from the queue to its handler.
LEMMA DeliverKeeps ==
  ASSUME TypeOK, JobsKept, NEW w \in Workers, NEW s \in Slots, Deliver(w, s),
         alive' = alive
  PROVE  JobsKept'
<1>1. /\ slot'[s].pc = "acquire"
      /\ slot'[s].run = Head(queue)
      /\ \A h \in Slots : h # s => slot'[h] = slot[h]
      /\ slot[s].pc = "free"
  BY DEF Deliver, TypeOK
<1>2. ToSet(queue) = ToSet(queue') \cup {Head(queue)}
  <2>1. queue \in Seq(Runs) /\ queue # << >> /\ queue' = Tail(queue)
    BY DEF Deliver, TypeOK
  <2>2. Head(queue) \in Runs
    BY <2>1
  <2> QED
    BY <2>1, <2>2, QueueElements
<1>3. ASSUME NEW r \in Runs, HasJob(r) PROVE HasJob(r)'
  <2>1. CASE r = Head(queue)
    BY <1>1, <2>1 DEF HasJob
  <2>2. CASE r # Head(queue)
    BY <1>1, <1>2, <1>3, <2>2 DEF HasJob, Deliver
  <2> QED
    BY <2>1, <2>2
<1>4. \A r \in Runs : Executing(r) # {} => Executing(r)' # {}
  BY <1>1 DEF Executing
<1> QED
  BY <1>3, <1>4 DEF Deliver, JobsKept

\* While the worker lives no run is stale, and its reaper finds nothing; the
\* reapers of the others bring a run's job back before they go on.
LEMMA ReaperKeeps ==
  ASSUME TypeOK, ExecutionInv, JobsKept, NEW w \in Workers, Reaping(w),
         \A kind \in FaultKinds : ~Spend(kind)
  PROVE  JobsKept' /\ w # Target
<1>0. /\ UNCHANGED <<slot, posting, accepted, alive>>
      /\ reaper \in [Workers -> [at : {"idle", "unlock", "publish"},
                                 run : Runs \cup {None}]]
  BY DEF Reaping, Reap, ReaperReset, ReaperUnlock, ReaperPublish, ReaperThrows,
         ours, TypeOK
<1>1. \A q \in Runs : Executing(q)' = Executing(q)
  BY <1>0 DEF Executing
<1>2. ASSUME NEW r \in Runs, ReaperReset(w, r) PROVE ~alive
  BY <1>2 DEF ReaperReset, ExecutionInv, JobsKept
<1>3. ~ReaperThrows(w) /\ Reap(w)
  BY DEF Reaping, ReaperThrows, FaultKinds
<1>4. w # Target
  <2> SUFFICES ASSUME w = Target PROVE FALSE
    OBVIOUS
  <2>1. alive /\ reaper[w] = Idle
    BY DEF Reaping, JobsKept
  <2> QED
    BY <1>2, <1>3, <2>1 DEF Reap, ReaperUnlock, ReaperPublish, Idle
<1>5. ASSUME NEW r \in Runs, ReaperReset(w, r) PROVE JobsKept'
  <2>1. /\ \A q \in Runs : q # r => status'[q] = status[q]
        /\ status'[r] = "pending" /\ status[r] = "running"
    BY <1>5 DEF ReaperReset, TypeOK
  <2>2. /\ reaper'[w].at = "unlock" /\ reaper'[w].run = r
        /\ \A v \in Workers : v # w => reaper'[v] = reaper[v]
        /\ reaper[w].at = "idle"
    BY <1>0, <1>5 DEF ReaperReset, Idle
  <2>3. ASSUME NEW q \in Runs, HasJob(q) \/ q = r PROVE HasJob(q)'
    BY <1>0, <1>5, <2>2, <2>3 DEF ReaperReset, HasJob
  <2>4. ~alive'
    BY <1>0, <1>2, <1>5
  <2>5. reaper'[Target] = Idle
    BY <1>4, <2>2 DEF JobsKept
  <2>6. \A q \in Runs : status'[q] = "pending" => q \in posting' \/ HasJob(q)'
    BY <1>0, <2>1, <2>3 DEF JobsKept
  <2> QED
    BY <1>0, <2>1, <2>4, <2>5, <2>6 DEF JobsKept
<1>6. CASE ReaperUnlock(w)
  <2>1. /\ reaper'[w].at = "publish" /\ reaper'[w].run = reaper[w].run
        /\ \A v \in Workers : v # w => reaper'[v] = reaper[v]
    BY <1>0, <1>6 DEF ReaperUnlock
  <2>2. ASSUME NEW q \in Runs, HasJob(q) PROVE HasJob(q)'
    BY <1>0, <1>6, <2>1, <2>2 DEF ReaperUnlock, HasJob
  <2> QED
    BY <1>0, <1>1, <1>4, <1>6, <2>1, <2>2 DEF ReaperUnlock, JobsKept
<1>7. CASE ReaperPublish(w)
  <2>0. reaper[w].run \in Runs
    BY <1>7 DEF ReaperPublish, TypeOK
  <2>1. \A v \in Workers : v # w => reaper'[v] = reaper[v]
    BY <1>0, <1>7 DEF ReaperPublish
  <2>2. ToSet(queue') = ToSet(queue) \cup {reaper[w].run}
    BY <1>7, <2>0, QueueElements DEF ReaperPublish, TypeOK
  <2>3. ASSUME NEW q \in Runs, HasJob(q) PROVE HasJob(q)'
    BY <1>0, <2>1, <2>2, <2>3 DEF HasJob
  <2> QED
    BY <1>0, <1>1, <1>4, <1>7, <2>1, <2>3 DEF ReaperPublish, JobsKept
<1> QED
  BY <1>3, <1>4, <1>5, <1>6, <1>7 DEF Reap

\* A step that only the shutdown takes: the runs keep what they have.
LEMMA JobsIdle ==
  ASSUME JobsKept, UNCHANGED vars, alive' = alive
  PROVE  JobsKept'
BY JobsCalm DEF vars

\* A delivery of the worker comes before the shutdown and is marked.
LEMMA FollowedDeliver ==
  ASSUME TypeOK, OursOK, Followed, ~early', NEW s \in Slots, DeliverOurs(s)
  PROVE  Followed'
<1>1. Settled /\ current = 1 /\ ~tracker[1].down
  <2>1. Settled
    BY DEF DeliverOurs
  <2> QED
    BY <2>1 DEF DeliverOurs, Settled, ShuttingDown, Followed
<1>2. \A i \in Signals : stop[i].at = "none"
  BY <1>1 DEF Followed
<1>3. /\ slot'[s].w = Target /\ slot'[s].via = "open"
      /\ slot'[s].run = Head(queue)
      /\ \A h \in Slots : h # s => slot'[h] = slot[h]
  BY DEF DeliverOurs, Deliver, TypeOK
<1>4. tracker'[1].inFlight = tracker[1].inFlight \cup {Head(queue)}
        /\ tracker'[1].down = tracker[1].down
  <2>1. tracker' = [tracker EXCEPT ![1].inFlight = @ \cup {Head(queue)}]
    BY <1>1 DEF DeliverOurs, MarkRunning
  <2>2. 1 \in Objects
    BY BudgetType DEF Objects
  <2> QED
    BY <2>1, <2>2 DEF OursOK
<1>5. UNCHANGED <<made, current, redial, stop, chan>>
  BY DEF DeliverOurs, Deliver
<1>6. ~Over' /\ ~Leaving' /\ ~Leaving
  BY <1>2, <1>5 DEF Over, Leaving
<1>7. ASSUME NEW h \in Slots, Ours(h)'
      PROVE  slot'[h].via = "open" /\ slot'[h].run \in tracker'[1].inFlight
  BY <1>3, <1>4, <1>6, <1>7 DEF Ours, Followed
<1>8. ASSUME NEW w \in Workers \ {Target}
      PROVE  /\ chan'[w] = "open"
             /\ \A h \in Slots : slot'[h].w = w => slot'[h].via = "open"
  BY <1>3, <1>5, <1>8 DEF Followed
<1>9. chan'[Target] = "open"
  BY <1>5, <1>6 DEF Followed
<1> QED
  BY <1>1, <1>2, <1>4, <1>5, <1>6, <1>7, <1>8, <1>9 DEF Followed

\* One signal at most is on its way.
LEMMA OneSignal ==
  ASSUME Planned, NEW i \in Signals, stop[i].at # "none"
  PROVE  \A j \in Signals : j # i => stop[j].at = "none"
BY DEF Planned, Signals

LEMMA FollowedSignal ==
  ASSUME OursOK, Followed, Planned', OursOK', NEW i \in Signals, Signal(i)
  PROVE  Followed'
<1>1. current = 1 /\ UNCHANGED <<slot, chan, made, redial, current>>
  BY DEF Signal, Settled, Followed, vars
<1>2. stop'[i].at # "none" /\ stop'[i].obj = 1
        /\ \A j \in Signals : j # i => stop'[j] = stop[j]
  BY <1>1 DEF Signal, OursOK
<1>3. \A j \in Signals : stop[j].at = "none"
  <2>1. \A j \in Signals : j # i => stop'[j].at = "none"
    BY <1>2 DEF Planned, Signals
  <2> QED
    BY <1>2, <2>1 DEF Signal
<1>4. ~tracker[1].down
  BY <1>3 DEF Followed
<1>5. tracker'[1].inFlight = tracker[1].inFlight /\ tracker'[1].down
  <2>1. 1 \in Objects
    BY BudgetType DEF Objects
  <2> QED
    BY <1>1, <2>1 DEF Signal, OursOK
<1>6. stop'[i].at = "cancel"
  BY <1>1, <1>4 DEF Signal, ShuttingDown, OursOK
<1>7. ~Over' /\ ~Leaving' /\ ~Leaving
  BY <1>2, <1>3, <1>6 DEF Over, Leaving
<1>8. \A j \in Signals : stop'[j].at # "none" => stop'[j].obj = 1
  BY <1>2, <1>3
<1>9. \A s \in Slots : Ours(s)' <=> Ours(s)
  BY <1>1 DEF Ours
<1> QED
  BY <1>1, <1>2, <1>5, <1>7, <1>8, <1>9 DEF Followed

\* The wait ends with no handler of the worker undecided: none is left, or the
\* timer waits for what takes less than its 28 s.
LEMMA FollowedWait ==
  ASSUME OursOK, Followed, NEW i \in Signals, CancelReturns(i) \/ Timeout(i)
  PROVE  Followed'
<1>1. /\ stop[i].at \in {"cancel", "wait"} /\ stop[i].obj = 1
      /\ UNCHANGED <<slot, chan, made, redial, current, tracker>>
  BY DEF CancelReturns, Timeout, Followed, vars
<1>2. /\ \A j \in Signals : stop'[j].obj = stop[j].obj
      /\ \A j \in Signals : j # i => stop'[j].at = stop[j].at
      /\ stop'[i].at \in {"wait", "close"}
      /\ stop'[i].at = "close" /\ CancelReturns(i) => tracker[1].inFlight = {}
  BY <1>1 DEF CancelReturns, Timeout, OursOK, Stops
<1>3. stop'[i].at = "close" =>
        \A s \in Slots : Ours(s) => slot[s].pc \notin Undecided
  <2>1. CASE CancelReturns(i)
    BY <1>2, <2>1 DEF Followed
  <2>2. CASE Timeout(i)
    BY <1>1, <2>2 DEF Timeout, Followed, Undecided
  <2> QED
    BY <2>1, <2>2
<1>4. Leaving' <=> Leaving
  BY <1>1, <1>2 DEF Leaving
<1>5. Over' => Over \/ stop'[i].at = "close"
  BY <1>2 DEF Over
<1>6. \A s \in Slots : (Ours(s)' <=> Ours(s)) /\ slot'[s] = slot[s]
  BY <1>1 DEF Ours
<1>7. \A j \in Signals : stop'[j].at # "none" <=> stop[j].at # "none"
  BY <1>1, <1>2
<1>8. Over' => \A s \in Slots : Ours(s)' => slot'[s].pc \notin Undecided
  BY <1>3, <1>5, <1>6 DEF Followed
<1> QED
  BY <1>1, <1>2, <1>4, <1>6, <1>7, <1>8 DEF Followed

\* Closing the channel returns what is not settled to the queue.
LEMMA FollowedClose ==
  ASSUME TypeOK, OursOK, Followed, JobsKept, ExecutionInv, TypeOK', Planned,
         NEW i \in Signals, CloseReturns(i)
  PROVE  Followed' /\ JobsKept' /\ ExecutionInv'
<1>1. stop[i].at = "close" /\ stop[i].obj = 1 /\ made = 1
  BY DEF CloseReturns, Followed
<1>2. Over /\ ~Leaving /\ chan[Target] = "open"
  <2>1. \A j \in Signals : stop[j].at # "leave"
    BY <1>1, OneSignal
  <2> QED
    BY <1>1, <2>1 DEF Over, Leaving, Followed
<1>3. /\ Requeue(Unsettled(Target))
      /\ slot' = Detached(Target)
      /\ chan' = [chan EXCEPT ![Target] = "closed"]
  BY <1>1, <1>2 DEF CloseReturns, InUse
<1>4. ASSUME NEW h \in Slots
      PROVE  /\ slot'[h].pc = slot[h].pc
             /\ slot'[h].run = slot[h].run
             /\ slot'[h].w = slot[h].w
             /\ ~Ours(h) => slot'[h] = slot[h]
  <2>1. slot[h] \in Handlers
    BY DEF TypeOK
  <2>2. CASE Ours(h)
    <3>1. slot'[h] = [slot[h] EXCEPT !.via = "closed"]
      BY <1>3, <2>2 DEF Detached, Ours
    <3> QED
      BY <2>1, <2>2, <3>1, ViaField
  <2>3. CASE ~Ours(h)
    BY <1>3, <2>3 DEF Detached, Ours
  <2> QED
    BY <2>2, <2>3
<1>5. /\ stop'[i].at = "leave"
      /\ \A j \in Signals : /\ stop'[j].obj = stop[j].obj
                            /\ j # i => stop'[j] = stop[j]
  BY DEF CloseReturns, OursOK, Stops
<1>6. Leaving'
  BY <1>5 DEF Leaving
<1>7. \A s \in Slots : Ours(s)' <=> Ours(s)
  BY <1>4 DEF Ours
<1>8. chan'[Target] = "closed" /\ \A w \in Workers : w # Target => chan'[w] = chan[w]
  BY <1>3 DEF TypeOK
<1>9. Followed'
  <2>1. \A j \in Signals : stop'[j].at # "none" <=> stop[j].at # "none"
    BY <1>1, <1>5
  <2>2. UNCHANGED <<made, current, redial, tracker>>
    BY DEF CloseReturns
  <2>3. \A s \in Slots : Ours(s)' => slot'[s].pc \notin Undecided
    BY <1>2, <1>4, <1>7 DEF Followed
  <2>4. ASSUME NEW w \in Workers \ {Target}
        PROVE  /\ chan'[w] = "open"
               /\ \A h \in Slots : slot'[h].w = w => slot'[h].via = "open"
    BY <1>4, <1>8, <2>4 DEF Followed, Ours
  <2>5. \A s \in Slots : Ours(s)' => /\ current' = 1
                                     /\ slot'[s].run \in tracker'[1].inFlight
    BY <1>4, <1>7, <2>2 DEF Followed
  <2> QED
    BY <1>5, <1>6, <1>8, <2>1, <2>2, <2>3, <2>4, <2>5 DEF Followed
<1>10. ToSet(queue) \subseteq ToSet(queue')
  BY <1>3, UnsettledRuns, RequeueKeeps
<1>11. JobsKept'
  BY <1>4, <1>10, JobsCalm DEF CloseReturns
<1>12. ExecutionInv'
  BY <1>4, ExecutionCalm DEF CloseReturns, NoneStarts
<1> QED
  BY <1>9, <1>11, <1>12

\* The process ends: no handler of the worker holds a job, nor does its reaper.
LEMMA FollowedExit ==
  ASSUME TypeOK, OursOK, Followed, JobsKept, ExecutionInv, TypeOK',
         NEW i \in Signals, Exit(i)
  PROVE  Followed' /\ JobsKept' /\ ExecutionInv'
<1>1. Over /\ Leaving /\ chan[Target] = "closed"
  BY DEF Exit, Over, Leaving, Followed
<1>2. /\ Requeue(Unsettled(Target))
      /\ \A w \in Workers : chan'[w] = chan[w] /\ reaper'[w] = reaper[w]
      /\ \A h \in Slots : IF Ours(h) THEN slot'[h] = Free
                                     ELSE slot'[h] = slot[h]
  BY <1>1 DEF Exit, Die, Ours, TypeOK, JobsKept
<1>3. Free.w = None /\ Free.pc = "free"
  BY DEF Free
<1>4. \A s \in Slots : ~Ours(s)'
  BY <1>2, <1>3 DEF Ours
<1>5. UNCHANGED <<made, current, redial, tracker, stop>>
  BY DEF Exit
<1>6. Leaving'
  BY <1>1, <1>5 DEF Leaving
<1>7. ASSUME NEW w \in Workers \ {Target}
      PROVE  /\ chan'[w] = "open"
             /\ \A h \in Slots : slot'[h].w = w => slot'[h].via = "open"
  BY <1>2, <1>3, <1>7 DEF Followed
<1>8. Followed'
  BY <1>1, <1>2, <1>4, <1>5, <1>6, <1>7 DEF Followed
<1>9. ToSet(queue) \subseteq ToSet(queue')
  BY <1>2, UnsettledRuns, RequeueKeeps
<1>10. \A h \in Slots : slot[h].pc \in Undecided => slot'[h] = slot[h]
  BY <1>1, <1>2 DEF Followed
<1>11. JobsKept'
  BY <1>2, <1>9, <1>10, JobsCalm DEF Exit
<1>12. ExecutionInv'
  BY NoneStartsDie, ExecutionCalm DEF Exit
<1> QED
  BY <1>8, <1>11, <1>12

LEMMA KeepStep ==
  ASSUME TrackInv, KeepInv, [ShutdownNext]_allVars
  PROVE  KeepInv'
<1>0. /\ TypeOK /\ TypeOK' /\ OursOK /\ OursOK'
      /\ \A k \in FaultKinds : left[k] <= Budget[k]
  BY TrackStep DEF TrackInv, KeepInv
<1>1. \A k \in FaultKinds : left'[k] <= Budget[k]
  BY <1>0, LeftOrSpent, NotPlanned
<1>2. SUFFICES ASSUME Steady' PROVE ExecutionInv' /\ Followed' /\ JobsKept'
  BY <1>1 DEF KeepInv
<1>3. UNCHANGED left /\ \A kind \in FaultKinds : ~Spend(kind)
  BY <1>0, <1>2, LeftOrSpent, NotPlanned DEF Steady
<1>4. Steady /\ ExecutionInv /\ Followed /\ JobsKept
  BY <1>0, <1>2, <1>3, HistoryGrows DEF Steady, Planned, KeepInv
<1>5. Planned /\ Planned' /\ ~early' /\ ~cleared'
  BY <1>2, <1>4 DEF Steady, Missed
<1>6. [Next]_vars => ExecutionInv'
  BY <1>3, <1>4, ExecutionStep DEF FaultKinds
<1>7. CASE [Next]_vars /\ Followed' /\ JobsKept'
  BY <1>6, <1>7
<1>8. ASSUME UNCHANGED <<slot, chan, ours>> PROVE Followed'
  BY <1>4, <1>8, FollowedCalm DEF SlotsStay, Stays
<1>9. CASE Elsewhere
  <2>1. PICK r \in Runs : (Web(r) \/ LeaseExpires(r)) /\ UNCHANGED ours
    BY <1>9 DEF Elsewhere
  <2>2. UNCHANGED <<slot, chan>> /\ alive' = alive
    BY <2>1 DEF Web, PostRun, Publish, PublishFails, CancelRead, CancelWrite,
                LeaseExpires, ours
  <2>3. Next
    BY <2>1 DEF Next
  <2> QED
    BY <1>0, <1>3, <1>4, <1>7, <1>8, <2>1, <2>2, <2>3, WebKeeps
<1>10. ASSUME NEW s \in Slots, DeliverOurs(s)
       PROVE  ExecutionInv' /\ Followed' /\ JobsKept'
  <2>1. Next
    BY <1>10 DEF DeliverOurs, Next, Delivery
  <2> QED
    BY <1>0, <1>4, <1>5, <1>7, <1>10, <2>1, FollowedDeliver, DeliverKeeps
    DEF DeliverOurs
<1>11. ASSUME NEW w \in Workers, NEW s \in Slots, DeliverOther(w, s)
       PROVE  ExecutionInv' /\ Followed' /\ JobsKept'
  <2>1. Next
    BY <1>11 DEF DeliverOther, Next, Delivery
  <2>2. JobsKept'
    BY <1>0, <1>4, <1>11, DeliverKeeps DEF DeliverOther, ours
  <2>3. /\ slot'[s].w = w /\ slot'[s].via = "open" /\ w # Target
        /\ \A h \in Slots : h # s => slot'[h] = slot[h]
        /\ UNCHANGED <<chan, made, redial, current, tracker, stop>>
    BY <1>0, <1>11 DEF DeliverOther, Deliver, TypeOK, ours
  <2>4. \A h \in Slots : Ours(h)' => Ours(h) /\ slot'[h] = slot[h]
    BY <2>3 DEF Ours
  <2>5. (Over' <=> Over) /\ (Leaving' <=> Leaving)
    BY <2>3 DEF Over, Leaving
  <2>6. \A v \in Workers \ {Target} :
          \A h \in Slots : slot'[h].w = v => slot'[h].via = "open"
    BY <1>4, <2>3 DEF Followed
  <2>7. Followed'
    BY <1>4, <2>3, <2>4, <2>5, <2>6 DEF Followed
  <2> QED
    BY <1>7, <2>1, <2>2, <2>7
<1>12. ASSUME NEW s \in Slots, Handler(s) \/ Interrupted(s)
       PROVE  ExecutionInv' /\ Followed' /\ JobsKept'
  <2>1. Handle(s) \/ Upset(s) \/ Progress(s) \/ PollCancel(s)
    BY <1>12 DEF Handler, Interrupted, Goes, BusyPath, Completes, Throws, Handle,
                 Upset
  <2>2. Next
    BY <2>1 DEF Next
  <2>3. ~Throws(s) /\ SlotsStay /\ chan' = chan /\ (alive' = alive => JobsKept')
    BY <1>0, <1>3, <1>4, <2>1, HandlerKeeps
  <2>4. CASE Completes(s)
    BY <1>0, <1>4, <1>5, <1>7, <2>2, <2>3, <2>4, FollowedCompletes
    DEF Completes, ours
  <2>5. CASE UNCHANGED ours
    BY <1>4, <1>7, <2>2, <2>3, <2>5, FollowedCalm DEF ours
  <2> QED
    BY <1>12, <2>3, <2>4, <2>5 DEF Handler, Interrupted, Goes, BusyPath
<1>13. ASSUME NEW w \in Workers, Reaping(w)
       PROVE  ExecutionInv' /\ Followed' /\ JobsKept'
  <2>1. UNCHANGED <<slot, chan, ours>> /\ Next
    BY <1>13 DEF Reaping, Reap, ReaperThrows, ReaperReset, ReaperUnlock,
                 ReaperPublish, Next
  <2> QED
    BY <1>0, <1>3, <1>4, <1>7, <1>8, <1>13, <2>1, ReaperKeeps
<1>14. ASSUME NEW w \in Workers PROVE ~Consume(w)
  BY <1>4 DEF Consume, Reconnect, Followed
<1>15. ~Lost /\ ~Killed /\ ~Redial
  BY <1>3, <1>4 DEF Lost, ConnectionLost, Killed, Crash, FaultKinds, Redial,
                    Followed
<1>16. ASSUME UNCHANGED vars, Followed', alive' = alive
       PROVE  ExecutionInv' /\ Followed' /\ JobsKept'
  BY <1>4, <1>7, <1>16, JobsIdle
<1>17. CASE Track
  <2>1. /\ current = 0 /\ current' = 1
        /\ UNCHANGED <<slot, chan, tracker, made, redial, stop>>
    BY <1>0, <1>4, <1>17 DEF Track, Followed, vars, OursOK
  <2>2. /\ (Over' <=> Over) /\ (Leaving' <=> Leaving)
        /\ \A s \in Slots : Ours(s)' <=> Ours(s)
    BY <2>1 DEF Over, Leaving, Ours
  <2>3. Followed'
    BY <1>4, <2>1, <2>2 DEF Followed
  <2> QED
    BY <1>16, <1>17, <2>3 DEF Track
<1>18. ASSUME NEW i \in Signals, Signal(i)
       PROVE  ExecutionInv' /\ Followed' /\ JobsKept'
  BY <1>0, <1>4, <1>5, <1>16, <1>18, FollowedSignal DEF Signal
<1>19. ASSUME NEW i \in Signals, CancelReturns(i) \/ Timeout(i)
       PROVE  ExecutionInv' /\ Followed' /\ JobsKept'
  BY <1>0, <1>4, <1>16, <1>19, FollowedWait DEF CancelReturns, Timeout
<1>20. ASSUME NEW i \in Signals, CloseReturns(i) \/ Exit(i)
       PROVE  ExecutionInv' /\ Followed' /\ JobsKept'
  BY <1>0, <1>4, <1>5, <1>20, FollowedClose, FollowedExit
<1>21. CASE UNCHANGED allVars
  BY <1>8, <1>16, <1>21 DEF allVars, vars, ours
<1> QED
  BY <1>9, <1>10, <1>11, <1>12, <1>13, <1>14, <1>15, <1>17, <1>18, <1>19, <1>20,
     <1>21
  DEF ShutdownNext, Delivers, Stopping

\* A planned shutdown leaves every accepted run that is pending with a job that
\* will start it, also when the 28 s timer cuts runs off: what the process still
\* had is back in the queue, or left to a reaper that finds it (initiate, exit).
THEOREM ShutdownLosesNoJob == ShutdownSpec => []ShutdownKeepsJobs
<1>1. KeepInv => ShutdownKeepsJobs
  <2> SUFFICES ASSUME KeepInv, Steady, ExecutionInv, TypeOK, JobsKept
               PROVE  NoLostJob
    BY DEF KeepInv, ShutdownKeepsJobs, Steady, ExecutionInv
  <2>1. \A r \in ToSet(accepted) : r \in Runs /\ r \notin posting
    BY DEF TypeOK, ToSet, JobsKept
  <2> QED
    BY <2>1 DEF JobsKept, NoLostJob
<1> QED
  BY TrackInit, TrackStep, KeepInit, KeepStep, <1>1, PTL DEF ShutdownSpec

=============================================================================
