--------------------------- MODULE RunLoopProofs ---------------------------
(***************************************************************************)
(* What holds of a run's event log for any number of executions, turns and *)
(* upsets: the types, the uniqueness of seqs, the order of the turns, the  *)
(* announcement of the end, and that only a failure leaves a gap.  While   *)
(* no live run is reset: nothing follows the ending before a failure, a    *)
(* completed turn is skipped, and effects are repeated once per failure.   *)
(***************************************************************************)
EXTENDS RunLoop, TLAPS

\* TypeOK is not inductive as it stands: a turn in progress is below the limit,
\* what is finished is an ending, and the catch clause only fails the run.
Coherent(e) ==
  /\ \/ e.pc \in {"model", "tool"}
     \/ e.pc \in {"bump", "insert"} /\ e.out \in TurnTypes
     => e.turn < MaxTurns
  /\ e.pc = "finish" => e.out \in Endings
  /\ e.caught => /\ e.out = "run_failed"
                 /\ e.pc \in {"bump", "insert", "finish", "end", "dead"}

TypeInv == TypeOK /\ \A x \in Executions : Coherent(exec[x])

-----------------------------------------------------------------------------
(* The record of the execution that takes a step, and the others'.          *)

LEMMA Fields ==
  ASSUME TypeOK, NEW x \in Executions
  PROVE  /\ exec[x] \in ExecStates
         /\ exec[x].pc \in PCs /\ exec[x].out \in EventTypes
         /\ exec[x].turn \in Turns /\ exec[x].seq \in Nat
         /\ exec[x].seen \in SUBSET Events
         /\ exec[x].abort \in {"no", "timeout", "cancelled"}
         /\ exec[x].caught \in BOOLEAN
BY DEF TypeOK, ExecStates

LEMMA Others ==
  ASSUME TypeOK, NEW x \in Executions, NEW r, exec' = [exec EXCEPT ![x] = r]
  PROVE  exec'[x] = r /\ \A y \in Executions : y # x => exec'[y] = exec[y]
BY DEF TypeOK

LEMMA ExecKeepsType ==
  ASSUME TypeInv, NEW x \in Executions, NEW r \in ExecStates,
         exec' = [exec EXCEPT ![x] = r], Coherent(r)
  PROVE  /\ exec' \in [Executions -> ExecStates]
         /\ \A y \in Executions : Coherent(exec'[y])
<1>1. exec' \in [Executions -> ExecStates]
  BY DEF TypeInv, TypeOK
<1>2. \A y \in Executions : Coherent(exec'[y])
  BY Others DEF TypeInv
<1> QED BY <1>1, <1>2

\* What each step of an execution makes of its record.
Emitting(e, type) == [e EXCEPT !.pc = "bump", !.out = type]
Thrown(e, f) ==
  \/ f = [e EXCEPT !.pc = "end"]
  \/ e.caught /\ e.pc # "load" /\ f = [e EXCEPT !.pc = "finish"]
  \/ /\ e.pc # "load" /\ e.out # "run_started"
     /\ f = [e EXCEPT !.pc = "bump", !.out = "run_failed", !.caught = TRUE]

LEMMA EmitRecord ==
  ASSUME TypeOK, NEW x \in Executions, NEW type \in EventTypes, Emit(x, type)
  PROVE  exec' = [exec EXCEPT ![x] = Emitting(exec[x], type)]
BY DEF TypeOK, Emit, Emitting

LEMMA ThrowRecord ==
  ASSUME TypeOK, NEW x \in Executions, Throw(x)
  PROVE  \E r : exec' = [exec EXCEPT ![x] = r] /\ Thrown(exec[x], r)
<1> DEFINE e == exec[x]
           escapes == \/ e.pc = "load" \/ e.out = "run_started"
                      \/ e.caught /\ e.pc = "finish"
<1>1. CASE escapes
  <2>1. exec' = [exec EXCEPT ![x] = [e EXCEPT !.pc = "end"]]
    BY <1>1 DEF Throw
  <2> QED BY <2>1 DEF Thrown
<1>2. CASE ~escapes /\ e.caught
  <2>1. exec' = [exec EXCEPT ![x] = [e EXCEPT !.pc = "finish"]]
    BY <1>2 DEF Throw
  <2> QED BY <1>2, <2>1 DEF Thrown
<1>3. CASE ~escapes /\ ~e.caught
  <2>1. exec' = [exec EXCEPT ![x] = [e EXCEPT !.pc = "bump", !.out = "run_failed",
                                              !.caught = TRUE]]
    BY <1>3 DEF Throw
  <2> QED BY <1>3, <2>1 DEF Thrown
<1> QED BY <1>1, <1>2, <1>3

LEMMA AfterRecord ==
  ASSUME NEW e \in ExecStates, Coherent(e), e.pc = "insert"
  PROVE  /\ After(e) \in ExecStates
         /\ Coherent(After(e))
         /\ After(e).pc \notin {"new", "bump", "insert", "dead", "end"}
         /\ After(e).pc = "finish" => e.out \in Endings
         /\ After(e).out = e.out /\ After(e).seen = e.seen
         /\ After(e).caught = e.caught
         /\ \/ After(e).turn = e.turn
            \/ After(e).turn = e.turn + 1 /\ e.out = "tool_result"
<1>1. CASE e.out = "run_started"
  BY <1>1 DEF After, ExecStates, Coherent, PCs, TurnTypes
<1>2. CASE e.out = "model_turn"
  BY <1>2 DEF After, ExecStates, Coherent, PCs, TurnTypes
<1>3. CASE e.out = "tool_call"
  BY <1>3 DEF After, ExecStates, Coherent, PCs, TurnTypes
<1>4. CASE e.out = "tool_result"
  <2>1. e.turn + 1 \in Turns
    BY <1>4, LoopAssumption DEF Coherent, TurnTypes, Turns, ExecStates
  <2>2. After(e) = [e EXCEPT !.pc = "step", !.turn = @ + 1]
    BY <1>4 DEF After, Endings
  <2> QED
    BY <1>4, <2>1, <2>2 DEF ExecStates, Coherent, PCs, TurnTypes
<1>5. CASE e.out \in Endings
  BY <1>5 DEF After, ExecStates, Coherent, PCs, TurnTypes, Endings
<1> QED
  BY <1>1, <1>2, <1>3, <1>4, <1>5 DEF ExecStates, EventTypes

LEMMA EventRecord ==
  ASSUME TypeOK, NEW x \in Executions
  PROVE  /\ EventOf(x) \in Events
         /\ EventOf(x).seq = exec[x].seq
         /\ EventOf(x).type = exec[x].out
         /\ exec[x].out \in TurnTypes => EventOf(x).turn = exec[x].turn
<1>1. 0 \in Turns
  BY LoopAssumption DEF Turns
<1> QED
  BY <1>1, Fields DEF EventOf, Events

\* The steps of an execution and the record each leaves, in one place.
LEMMA RunRecord ==
  ASSUME TypeInv, NEW x \in Executions,
         Claim(x) \/ Run(x) \/ Throw(x) \/ Crash(x) \/ TimeOut(x) \/ PollCancel(x)
  PROVE  \E r \in ExecStates : Coherent(r) /\ exec' = [exec EXCEPT ![x] = r]
<1> USE DEF TypeInv
<1> DEFINE e == exec[x]
<1>0. e \in ExecStates /\ Coherent(e)
  BY Fields
<1>1. CASE Claim(x)
  <2>1. exec' = [exec EXCEPT ![x] = Emitting(e, "run_started")]
    BY <1>1, EmitRecord DEF Claim, EventTypes
  <2>2. Emitting(e, "run_started") \in ExecStates /\ Coherent(Emitting(e, "run_started"))
    BY <1>0, <1>1 DEF Claim, Emitting, ExecStates, PCs, EventTypes, Coherent, TurnTypes
  <2> QED BY <2>1, <2>2
<1>2. CASE Crash(x)
  <2>1. [e EXCEPT !.pc = "dead"] \in ExecStates /\ Coherent([e EXCEPT !.pc = "dead"])
    BY <1>0 DEF ExecStates, PCs, Coherent
  <2>2. exec' = [exec EXCEPT ![x] = [e EXCEPT !.pc = "dead"]]
    BY <1>2 DEF Crash
  <2> QED BY <2>1, <2>2
<1>3. ASSUME NEW why \in {"timeout", "cancelled"}, Abort(x, why)
      PROVE  \E r \in ExecStates : Coherent(r) /\ exec' = [exec EXCEPT ![x] = r]
  <2>1. [e EXCEPT !.abort = why] \in ExecStates /\ Coherent([e EXCEPT !.abort = why])
    BY <1>0, <1>3 DEF ExecStates, Coherent
  <2>2. exec' = [exec EXCEPT ![x] = [e EXCEPT !.abort = why]]
    BY <1>3 DEF Abort
  <2> QED BY <2>1, <2>2
<1>4. CASE TimeOut(x)
  BY <1>3, <1>4 DEF TimeOut
<1>5. CASE PollCancel(x)
  BY <1>3, <1>5 DEF PollCancel
<1>6. CASE Bump(x)
  <2>1. [e EXCEPT !.pc = "insert", !.seq = lastSeq + 1] \in ExecStates
    <3>1. lastSeq + 1 \in Nat
      BY DEF TypeOK
    <3> QED BY <1>0, <3>1 DEF ExecStates, PCs
  <2>2. Coherent([e EXCEPT !.pc = "insert", !.seq = lastSeq + 1])
    BY <1>0, <1>6 DEF Bump, Coherent, ExecStates
  <2>3. exec' = [exec EXCEPT ![x] = [e EXCEPT !.pc = "insert", !.seq = lastSeq + 1]]
    BY <1>6 DEF Bump
  <2> QED BY <2>1, <2>2, <2>3
<1>7. CASE Insert(x)
  BY <1>0, <1>7, AfterRecord DEF Insert
<1>8. CASE Load(x)
  <2>1. [e EXCEPT !.pc = "step", !.seen = Completed] \in ExecStates
    BY <1>0 DEF ExecStates, PCs, TypeOK, Completed
  <2>2. Coherent([e EXCEPT !.pc = "step", !.seen = Completed])
    BY <1>0, <1>8 DEF Load, Coherent, ExecStates
  <2>3. exec' = [exec EXCEPT ![x] = [e EXCEPT !.pc = "step", !.seen = Completed]]
    BY <1>8 DEF Load
  <2> QED BY <2>1, <2>2, <2>3
<1>9. CASE Skip(x)
  <2>1. PICK f : exec' = [exec EXCEPT ![x] = Skipped(e, f)]
    BY <1>9 DEF Skip
  <2>2. e.pc = "step" /\ e.turn + 1 \in Turns
    BY <1>0, <1>9, LoopAssumption DEF Skip, Turns, ExecStates
  <2>3. Skipped(e, f) \in ExecStates /\ Coherent(Skipped(e, f))
    BY <1>0, <2>2 DEF Skipped, ExecStates, PCs, EventTypes, Endings, Coherent
  <2> QED BY <2>1, <2>3
<1>10. CASE Step(x) \/ TurnsUsedUp(x) \/ Model(x) \/ Tool(x)
  <2>1. PICK type \in {"model_turn", "run_failed", "run_cancelled", "tool_call",
                       "tool_result", "run_done"} :
          /\ Emit(x, type)
          /\ type \in TurnTypes => e.turn < MaxTurns
          /\ ~e.caught
    BY <1>0, <1>10, Fields
    DEF Step, TurnsUsedUp, Model, Tool, Coherent, TurnTypes, Endings
  <2>2. type \in EventTypes
    BY <2>1 DEF EventTypes, Endings
  <2>3. exec' = [exec EXCEPT ![x] = Emitting(e, type)]
    BY <2>1, <2>2, EmitRecord
  <2>4. Emitting(e, type) \in ExecStates /\ Coherent(Emitting(e, type))
    BY <1>0, <2>1, <2>2 DEF Emitting, ExecStates, PCs, Coherent
  <2> QED BY <2>3, <2>4
<1>11. CASE Finish(x)
  <2>1. [e EXCEPT !.pc = "end"] \in ExecStates /\ Coherent([e EXCEPT !.pc = "end"])
    BY <1>0 DEF ExecStates, PCs, Coherent
  <2>2. exec' = [exec EXCEPT ![x] = [e EXCEPT !.pc = "end"]]
    BY <1>11 DEF Finish
  <2> QED BY <2>1, <2>2
<1>12. CASE Throw(x)
  <2>1. PICK r : exec' = [exec EXCEPT ![x] = r] /\ Thrown(e, r)
    BY <1>12, ThrowRecord
  <2>2. r \in ExecStates
    BY <1>0, <2>1 DEF Thrown, ExecStates, PCs, EventTypes, Endings
  <2>3. Coherent(r)
    BY <1>0, <2>1 DEF Thrown, ExecStates, Coherent, TurnTypes, Endings
  <2> QED BY <2>1, <2>2, <2>3
<1> QED
  BY <1>1, <1>2, <1>4, <1>5, <1>6, <1>7, <1>8, <1>9, <1>10, <1>11, <1>12 DEF Run

-----------------------------------------------------------------------------
(* Types. *)

LEMMA SpendType ==
  ASSUME left \in [UpsetKinds -> Nat], NEW k \in UpsetKinds, Spend(k)
  PROVE  left' \in [UpsetKinds -> Nat]
BY DEF Spend

LEMMA TypeInit == Init => TypeInv
<1>1. 0 \in Turns
  BY LoopAssumption DEF Turns
<1> QED
  BY <1>1, LoopAssumption
  DEF Init, TypeInv, TypeOK, Coherent, ExecStates, PCs, EventTypes, Events, Terminal

LEMMA TypeStep == TypeInv /\ [Next]_vars => TypeInv'
<1> SUFFICES ASSUME TypeInv, [Next]_vars PROVE TypeInv'
  OBVIOUS
<1>1. CASE UNCHANGED vars
  BY <1>1 DEF vars, TypeInv, TypeOK, Coherent
<1>2. CASE Reset
  <2>1. left' \in [UpsetKinds -> Nat]
    BY <1>2, SpendType DEF Reset, TypeInv, TypeOK, UpsetKinds
  <2> QED
    BY <1>2, <2>1 DEF Reset, TypeInv, TypeOK, Coherent
<1>3. CASE Cancel
  <2>1. left' \in [UpsetKinds -> Nat]
    BY <1>3, SpendType DEF Cancel, TypeInv, TypeOK, UpsetKinds
  <2> QED
    BY <1>3, <2>1 DEF Cancel, TypeInv, TypeOK, Coherent, Terminal
<1>4. ASSUME NEW x \in Executions, Claim(x) \/ Run(x) \/ Throw(x) \/ Crash(x)
                                   \/ TimeOut(x) \/ PollCancel(x)
      PROVE  TypeInv'
  <2>1. exec' \in [Executions -> ExecStates] /\ \A y \in Executions : Coherent(exec'[y])
    BY <1>4, RunRecord, ExecKeepsType
  <2>2. left' \in [UpsetKinds -> Nat]
    BY <1>4, SpendType
    DEF TypeInv, TypeOK, UpsetKinds, Claim, Run, Bump, Insert, Load, Skip, Step,
        TurnsUsedUp, Model, Tool, Finish, Throw, Crash, TimeOut, PollCancel
  <2>3. status' \in {"pending", "running"} \cup Terminal
    <3>1. CASE Finish(x)
      BY <1>4, <3>1 DEF Finish, Outcome, Endings, Terminal, TypeInv, Coherent
    <3>2. status' \in {status, "running"} \/ Finish(x)
      BY <1>4
      DEF Claim, Run, Bump, Insert, Load, Skip, Step, TurnsUsedUp, Model, Tool, Throw,
          Crash, TimeOut, PollCancel
    <3> QED BY <3>1, <3>2 DEF TypeInv, TypeOK
  <2>4. lastSeq' \in Nat
    BY <1>4
    DEF TypeInv, TypeOK, Claim, Run, Bump, Insert, Load, Skip, Step, TurnsUsedUp, Model,
        Tool, Finish, Throw, Crash, TimeOut, PollCancel
  <2>5. events' \in SUBSET Events
    BY <1>4, EventRecord
    DEF TypeInv, TypeOK, Claim, Run, Bump, Insert, Load, Skip, Step, TurnsUsedUp, Model,
        Tool, Finish, Throw, Crash, TimeOut, PollCancel
  <2>6. effects' \in SUBSET Turns /\ repeats' \in Nat
    BY <1>4, Fields
    DEF TypeInv, TypeOK, Claim, Run, Bump, Insert, Load, Skip, Step, TurnsUsedUp, Model,
        Tool, Finish, Throw, Crash, TimeOut, PollCancel
  <2> QED
    BY <2>1, <2>2, <2>3, <2>4, <2>5, <2>6 DEF TypeInv, TypeOK, Coherent
<1> QED
  BY <1>1, <1>2, <1>3, <1>4 DEF Next

\* The variables of the loop keep their types, whatever is upset.
THEOREM LoopTypes == Spec => []TypeOK
<1>1. Spec => []TypeInv
  BY TypeInit, TypeStep, PTL DEF Spec
<1>2. TypeInv => TypeOK
  BY DEF TypeInv
<1> QED
  BY <1>1, <1>2, PTL

-----------------------------------------------------------------------------
(* The steps that touch neither the log nor its counter: what they may make *)
(* of an execution's record e.                                              *)
Local(e, r) ==
  /\ r.pc = "insert" => /\ e.pc = "insert" /\ r.seq = e.seq
                        /\ r.out = e.out /\ r.turn = e.turn
  /\ r.seen = e.seen \/ r.seen = Completed
  /\ \/ r.turn = e.turn
     \/ \E f \in e.seen : /\ f.type # "run_done"
                          /\ f.turn = e.turn /\ r.turn = e.turn + 1
  /\ r.pc = "finish" /\ r.out = "run_done" =>
       \/ e.pc = "finish" /\ e.out = "run_done"
       \/ \E f \in e.seen : f.type = "run_done"

LocalStep(x) == /\ UNCHANGED <<events, lastSeq>>
                /\ \E r \in ExecStates : /\ exec' = [exec EXCEPT ![x] = r]
                                         /\ Local(exec[x], r)

\* What a claimed execution does.
Acts(x) == Run(x) \/ Throw(x) \/ Crash(x) \/ TimeOut(x) \/ PollCancel(x)

LEMMA LocalKind ==
  ASSUME TypeInv, NEW x \in Executions, Claim(x) \/ Acts(x), ~Bump(x), ~Insert(x)
  PROVE  LocalStep(x)
<1> DEFINE e == exec[x]
<1>0. e \in ExecStates /\ Coherent(e)
  BY Fields DEF TypeInv
<1>1. PICK r \in ExecStates : exec' = [exec EXCEPT ![x] = r]
  BY RunRecord DEF Acts
<1>2. UNCHANGED <<events, lastSeq>>
  BY DEF Claim, Acts, Run, Load, Skip, Step, TurnsUsedUp, Model, Tool, Finish, Throw, Crash,
              TimeOut, PollCancel
<1>3. exec'[x] = r
  BY <1>1, Others DEF TypeInv
<1>4. Local(e, r)
  <2>1. ASSUME NEW type \in EventTypes, Emit(x, type)
        PROVE  Local(e, r)
    <3>1. r = Emitting(e, type)
      BY <1>3, <2>1, EmitRecord, Others DEF TypeInv
    <3> QED BY <1>0, <3>1 DEF Local, Emitting, ExecStates
  <2>2. CASE Claim(x) \/ Step(x) \/ TurnsUsedUp(x) \/ Model(x) \/ Tool(x)
    <3>1. \E type \in EventTypes : Emit(x, type)
      BY <1>0, <2>2, Fields
      DEF TypeInv, Claim, Step, TurnsUsedUp, Model, Tool, EventTypes, Endings
    <3> QED BY <2>1, <3>1
  <2>3. CASE Crash(x) \/ Finish(x) \/ TimeOut(x) \/ PollCancel(x)
    <3>1. \/ r = [e EXCEPT !.pc = "dead"] \/ r = [e EXCEPT !.pc = "end"]
          \/ r = [e EXCEPT !.abort = "timeout"] \/ r = [e EXCEPT !.abort = "cancelled"]
      BY <1>3, <2>3 DEF Crash, Finish, TimeOut, PollCancel, Abort, TypeInv, TypeOK
    <3> QED BY <1>0, <3>1 DEF Local, ExecStates
  <2>4. CASE Load(x)
    <3>1. r = [e EXCEPT !.pc = "step", !.seen = Completed]
      BY <1>3, <2>4 DEF Load, TypeInv, TypeOK
    <3> QED BY <1>0, <3>1 DEF Local, ExecStates
  <2>5. CASE Skip(x)
    <3>1. PICK f \in AlreadyExecuted(x, e.turn) : exec' = [exec EXCEPT ![x] = Skipped(e, f)]
      BY <2>5 DEF Skip
    <3>2. r = Skipped(e, f)
      BY <1>3, <3>1, Others DEF TypeInv
    <3>3. f \in e.seen /\ f.turn = e.turn /\ e.pc = "step"
      BY <2>5, <3>1 DEF AlreadyExecuted, Skip
    <3> QED BY <1>0, <3>2, <3>3 DEF Local, Skipped, ExecStates
  <2>6. CASE Throw(x)
    <3>1. PICK s : exec' = [exec EXCEPT ![x] = s] /\ Thrown(e, s)
      BY <2>6, ThrowRecord DEF TypeInv
    <3>2. r = s
      BY <1>3, <3>1, Others DEF TypeInv
    <3> QED BY <1>0, <3>1, <3>2 DEF Local, Thrown, ExecStates, Coherent
  <2> QED BY <2>2, <2>3, <2>4, <2>5, <2>6 DEF Acts, Run
<1> QED BY <1>1, <1>2, <1>4 DEF LocalStep

\* Every step is a Bump, an Insert, a local step, or leaves all of it alone.
LEMMA StepKinds ==
  ASSUME TypeInv, [Next]_vars
  PROVE  \/ UNCHANGED <<exec, events, lastSeq>>
         \/ \E x \in Executions : Bump(x) \/ Insert(x) \/ LocalStep(x)
<1>1. CASE UNCHANGED vars \/ Reset \/ Cancel
  BY <1>1 DEF vars, Reset, Cancel
<1>2. CASE \E x \in Executions : Claim(x) \/ Acts(x)
  BY <1>2, LocalKind
<1> QED
  BY <1>1, <1>2 DEF Next, Acts

-----------------------------------------------------------------------------
(* Seqs. *)

\* The counter is an upper bound of all seqs, inserted or reserved.
SeqBound ==
  /\ \A e \in events : e.seq <= lastSeq
  /\ \A x \in Executions : exec[x].pc = "insert" => exec[x].seq <= lastSeq

\* SeqsUnique, pointwise.
SeqsApart ==
  /\ \A e, f \in events : e.seq = f.seq => e = f
  /\ \A e \in events, x \in Executions : exec[x].pc = "insert" => exec[x].seq # e.seq
  /\ \A x, y \in Executions :
       x # y /\ exec[x].pc = "insert" /\ exec[y].pc = "insert"
         => exec[x].seq # exec[y].seq

SeqInv == TypeInv /\ SeqBound /\ SeqsApart

LEMMA SeqStep == SeqInv /\ [Next]_vars => SeqInv'
<1> SUFFICES ASSUME SeqInv, [Next]_vars PROVE SeqInv'
  OBVIOUS
<1>0. TypeInv /\ TypeInv'
  BY TypeStep DEF SeqInv
<1>1. CASE UNCHANGED <<exec, events, lastSeq>>
  BY <1>0, <1>1 DEF SeqInv, SeqBound, SeqsApart
<1>2. ASSUME NEW x \in Executions, Bump(x) PROVE SeqInv'
  <2>1. exec' = [exec EXCEPT ![x] = [exec[x] EXCEPT !.pc = "insert", !.seq = lastSeq + 1]]
    BY <1>2 DEF Bump
  <2>2. /\ exec'[x] = [exec[x] EXCEPT !.pc = "insert", !.seq = lastSeq + 1]
        /\ \A y \in Executions : y # x => exec'[y] = exec[y]
    BY <1>0, <2>1, Others DEF TypeInv
  <2>3. exec'[x].seq = lastSeq + 1 /\ lastSeq' = lastSeq + 1 /\ events' = events
    BY <1>0, <1>2, <2>2, Fields DEF Bump, TypeInv, ExecStates
  <2>4. lastSeq \in Nat /\ \A e \in events : e.seq \in Nat
    BY <1>0 DEF TypeInv, TypeOK, Events
  <2>5. \A y \in Executions : exec[y].seq \in Nat
    BY <1>0, Fields DEF TypeInv
  <2>6. \A f \in events : f.seq <= lastSeq /\ f.seq < lastSeq + 1
    BY <2>4 DEF SeqInv, SeqBound
  <2>7. \A y \in Executions : y # x /\ exec'[y].pc = "insert" =>
          /\ exec[y].pc = "insert" /\ exec'[y].seq = exec[y].seq
          /\ exec'[y].seq <= lastSeq /\ exec'[y].seq < lastSeq + 1
          /\ exec'[y].seq \in Nat
    BY <2>2, <2>4, <2>5 DEF SeqInv, SeqBound
  <2>8. SeqBound'
    <3>1. \A f \in events : f.seq <= lastSeq + 1
      BY <2>4, <2>6
    <3>2. \A y \in Executions : exec'[y].pc = "insert" => exec'[y].seq <= lastSeq + 1
      BY <2>3, <2>4, <2>7
    <3> QED BY <2>3, <3>1, <3>2 DEF SeqBound
  <2>9. SeqsApart'
    <3>1. \A f, g \in events : f.seq = g.seq => f = g
      BY DEF SeqInv, SeqsApart
    <3>2. \A f \in events, y \in Executions :
            exec'[y].pc = "insert" => exec'[y].seq # f.seq
      BY <2>3, <2>4, <2>6, <2>7 DEF SeqInv, SeqsApart
    <3>3. \A y, z \in Executions :
            y # z /\ exec'[y].pc = "insert" /\ exec'[z].pc = "insert"
              => exec'[y].seq # exec'[z].seq
      BY <2>3, <2>4, <2>7 DEF SeqInv, SeqsApart
    <3> QED BY <2>3, <3>1, <3>2, <3>3 DEF SeqsApart
  <2> QED BY <1>0, <2>8, <2>9 DEF SeqInv
<1>3. ASSUME NEW x \in Executions, Insert(x) PROVE SeqInv'
  <2>1. /\ exec'[x] = After(exec[x])
        /\ \A y \in Executions : y # x => exec'[y] = exec[y]
    BY <1>0, <1>3, Others DEF Insert, TypeInv
  <2>2. exec'[x].pc # "insert"
    BY <1>0, <1>3, <2>1, Fields, AfterRecord DEF Insert, TypeInv
  <2>3. /\ events' = events \cup {EventOf(x)} /\ lastSeq' = lastSeq
        /\ exec[x].pc = "insert" /\ EventOf(x).seq = exec[x].seq
    BY <1>0, <1>3, EventRecord DEF Insert, TypeInv
  <2>4. \A y \in Executions : exec'[y].pc = "insert" =>
          y # x /\ exec[y].pc = "insert" /\ exec'[y].seq = exec[y].seq
    BY <2>1, <2>2
  <2>5. EventOf(x).seq <= lastSeq
    BY <2>3 DEF SeqInv, SeqBound
  <2>6. \A f \in events : f.seq # EventOf(x).seq
    BY <2>3 DEF SeqInv, SeqsApart
  <2>7. SeqBound'
    <3>1. \A f \in events' : f.seq <= lastSeq
      BY <2>3, <2>5 DEF SeqInv, SeqBound
    <3> QED BY <2>3, <2>4, <3>1 DEF SeqInv, SeqBound
  <2>8. SeqsApart'
    <3>1. \A f, g \in events' : f.seq = g.seq => f = g
      BY <2>3, <2>6 DEF SeqInv, SeqsApart
    <3>2. \A f \in events', y \in Executions :
            exec'[y].pc = "insert" => exec'[y].seq # f.seq
      BY <2>3, <2>4 DEF SeqInv, SeqsApart
    <3>3. \A y, z \in Executions :
            y # z /\ exec'[y].pc = "insert" /\ exec'[z].pc = "insert"
              => exec'[y].seq # exec'[z].seq
      BY <2>4 DEF SeqInv, SeqsApart
    <3> QED BY <3>1, <3>2, <3>3 DEF SeqsApart
  <2> QED BY <1>0, <2>7, <2>8 DEF SeqInv
<1>4. ASSUME NEW x \in Executions, LocalStep(x) PROVE SeqInv'
  <2>1. PICK r \in ExecStates : exec' = [exec EXCEPT ![x] = r] /\ Local(exec[x], r)
    BY <1>4 DEF LocalStep
  <2>2. exec'[x] = r /\ \A y \in Executions : y # x => exec'[y] = exec[y]
    BY <1>0, <2>1, Others DEF TypeInv
  <2>3. r.pc = "insert" => exec[x].pc = "insert" /\ r.seq = exec[x].seq
    BY <2>1 DEF Local
  <2>4. events' = events /\ lastSeq' = lastSeq
    BY <1>4 DEF LocalStep
  <2>5. SeqBound'
    BY <2>2, <2>3, <2>4 DEF SeqInv, SeqBound
  <2>6. SeqsApart'
    BY <2>2, <2>3, <2>4 DEF SeqInv, SeqsApart
  <2> QED BY <1>0, <2>5, <2>6 DEF SeqInv
<1> QED
  BY <1>0, <1>1, <1>2, <1>3, <1>4, StepKinds

LEMMA SeqInit == Init => SeqInv
<1> SUFFICES ASSUME Init PROVE SeqInv
  OBVIOUS
<1>1. events = {} /\ \A x \in Executions : exec[x].pc = "new"
  BY DEF Init
<1> QED
  BY <1>1, TypeInit DEF SeqInv, SeqBound, SeqsApart

\* Two events of a run never share a seq, even when a reset run is executed
\* twice at a time: the counter and the increment are one update (emitEvent).
THEOREM SeqsNeverClash == Spec => []SeqsUnique
<1>1. Spec => []SeqInv
  BY SeqInit, SeqStep, PTL DEF Spec
<1>2. SeqInv => SeqsUnique
  BY DEF SeqInv, SeqsApart, SeqsUnique, Reserved, Inserted
<1> QED
  BY <1>1, <1>2, PTL

-----------------------------------------------------------------------------
(* The end is announced. *)

SeenInLog == \A x \in Executions : exec[x].seen \subseteq Completed

Announced == \E e \in events : e.type = "run_done"

AnnouncedInv ==
  /\ TypeInv
  /\ SeenInLog
  /\ \A x \in Executions : exec[x].pc = "finish" /\ exec[x].out = "run_done" => Announced
  /\ EndIsAnnounced

\* The log only grows, so what a snapshot saw stays in it.
LEMMA SeenStep ==
  ASSUME TypeInv, SeenInLog, [Next]_vars
  PROVE  SeenInLog' /\ events \subseteq events'
<1>1. CASE UNCHANGED <<exec, events, lastSeq>>
  BY <1>1 DEF SeenInLog, Completed
<1>2. ASSUME NEW x \in Executions, Bump(x) PROVE SeenInLog' /\ events \subseteq events'
  <2>1. exec' = [exec EXCEPT ![x] = [exec[x] EXCEPT !.pc = "insert", !.seq = lastSeq + 1]]
    BY <1>2 DEF Bump
  <2>2. \A y \in Executions : exec'[y].seen = exec[y].seen
    BY <2>1, Others, Fields DEF TypeInv, ExecStates
  <2> QED BY <1>2, <2>2 DEF Bump, SeenInLog, Completed
<1>3. ASSUME NEW x \in Executions, Insert(x) PROVE SeenInLog' /\ events \subseteq events'
  <2>1. \A y \in Executions : exec'[y].seen = exec[y].seen
    BY <1>3, Others, Fields, AfterRecord DEF Insert, TypeInv
  <2> QED BY <1>3, <2>1 DEF Insert, SeenInLog, Completed
<1>4. ASSUME NEW x \in Executions, LocalStep(x) PROVE SeenInLog' /\ events \subseteq events'
  <2>1. PICK r \in ExecStates : exec' = [exec EXCEPT ![x] = r] /\ Local(exec[x], r)
    BY <1>4 DEF LocalStep
  <2>2. exec'[x] = r /\ \A y \in Executions : y # x => exec'[y] = exec[y]
    BY <2>1, Others DEF TypeInv
  <2>3. r.seen = exec[x].seen \/ r.seen = Completed
    BY <2>1 DEF Local
  <2>4. events' = events
    BY <1>4 DEF LocalStep
  <2> QED BY <2>2, <2>3, <2>4 DEF SeenInLog, Completed
<1> QED
  BY <1>1, <1>2, <1>3, <1>4, StepKinds

LEMMA AnnouncedStep == AnnouncedInv /\ [Next]_vars => AnnouncedInv'
<1> SUFFICES ASSUME AnnouncedInv, [Next]_vars PROVE AnnouncedInv'
  OBVIOUS
<1>0. TypeInv /\ TypeInv' /\ SeenInLog' /\ (Announced => Announced')
  BY TypeStep, SeenStep DEF AnnouncedInv, Announced
<1> DEFINE Ready(x) == exec[x].pc = "finish" /\ exec[x].out = "run_done"
<1>1. \A x \in Executions : Ready(x)' => Announced'
  <2>1. CASE UNCHANGED <<exec, events, lastSeq>>
    BY <1>0, <2>1 DEF AnnouncedInv
  <2>2. ASSUME NEW x \in Executions, Bump(x)
        PROVE  \A y \in Executions : Ready(y)' => Announced'
    <3>1. exec' = [exec EXCEPT ![x] = [exec[x] EXCEPT !.pc = "insert", !.seq = lastSeq + 1]]
      BY <2>2 DEF Bump
    <3>2. /\ exec'[x] = [exec[x] EXCEPT !.pc = "insert", !.seq = lastSeq + 1]
          /\ \A y \in Executions : y # x => exec'[y] = exec[y]
      BY <1>0, <3>1, Others DEF TypeInv
    <3>3. exec'[x].pc = "insert"
      BY <1>0, <3>2, Fields DEF TypeInv, ExecStates
    <3> QED BY <1>0, <3>2, <3>3 DEF AnnouncedInv
  <2>3. ASSUME NEW x \in Executions, Insert(x)
        PROVE  \A y \in Executions : Ready(y)' => Announced'
    <3>1. exec'[x] = After(exec[x]) /\ \A y \in Executions : y # x => exec'[y] = exec[y]
      BY <1>0, <2>3, Others DEF Insert, TypeInv
    <3>2. exec'[x].out = exec[x].out
      BY <1>0, <2>3, <3>1, Fields, AfterRecord DEF Insert, TypeInv
    <3>3. EventOf(x) \in events' /\ EventOf(x).type = exec[x].out
      BY <1>0, <2>3, EventRecord DEF Insert, TypeInv
    <3> QED BY <1>0, <3>1, <3>2, <3>3 DEF AnnouncedInv, Announced
  <2>4. ASSUME NEW x \in Executions, LocalStep(x)
        PROVE  \A y \in Executions : Ready(y)' => Announced'
    <3>1. PICK r \in ExecStates : exec' = [exec EXCEPT ![x] = r] /\ Local(exec[x], r)
      BY <2>4 DEF LocalStep
    <3>2. exec'[x] = r /\ \A y \in Executions : y # x => exec'[y] = exec[y]
      BY <1>0, <3>1, Others DEF TypeInv
    <3>3. r.pc = "finish" /\ r.out = "run_done" =>
            Ready(x) \/ \E f \in exec[x].seen : f.type = "run_done"
      BY <3>1 DEF Local
    <3>4. (\E f \in exec[x].seen : f.type = "run_done") => Announced
      BY DEF AnnouncedInv, SeenInLog, Completed, Announced
    <3>5. Ready(x)' => Announced'
      BY <1>0, <3>2, <3>3, <3>4 DEF AnnouncedInv
    <3>6. \A y \in Executions : y # x /\ Ready(y)' => Announced'
      BY <1>0, <3>2 DEF AnnouncedInv
    <3> QED BY <3>5, <3>6
  <2> QED
    BY <1>0, <2>1, <2>2, <2>3, <2>4, StepKinds
<1>2. EndIsAnnounced'
  <2>1. SUFFICES ASSUME status' = "done" PROVE Announced'
    BY DEF EndIsAnnounced, Announced
  <2>2. CASE status = "done"
    BY <1>0, <2>2 DEF AnnouncedInv, EndIsAnnounced, Announced
  <2>3. CASE status # "done"
    <3>1. PICK x \in Executions : Finish(x)
      BY <2>1, <2>3
      DEF Next, vars, Reset, Cancel, Claim, Run, Bump, Insert, Load, Skip, Step, TurnsUsedUp,
          Model, Tool, Throw, Crash, TimeOut, PollCancel
    <3>2. exec[x].out \in Endings
      BY <1>0, <3>1 DEF TypeInv, Coherent, Finish
    <3>3. exec[x].out = "run_done"
      BY <2>1, <3>1, <3>2 DEF Finish, Outcome, Endings
    <3> QED BY <1>0, <3>1, <3>3 DEF AnnouncedInv, Finish
  <2> QED BY <2>2, <2>3
<1> QED
  BY <1>0, <1>1, <1>2 DEF AnnouncedInv

\* A run is done only once run_done is in its log, whichever of its executions
\* wrote it (runLoop: the event is inserted before finishRun).
THEOREM DoneIsAnnounced == Spec => []EndIsAnnounced
<1>1. Init => AnnouncedInv
  <2> SUFFICES ASSUME Init PROVE AnnouncedInv
    OBVIOUS
  <2>1. \A x \in Executions : exec[x].pc = "new" /\ exec[x].seen = {}
    BY DEF Init
  <2> QED
    BY <2>1, TypeInit DEF Init, AnnouncedInv, SeenInLog, EndIsAnnounced
<1>2. Spec => []AnnouncedInv
  BY <1>1, AnnouncedStep, PTL DEF Spec
<1>3. AnnouncedInv => EndIsAnnounced
  BY DEF AnnouncedInv
<1> QED
  BY <1>2, <1>3, PTL

-----------------------------------------------------------------------------
(* The order of the turns. *)

\* Turn t has its result in the log, below seq n.
ResultBelow(t, n) ==
  \E f \in events : f.type = "tool_result" /\ f.turn = t /\ f.seq < n

\* The seq an execution will put its next event under is at least this.
NextSeq(x) == IF exec[x].pc = "insert" THEN exec[x].seq ELSE lastSeq + 1

\* An execution that is past turn 0 has the result of the turn before it, at a
\* smaller seq than its next event.
Resumed(x) == exec[x].turn > 0 => ResultBelow(exec[x].turn - 1, NextSeq(x))

OrderInv ==
  /\ SeqInv
  /\ SeenInLog
  /\ \A x \in Executions : Resumed(x)
  /\ TurnsInSequence

LEMMA BelowStays ==
  ASSUME TypeInv, events \subseteq events',
         NEW t, NEW m \in Int, NEW n \in Int, m <= n, ResultBelow(t, m)
  PROVE  \E f \in events' : f.type = "tool_result" /\ f.turn = t /\ f.seq < n
<1>1. PICK f \in events : f.type = "tool_result" /\ f.turn = t /\ f.seq < m
  BY DEF ResultBelow
<1>2. f.seq \in Nat
  BY DEF TypeInv, TypeOK, Events
<1>3. f.seq < n
  BY <1>1, <1>2
<1> QED
  BY <1>1, <1>3

\* Resumed outlives every step after which the execution is on the same turn.
LEMMA ResumedStays ==
  ASSUME TypeInv, SeqBound, TypeInv', events \subseteq events', lastSeq <= lastSeq',
         NEW y \in Executions, Resumed(y), exec'[y].turn = exec[y].turn,
         exec'[y].pc = "insert" =>
           \/ exec[y].pc = "insert" /\ exec'[y].seq = exec[y].seq
           \/ exec[y].pc # "insert" /\ exec'[y].seq = lastSeq + 1
  PROVE  Resumed(y)'
<1> SUFFICES ASSUME exec'[y].turn > 0 PROVE ResultBelow(exec[y].turn - 1, NextSeq(y))'
  BY DEF Resumed
<1>1. lastSeq \in Nat /\ lastSeq' \in Nat /\ exec[y].seq \in Nat
  BY Fields DEF TypeInv, TypeOK
<1>2. exec'[y].seq \in Nat
  BY DEF TypeInv, TypeOK, ExecStates
<1>3. NextSeq(y) \in Int /\ NextSeq(y)' \in Int
  BY <1>1, <1>2 DEF NextSeq
<1>4. NextSeq(y) <= NextSeq(y)'
  BY <1>1, <1>2 DEF NextSeq, SeqBound
<1>5. ResultBelow(exec[y].turn - 1, NextSeq(y))
  BY DEF Resumed
<1>6. \E f \in events' : /\ f.type = "tool_result" /\ f.turn = exec[y].turn - 1
                         /\ f.seq < NextSeq(y)'
  BY <1>3, <1>4, <1>5, BelowStays
<1> QED
  BY <1>6 DEF ResultBelow

\* It holds after an execution has moved on to the turn after a completed one.
LEMMA ResumedNext ==
  ASSUME TypeInv, TypeInv', SeqBound', NEW y \in Executions, exec'[y].pc # "insert",
         exec'[y].turn = exec[y].turn + 1,
         NEW f \in events', f.type = "tool_result", f.turn = exec[y].turn
  PROVE  Resumed(y)'
<1>1. exec[y].turn \in Int
  BY Fields, LoopAssumption DEF Turns, TypeInv
<1>2. exec'[y].turn - 1 = f.turn
  BY <1>1
<1>3. f.seq \in Nat /\ lastSeq' \in Nat
  BY DEF TypeInv, TypeOK, Events
<1>4. f.seq < lastSeq' + 1
  BY <1>3 DEF SeqBound
<1>5. ResultBelow(exec[y].turn - 1, NextSeq(y))'
  BY <1>2, <1>4 DEF ResultBelow, NextSeq
<1> QED
  BY <1>5 DEF Resumed

\* A step that keeps the log keeps the order of what is in it.
LEMMA OrderStays ==
  ASSUME TurnsInSequence, events' = events
  PROVE  TurnsInSequence'
BY DEF TurnsInSequence

LEMMA OrderStep == OrderInv /\ [Next]_vars => OrderInv'
<1> SUFFICES ASSUME OrderInv, [Next]_vars PROVE OrderInv'
  OBVIOUS
<1>0. /\ SeqInv /\ SeqInv' /\ TypeInv /\ TypeInv' /\ SeqBound /\ SeqBound'
      /\ SeenInLog /\ SeenInLog' /\ events \subseteq events'
      /\ lastSeq \in Nat /\ TurnsInSequence /\ \A y \in Executions : Resumed(y)
  BY SeqStep, SeenStep DEF OrderInv, SeqInv, TypeInv, TypeOK
<1>1. CASE UNCHANGED <<exec, events, lastSeq>>
  <2>1. \A y \in Executions : Resumed(y)'
    BY <1>0, <1>1 DEF Resumed, ResultBelow, NextSeq
  <2> QED BY <1>0, <1>1, <2>1, OrderStays DEF OrderInv
<1>2. ASSUME NEW x \in Executions, Bump(x) PROVE OrderInv'
  <2>1. exec' = [exec EXCEPT ![x] = [exec[x] EXCEPT !.pc = "insert", !.seq = lastSeq + 1]]
    BY <1>2 DEF Bump
  <2>2. /\ exec'[x] = [exec[x] EXCEPT !.pc = "insert", !.seq = lastSeq + 1]
        /\ \A y \in Executions : y # x => exec'[y] = exec[y]
    BY <1>0, <2>1, Others DEF TypeInv
  <2>3. exec'[x].seq = lastSeq + 1 /\ exec'[x].turn = exec[x].turn /\ exec[x].pc # "insert"
    <3>1. exec[x] \in ExecStates /\ exec[x].pc = "bump"
      BY <1>0, <1>2, Fields DEF Bump, TypeInv
    <3> QED BY <2>2, <3>1 DEF ExecStates
  <2>4. lastSeq <= lastSeq' /\ events' = events
    BY <1>0, <1>2 DEF Bump
  <2>5. \A y \in Executions : Resumed(y)'
    <3>1. Resumed(x)'
      BY <1>0, <2>3, <2>4, ResumedStays
    <3>2. ASSUME NEW y \in Executions, y # x PROVE Resumed(y)'
      BY <1>0, <2>2, <2>4, <3>2, ResumedStays
    <3> QED BY <3>1, <3>2
  <2> QED BY <1>0, <2>4, <2>5, OrderStays DEF OrderInv
<1>3. ASSUME NEW x \in Executions, Insert(x) PROVE OrderInv'
  <2> DEFINE e == EventOf(x)
  <2>1. /\ exec'[x] = After(exec[x])
        /\ \A y \in Executions : y # x => exec'[y] = exec[y]
    BY <1>0, <1>3, Others DEF Insert, TypeInv
  <2>2. /\ exec'[x].pc # "insert"
        /\ \/ exec'[x].turn = exec[x].turn
           \/ exec'[x].turn = exec[x].turn + 1 /\ exec[x].out = "tool_result"
    BY <1>0, <1>3, <2>1, Fields, AfterRecord DEF Insert, TypeInv
  <2>3. lastSeq' = lastSeq /\ lastSeq <= lastSeq' /\ events' = events \cup {e}
    BY <1>0, <1>3 DEF Insert
  <2>4. /\ e.seq = exec[x].seq /\ e.type = exec[x].out /\ exec[x].pc = "insert"
        /\ exec[x].out \in TurnTypes => e.turn = exec[x].turn
    BY <1>0, <1>3, EventRecord DEF Insert, TypeInv
  <2>5. Resumed(x)'
    <3>1. CASE exec'[x].turn = exec[x].turn
      BY <1>0, <2>2, <2>3, <3>1, ResumedStays
    <3>2. CASE exec'[x].turn = exec[x].turn + 1 /\ exec[x].out = "tool_result"
      <4>1. e \in events' /\ e.type = "tool_result" /\ e.turn = exec[x].turn
        BY <2>3, <2>4, <3>2 DEF TurnTypes
      <4> QED BY <1>0, <2>2, <3>2, <4>1, ResumedNext
    <3> QED BY <2>2, <3>1, <3>2
  <2>6. ASSUME NEW y \in Executions, y # x PROVE Resumed(y)'
    BY <1>0, <2>1, <2>3, <2>6, ResumedStays
  <2>7. TurnsInSequence'
    <3>1. ASSUME e.type = "tool_call", e.turn > 0
          PROVE  ResultBelow(e.turn - 1, e.seq)
      BY <1>0, <2>4, <3>1 DEF Resumed, NextSeq, TurnTypes
    <3>2. ASSUME NEW g \in events', g.type = "tool_call", g.turn > 0
          PROVE  ResultBelow(g.turn - 1, g.seq)
      BY <1>0, <2>3, <3>1, <3>2 DEF TurnsInSequence, ResultBelow
    <3> QED BY <1>0, <3>2 DEF TurnsInSequence, ResultBelow
  <2> QED BY <1>0, <2>5, <2>6, <2>7 DEF OrderInv
<1>4. ASSUME NEW x \in Executions, LocalStep(x) PROVE OrderInv'
  <2>1. PICK r \in ExecStates : exec' = [exec EXCEPT ![x] = r] /\ Local(exec[x], r)
    BY <1>4 DEF LocalStep
  <2>2. exec'[x] = r /\ \A y \in Executions : y # x => exec'[y] = exec[y]
    BY <1>0, <2>1, Others DEF TypeInv
  <2>3. events' = events /\ lastSeq' = lastSeq /\ lastSeq <= lastSeq'
    BY <1>0, <1>4 DEF LocalStep
  <2>4. r.pc = "insert" => /\ exec[x].pc = "insert" /\ r.seq = exec[x].seq
                           /\ r.turn = exec[x].turn
    BY <2>1 DEF Local
  <2>5. Resumed(x)'
    <3>1. CASE r.turn = exec[x].turn
      BY <1>0, <2>2, <2>3, <2>4, <3>1, ResumedStays
    <3>2. CASE r.turn # exec[x].turn
      <4>1. PICK f \in exec[x].seen : /\ f.type # "run_done" /\ f.turn = exec[x].turn
                                      /\ r.turn = exec[x].turn + 1
        BY <2>1, <3>2 DEF Local
      <4>2. f \in events' /\ f.type = "tool_result"
        BY <1>0, <2>3, <4>1 DEF SeenInLog, Completed
      <4>3. exec'[x].pc # "insert" /\ exec'[x].turn = exec[x].turn + 1
        BY <2>2, <2>4, <3>2, <4>1
      <4> QED BY <1>0, <4>1, <4>2, <4>3, ResumedNext
    <3> QED BY <3>1, <3>2
  <2>6. ASSUME NEW y \in Executions, y # x PROVE Resumed(y)'
    BY <1>0, <2>2, <2>3, <2>6, ResumedStays
  <2> QED BY <1>0, <2>3, <2>5, <2>6, OrderStays DEF OrderInv
<1> QED
  BY <1>0, <1>1, <1>2, <1>3, <1>4, StepKinds

\* A resumed run never begins a turn whose predecessor has no result in the log
\* (runLoop skips exactly the turns its snapshot holds).
THEOREM NoTurnIsLeftOut == Spec => []TurnsInSequence
<1>1. Init => OrderInv
  <2> SUFFICES ASSUME Init PROVE OrderInv
    OBVIOUS
  <2>1. /\ events = {}
        /\ \A x \in Executions : exec[x].seen = {} /\ exec[x].turn = 0
    BY DEF Init
  <2> QED
    BY <2>1, SeqInit DEF OrderInv, SeenInLog, Resumed, TurnsInSequence
<1>2. Spec => []OrderInv
  BY <1>1, OrderStep, PTL DEF Spec
<1>3. OrderInv => TurnsInSequence
  BY DEF OrderInv
<1> QED
  BY <1>2, <1>3, PTL

-----------------------------------------------------------------------------
(* Failures, and the log until there is one. *)

Fails(x) == Throw(x) \/ Crash(x)

\* Nothing is spent that was not granted.
Spent == \A k \in UpsetKinds : left[k] <= Budget[k]

LEMMA SpendOne ==
  ASSUME TypeInv, Spent, NEW k \in UpsetKinds, Spend(k)
  PROVE  /\ Spent'
         /\ left'[k] = left[k] - 1
         /\ \A j \in UpsetKinds : j # k => left'[j] = left[j]
<1>1. left \in [UpsetKinds -> Nat] /\ Budget \in [UpsetKinds -> Nat]
  BY LoopAssumption DEF TypeInv, TypeOK
<1>2. left'[k] = left[k] - 1 /\ \A j \in UpsetKinds : j # k => left'[j] = left[j]
  BY <1>1 DEF Spend
<1>3. Spent'
  BY <1>1, <1>2 DEF Spent
<1> QED BY <1>2, <1>3

LEMMA FailuresGrow ==
  ASSUME TypeInv, Spent, [Next]_vars
  PROVE  /\ Spent' /\ Failures \in Nat /\ Failures' \in Nat
         /\ Failures <= Failures'
         /\ \A x \in Executions : Fails(x) => Failures' = Failures + 1
<1> DEFINE c == left["crash"]
           e == left["error"]
<1>1. /\ c \in Nat /\ e \in Nat /\ Budget["crash"] \in Nat /\ Budget["error"] \in Nat
      /\ c <= Budget["crash"] /\ e <= Budget["error"]
  BY LoopAssumption DEF TypeInv, TypeOK, Spent, UpsetKinds
<1>2. /\ UNCHANGED left => Spent'
      /\ Spend("crash") => Spent' /\ c' = c - 1 /\ e' = e
      /\ Spend("error") => Spent' /\ c' = c /\ e' = e - 1
      /\ Spend("cancel") \/ Spend("timeout") \/ Spend("slow")
           => Spent' /\ c' = c /\ e' = e
  <2>1. UNCHANGED left => Spent'
    BY DEF Spent
  <2> QED BY <2>1, SpendOne DEF UpsetKinds
<1>3. \/ UNCHANGED left \/ Spend("crash") \/ Spend("error")
      \/ Spend("cancel") \/ Spend("timeout") \/ Spend("slow")
  BY DEF Next, vars, Reset, Cancel, Claim, Run, Bump, Insert, Load, Skip, Step, TurnsUsedUp,
         Model, Tool, Finish, Throw, Crash, TimeOut, PollCancel
<1>4. Spent' /\ c' \in {c, c - 1} /\ e' \in {e, e - 1} /\ (c' = c \/ e' = e)
  BY <1>2, <1>3
<1>5. c' \in Nat /\ e' \in Nat /\ c' <= Budget["crash"] /\ e' <= Budget["error"]
  <2>1. left' \in [UpsetKinds -> Nat]
    BY TypeStep DEF TypeInv, TypeOK
  <2> QED BY <2>1, <1>4 DEF Spent, UpsetKinds
<1>6. \A x \in Executions : Fails(x) => Spend("error") \/ Spend("crash")
  BY DEF Fails, Throw, Crash
<1>7. \A x \in Executions : Fails(x) => Failures' = Failures + 1
  BY <1>1, <1>2, <1>6 DEF Failures
<1> QED BY <1>1, <1>4, <1>5, <1>7 DEF Failures

\* What holds a seq goes on holding it, unless it fails.
LEMMA InsertStays ==
  ASSUME TypeInv, NEW x \in Executions, Claim(x) \/ Acts(x), ~Bump(x), ~Insert(x),
         ~Fails(x), exec[x].pc = "insert"
  PROVE  exec'[x].pc = "insert" /\ exec'[x].seq = exec[x].seq
<1>1. TimeOut(x) \/ PollCancel(x)
  BY DEF Claim, Acts, Run, Load, Skip, Step, TurnsUsedUp, Model, Tool, Finish, Fails
<1>2. PICK why \in {"timeout", "cancelled"} : exec' = [exec EXCEPT ![x].abort = why]
  BY <1>1 DEF TimeOut, PollCancel, Abort
<1>3. exec[x] \in ExecStates /\ exec'[x] = [exec[x] EXCEPT !.abort = why]
  BY <1>2, Fields DEF TypeInv, TypeOK
<1> QED BY <1>3 DEF ExecStates

\* The seqs up to the counter are in the log or reserved: what a seq is taken
\* from the counter for is inserted, unless something fails in between.
GapInv == SeqInv /\ Spent /\ GapFree

LEMMA GapStep == GapInv /\ [Next]_vars => GapInv'
<1> SUFFICES ASSUME GapInv, [Next]_vars PROVE GapInv'
  OBVIOUS
<1>0. TypeInv /\ SeqInv /\ SeqInv' /\ Spent'
  BY SeqStep, FailuresGrow DEF GapInv, SeqInv
<1> SUFFICES ASSUME Failures' = 0 PROVE 1 .. lastSeq' = Inserted' \cup Reserved'
  BY <1>0 DEF GapInv, GapFree
<1>1. /\ 1 .. lastSeq = Inserted \cup Reserved
      /\ \A x \in Executions : ~Fails(x)
  <2>1. Failures \in Nat /\ Failures <= 0 /\ \A x \in Executions : ~Fails(x)
    BY <1>0, FailuresGrow DEF GapInv
  <2> QED BY <2>1 DEF GapInv, GapFree
<1>2. lastSeq \in Nat
  BY <1>0 DEF TypeInv, TypeOK
<1>3. CASE UNCHANGED <<exec, events, lastSeq>>
  BY <1>1, <1>3 DEF Inserted, Reserved
<1>4. ASSUME NEW x \in Executions, Bump(x)
      PROVE  1 .. lastSeq' = Inserted' \cup Reserved'
  <2>1. exec' = [exec EXCEPT ![x] = [exec[x] EXCEPT !.pc = "insert", !.seq = lastSeq + 1]]
    BY <1>4 DEF Bump
  <2>2. /\ exec'[x] = [exec[x] EXCEPT !.pc = "insert", !.seq = lastSeq + 1]
        /\ \A y \in Executions : y # x => exec'[y] = exec[y]
    BY <1>0, <2>1, Others DEF TypeInv
  <2>3. /\ exec'[x].pc = "insert" /\ exec'[x].seq = lastSeq + 1 /\ exec[x].pc # "insert"
        /\ lastSeq' = lastSeq + 1 /\ events' = events
    BY <1>0, <1>4, <2>2, Fields DEF Bump, TypeInv, ExecStates
  <2>4. Reserved' = Reserved \cup {lastSeq + 1}
    <3>1. \A n \in Reserved : n \in Reserved'
      BY <2>2, <2>3 DEF Reserved
    <3>2. lastSeq + 1 \in Reserved'
      <4>1. x \in {y \in Executions : exec'[y].pc = "insert"}
        BY <2>3
      <4>2. exec'[x].seq \in Reserved'
        BY <4>1 DEF Reserved
      <4> QED BY <2>3, <4>2
    <3>3. \A n \in Reserved' : n = lastSeq + 1 \/ n \in Reserved
      <4> SUFFICES ASSUME NEW y \in Executions, exec'[y].pc = "insert"
                   PROVE  exec'[y].seq = lastSeq + 1 \/ exec'[y].seq \in Reserved
        BY DEF Reserved
      <4>1. CASE y = x
        BY <2>3, <4>1
      <4>2. CASE y # x
        BY <2>2, <4>2 DEF Reserved
      <4> QED BY <4>1, <4>2
    <3> QED BY <3>1, <3>2, <3>3
  <2>5. 1 .. lastSeq + 1 = (1 .. lastSeq) \cup {lastSeq + 1}
    BY <1>2
  <2> QED BY <1>1, <2>3, <2>4, <2>5 DEF Inserted
<1>5. ASSUME NEW x \in Executions, Insert(x)
      PROVE  1 .. lastSeq' = Inserted' \cup Reserved'
  <2>1. /\ exec'[x] = After(exec[x])
        /\ \A y \in Executions : y # x => exec'[y] = exec[y]
    BY <1>0, <1>5, Others DEF Insert, TypeInv
  <2>2. exec'[x].pc # "insert" /\ exec[x].pc = "insert"
    BY <1>0, <1>5, <2>1, Fields, AfterRecord DEF Insert, TypeInv
  <2>3. lastSeq' = lastSeq /\ Inserted' = Inserted \cup {exec[x].seq}
    BY <1>0, <1>5, EventRecord DEF Insert, TypeInv, Inserted
  <2>4. Reserved = Reserved' \cup {exec[x].seq}
    BY <2>1, <2>2 DEF Reserved
  <2> QED BY <1>1, <2>3, <2>4
<1>6. ASSUME NEW x \in Executions, Claim(x) \/ Acts(x), ~Bump(x), ~Insert(x)
      PROVE  1 .. lastSeq' = Inserted' \cup Reserved'
  <2>1. PICK r \in ExecStates : exec' = [exec EXCEPT ![x] = r] /\ Local(exec[x], r)
    BY <1>0, <1>6, LocalKind DEF LocalStep
  <2>2. exec'[x] = r /\ \A y \in Executions : y # x => exec'[y] = exec[y]
    BY <1>0, <2>1, Others DEF TypeInv
  <2>3. events' = events /\ lastSeq' = lastSeq
    BY <1>0, <1>6, LocalKind DEF LocalStep
  <2>4. exec'[x].pc = "insert" => exec[x].pc = "insert" /\ exec'[x].seq = exec[x].seq
    BY <2>1, <2>2 DEF Local
  <2>5. exec[x].pc = "insert" => exec'[x].pc = "insert" /\ exec'[x].seq = exec[x].seq
    BY <1>0, <1>1, <1>6, InsertStays
  <2>6. Reserved' = Reserved
    BY <2>2, <2>4, <2>5 DEF Reserved
  <2> QED BY <1>1, <2>3, <2>6 DEF Inserted
<1> QED
  BY <1>3, <1>4, <1>5, <1>6 DEF Next, Acts, vars, Reset, Cancel

\* Until something fails, every seq handed out is in the log or about to be, even
\* while two executions of a reset run emit side by side (emitEvent).
THEOREM NoGapBeforeFailure == Spec => []GapFree
<1>1. Init => GapInv
  <2> SUFFICES ASSUME Init PROVE GapInv
    OBVIOUS
  <2>1. /\ events = {} /\ lastSeq = 0 /\ \A x \in Executions : exec[x].pc = "new"
        /\ left = Budget
    BY DEF Init
  <2>2. Spent
    BY <2>1, LoopAssumption DEF Spent
  <2>3. Inserted = {} /\ Reserved = {} /\ 1 .. 0 = {}
    BY <2>1 DEF Inserted, Reserved
  <2> QED BY <2>1, <2>2, <2>3, SeqInit DEF GapInv, GapFree
<1>2. GapInv => GapFree
  BY DEF GapInv
<1> QED
  BY <1>1, <1>2, GapStep, PTL DEF Spec
-----------------------------------------------------------------------------
(* One execution at a time. *)

\* No run is reset while it is executed.
Undisturbed == Reset => \A x \in Executions : ~Alive(x)

\* The slow turns spent so far: a step that leaves none behind spends none.
LeaseInv == TypeInv /\ Spent

LEMMA PromptStep ==
  ASSUME LeaseInv, [Next]_vars
  PROVE  LeaseInv' /\ (Prompt' => Prompt /\ Undisturbed)
<1>0. TypeInv /\ Spent /\ TypeInv' /\ Spent'
  BY TypeStep, FailuresGrow DEF LeaseInv
<1> DEFINE n == left["slow"]
<1>1. n \in Nat /\ Budget["slow"] \in Nat /\ n <= Budget["slow"]
  BY <1>0, LoopAssumption DEF TypeInv, TypeOK, Spent, UpsetKinds
<1>2. /\ UNCHANGED left => n' = n
      /\ Spend("slow") => n' = n - 1
      /\ Spend("crash") \/ Spend("error") \/ Spend("cancel") \/ Spend("timeout")
           => n' = n
  BY <1>0, SpendOne DEF UpsetKinds
<1>3. \/ UNCHANGED left \/ Spend("crash") \/ Spend("error")
      \/ Spend("cancel") \/ Spend("timeout") \/ Spend("slow")
  BY DEF Next, vars, Reset, Cancel, Claim, Run, Bump, Insert, Load, Skip, Step, TurnsUsedUp,
         Model, Tool, Finish, Throw, Crash, TimeOut, PollCancel
<1>4. Prompt' => n' = n /\ n = Budget["slow"]
  BY <1>1, <1>2, <1>3 DEF Prompt
<1>5. Reset /\ n' = n => \A x \in Executions : ~Alive(x)
  BY <1>1, <1>2 DEF Reset
<1> QED BY <1>0, <1>4, <1>5 DEF Prompt, Undisturbed, LeaseInv

LEMMA LeaseInit == Init => LeaseInv
<1> SUFFICES ASSUME Init PROVE LeaseInv
  OBVIOUS
<1>1. left = Budget
  BY DEF Init
<1> QED BY <1>1, TypeInit, LoopAssumption DEF LeaseInv, Spent

\* A run that may be claimed is not executed, and the seq an execution holds is
\* the last one handed out.
Alone ==
  /\ \A x, y \in Executions : Alive(x) /\ Alive(y) => x = y
  /\ status = "pending" => \A x \in Executions : ~Alive(x)
  /\ \A x \in Executions : exec[x].pc = "insert" => exec[x].seq = lastSeq

AloneInv == SeqInv /\ Spent /\ Alone

LEMMA ActsAlive ==
  ASSUME NEW x \in Executions, Acts(x)
  PROVE  Alive(x)
BY DEF Acts, Alive, Run, Bump, Insert, Load, Skip, Step, TurnsUsedUp, Model, Tool, Finish,
       Throw, Crash, TimeOut, PollCancel, Abort

LEMMA EmitMoves ==
  ASSUME TypeInv, NEW x \in Executions, NEW type \in EventTypes, Emit(x, type)
  PROVE  /\ exec'[x] = Emitting(exec[x], type)
         /\ exec'[x].pc = "bump" /\ exec'[x].out = type
         /\ exec'[x].turn = exec[x].turn /\ exec'[x].seen = exec[x].seen
<1>1. exec'[x] = Emitting(exec[x], type) /\ exec[x] \in ExecStates
  BY EmitRecord, Others, Fields DEF TypeInv
<1> QED BY <1>1 DEF Emitting, ExecStates

\* The record of one execution changes.
LEMMA OneMoves ==
  ASSUME TypeInv, NEW x \in Executions, Claim(x) \/ Acts(x)
  PROVE  \A y \in Executions : y # x => exec'[y] = exec[y]
<1>1. PICK r : exec' = [exec EXCEPT ![x] = r]
  BY RunRecord DEF Acts
<1> QED BY <1>1, Others DEF TypeInv

LEMMA StatusMoves ==
  ASSUME TypeInv, NEW x \in Executions, Acts(x)
  PROVE  IF Finish(x) THEN status' \in Terminal ELSE status' = status
<1>1. CASE Finish(x)
  BY <1>1 DEF Finish, Outcome, TypeInv, Coherent, Endings, Terminal
<1>2. CASE ~Finish(x)
  BY <1>2 DEF Acts, Run, Bump, Insert, Load, Skip, Step, TurnsUsedUp, Model, Tool, Throw, Crash,
              TimeOut, PollCancel
<1> QED BY <1>1, <1>2

\* While an execution acts no other one is alive.
LEMMA Solo ==
  ASSUME AloneInv, NEW x \in Executions, Acts(x)
  PROVE  /\ Alive(x) /\ status # "pending" /\ status' # "pending"
         /\ \A y \in Executions : y # x => ~Alive(y) /\ exec'[y] = exec[y]
<1>1. Alive(x) /\ TypeInv
  BY ActsAlive DEF AloneInv, SeqInv
<1>2. status' # "pending"
  BY <1>1, StatusMoves DEF AloneInv, Alone, Terminal
<1> QED BY <1>1, <1>2, OneMoves DEF AloneInv, Alone

LEMMA AloneStep ==
  ASSUME Undisturbed, AloneInv, [Next]_vars
  PROVE  AloneInv'
<1>0. TypeInv /\ SeqInv' /\ Spent'
  BY SeqStep, FailuresGrow DEF AloneInv, SeqInv
<1>1. CASE UNCHANGED vars \/ Reset \/ Cancel
  <2>1. Alone'
    BY <1>1 DEF vars, Reset, Cancel, AloneInv, Alone, Alive, Undisturbed
  <2> QED BY <1>0, <2>1 DEF AloneInv
<1>2. ASSUME NEW x \in Executions, Claim(x) PROVE AloneInv'
  <2>1. /\ \A y \in Executions : ~Alive(y) /\ (y # x => exec'[y] = exec[y])
        /\ status' # "pending"
    BY <1>0, <1>2, OneMoves DEF Claim, AloneInv, Alone
  <2>2. exec'[x].pc # "insert"
    BY <1>0, <1>2, EmitMoves DEF Claim, EventTypes
  <2>3. Alone'
    BY <2>1, <2>2 DEF Alone, Alive
  <2> QED BY <1>0, <2>3 DEF AloneInv
<1>3. ASSUME NEW x \in Executions, Acts(x) PROVE AloneInv'
  <2>1. /\ status' # "pending"
        /\ \A y \in Executions : y # x => ~Alive(y) /\ exec'[y] = exec[y]
    BY <1>3, Solo
  <2>2. exec'[x].pc = "insert" => exec'[x].seq = lastSeq'
    <3>1. CASE Bump(x)
      BY <1>0, <3>1, Fields DEF Bump, TypeInv, TypeOK, ExecStates
    <3>2. CASE Insert(x)
      <4>1. exec'[x] = After(exec[x])
        BY <1>0, <3>2, Others DEF Insert, TypeInv
      <4> QED BY <1>0, <3>2, <4>1, Fields, AfterRecord DEF Insert, TypeInv
    <3>3. CASE ~Bump(x) /\ ~Insert(x)
      <4>1. PICK r \in ExecStates : exec' = [exec EXCEPT ![x] = r] /\ Local(exec[x], r)
        BY <1>0, <1>3, <3>3, LocalKind DEF LocalStep
      <4>2. exec'[x] = r
        BY <1>0, <4>1, Others DEF TypeInv
      <4>3. lastSeq' = lastSeq
        BY <1>0, <1>3, <3>3, LocalKind DEF LocalStep
      <4> QED BY <4>1, <4>2, <4>3 DEF Local, AloneInv, Alone
    <3> QED BY <3>1, <3>2, <3>3
  <2>3. \A y \in Executions : y # x => exec'[y].pc # "insert"
    BY <2>1 DEF Alive
  <2>4. \A y \in Executions : y # x => ~(Alive(y)')
    BY <2>1 DEF Alive
  <2>5. Alone'
    BY <2>1, <2>2, <2>3, <2>4 DEF Alone
  <2> QED BY <1>0, <2>5 DEF AloneInv
<1> QED
  BY <1>1, <1>2, <1>3 DEF Next, Acts

LEMMA AloneInit == Init => AloneInv
<1> SUFFICES ASSUME Init PROVE AloneInv
  OBVIOUS
<1>1. left = Budget /\ \A x \in Executions : exec[x].pc = "new"
  BY DEF Init
<1>2. Spent
  BY <1>1, LoopAssumption DEF Spent
<1> QED BY <1>1, <1>2, SeqInit DEF AloneInv, Alone, Alive

-----------------------------------------------------------------------------
(* One ending. *)

\* An execution that neither fails nor finishes stays alive, and past its ending
\* it has only the status to write.
LEMMA StaysAlive ==
  ASSUME TypeInv, NEW x \in Executions, Claim(x) \/ Acts(x), ~Fails(x), ~Finish(x)
  PROVE  Alive(x)' /\ (exec[x].pc = "finish" => exec'[x].pc = "finish")
<1> DEFINE e == exec[x]
<1>0. e \in ExecStates /\ Coherent(e)
  BY Fields DEF TypeInv
<1>1. CASE Claim(x) \/ Step(x) \/ TurnsUsedUp(x) \/ Model(x) \/ Tool(x)
  <2>1. \E type \in EventTypes : Emit(x, type)
    BY <1>0, <1>1, Fields
    DEF TypeInv, Claim, Step, TurnsUsedUp, Model, Tool, EventTypes, Endings
  <2>2. exec'[x].pc = "bump" /\ e.pc # "finish"
    BY <1>1, <2>1, EmitMoves DEF Claim, Step, TurnsUsedUp, Model, Tool
  <2> QED BY <2>2 DEF Alive
<1>2. CASE TimeOut(x) \/ PollCancel(x)
  <2>1. PICK why \in {"timeout", "cancelled"} : exec' = [exec EXCEPT ![x].abort = why]
    BY <1>2 DEF TimeOut, PollCancel, Abort
  <2>2. exec'[x].pc = e.pc
    BY <1>0, <2>1 DEF TypeInv, TypeOK, ExecStates
  <2> QED BY <1>2, <2>2, ActsAlive DEF Alive, Acts
<1>3. CASE Bump(x)
  BY <1>0, <1>3 DEF Bump, TypeInv, TypeOK, ExecStates, Alive
<1>4. CASE Insert(x)
  <2>1. exec'[x] = After(e)
    BY <1>4, Others DEF Insert, TypeInv
  <2> QED BY <1>0, <1>4, <2>1, AfterRecord DEF Insert, Alive
<1>5. CASE Load(x)
  BY <1>0, <1>5 DEF Load, TypeInv, TypeOK, ExecStates, Alive
<1>6. CASE Skip(x)
  <2>1. PICK f : exec' = [exec EXCEPT ![x] = Skipped(e, f)]
    BY <1>6 DEF Skip
  <2>2. exec'[x] = Skipped(e, f)
    BY <2>1, Others DEF TypeInv
  <2>3. exec'[x].pc \in {"step", "finish"}
    BY <1>0, <1>6, <2>2 DEF Skip, Skipped, ExecStates
  <2> QED BY <1>6, <2>3 DEF Skip, Alive
<1> QED
  BY <1>1, <1>2, <1>3, <1>4, <1>5, <1>6 DEF Acts, Run, Fails

\* OneEnding is not inductive: behind an ending the run must not be claimed again.
EndingsLast ==
  \A e \in events : e.type \in Endings =>
    /\ e.seq = lastSeq
    /\ status # "pending"
    /\ \A x \in Executions : Alive(x) => exec[x].pc = "finish"

\* Until something fails a running run is executed, so that none is reset.
Executed == status = "running" => \E x \in Executions : Alive(x)

EndingInv == AloneInv /\ (Failures = 0 => Executed /\ EndingsLast)

LEMMA EndingStep ==
  ASSUME Undisturbed, EndingInv, [Next]_vars
  PROVE  EndingInv'
<1>0. AloneInv /\ AloneInv' /\ TypeInv
  BY AloneStep DEF EndingInv, AloneInv, SeqInv
<1> SUFFICES ASSUME Failures' = 0 PROVE Executed' /\ EndingsLast'
  BY <1>0 DEF EndingInv
<1>1. Executed /\ EndingsLast /\ \A x \in Executions : ~Fails(x)
  <2>1. Failures \in Nat /\ Failures <= 0 /\ \A x \in Executions : ~Fails(x)
    BY <1>0, FailuresGrow DEF AloneInv
  <2> QED BY <2>1 DEF EndingInv
<1>2. CASE UNCHANGED vars \/ Cancel
  BY <1>1, <1>2 DEF vars, Cancel, Executed, EndingsLast, Alive
<1>3. CASE Reset
  BY <1>1, <1>3 DEF Reset, Executed, Undisturbed
<1>4. ASSUME NEW x \in Executions, Claim(x) PROVE Executed' /\ EndingsLast'
  <2>1. Alive(x)'
    BY <1>0, <1>1, <1>4, StaysAlive DEF Claim, Finish
  <2>2. \A e \in events' : e.type \notin Endings
    BY <1>1, <1>4 DEF Claim, EndingsLast
  <2> QED BY <2>1, <2>2 DEF Executed, EndingsLast
<1>5. ASSUME NEW x \in Executions, Acts(x) PROVE Executed' /\ EndingsLast'
  <2>1. /\ Alive(x) /\ status' # "pending"
        /\ \A y \in Executions : y # x => ~(Alive(y)')
    BY <1>0, <1>5, Solo DEF Alive
  <2>2. IF Finish(x) THEN status' \in Terminal ELSE status' = status /\ Alive(x)'
    BY <1>0, <1>1, <1>5, StatusMoves, StaysAlive
  <2>3. Executed'
    BY <2>2 DEF Executed, Terminal
  <2>4. CASE exec[x].pc # "finish" /\ ~Insert(x)
    <3>1. events' = events
      BY <1>5, <2>4
      DEF Acts, Run, Bump, Load, Skip, Step, TurnsUsedUp, Model, Tool, Finish, Throw, Crash,
          TimeOut, PollCancel
    <3>2. \A e \in events' : e.type \notin Endings
      BY <1>1, <2>1, <2>4, <3>1 DEF EndingsLast
    <3> QED BY <2>3, <3>2 DEF EndingsLast
  <2>5. CASE Insert(x)
    <3>1. /\ exec'[x] = After(exec[x]) /\ exec[x].pc = "insert" /\ lastSeq' = lastSeq
          /\ events' = events \cup {EventOf(x)}
      BY <1>0, <2>5, Others DEF Insert, TypeInv
    <3>2. \A e \in events : e.type \notin Endings
      BY <1>1, <2>1, <3>1 DEF EndingsLast
    <3>3. EventOf(x).seq = lastSeq' /\ EventOf(x).type = exec[x].out
      BY <1>0, <3>1, EventRecord DEF TypeInv, AloneInv, Alone
    <3>4. exec[x].out \in Endings => exec'[x].pc = "finish"
      BY <1>0, <3>1, Fields DEF TypeInv, After, Endings, ExecStates
    <3> QED BY <2>1, <2>3, <3>1, <3>2, <3>3, <3>4 DEF EndingsLast
  <2>6. CASE exec[x].pc = "finish"
    <3>1. Finish(x) \/ TimeOut(x) \/ PollCancel(x)
      BY <1>1, <1>5, <2>6
      DEF Acts, Run, Bump, Insert, Load, Skip, Step, TurnsUsedUp, Model, Tool, Fails
    <3>2. events' = events /\ lastSeq' = lastSeq
      BY <3>1 DEF Finish, TimeOut, PollCancel
    <3>3. Alive(x)' => exec'[x].pc = "finish"
      <4>1. CASE Finish(x)
        BY <1>0, <4>1, Fields DEF Finish, TypeInv, TypeOK, ExecStates, Alive
      <4>2. CASE ~Finish(x)
        BY <1>0, <1>1, <1>5, <2>6, <4>2, StaysAlive
      <4> QED BY <4>1, <4>2
    <3> QED BY <1>1, <2>1, <2>3, <3>2, <3>3 DEF EndingsLast
  <2> QED BY <2>4, <2>5, <2>6
<1> QED
  BY <1>2, <1>3, <1>4, <1>5 DEF Next, Acts

\* Until a live run is reset, a run without failures has one ending, the last
\* event of its log, and no execution works on behind it (runLoop, finishRun).
THEOREM NothingAfterTheEnding == Spec => []OneEnding
<1> DEFINE Inv == LeaseInv /\ (Prompt => EndingInv)
<1>1. Init => Inv
  BY LeaseInit, AloneInit DEF Init, EndingInv, Executed, EndingsLast
<1>2. Inv /\ [Next]_vars => Inv'
  BY PromptStep, EndingStep
<1>3. Inv => OneEnding
  BY DEF EndingInv, EndingsLast, OneEnding
<1> QED
  BY <1>1, <1>2, <1>3, PTL DEF Spec
-----------------------------------------------------------------------------
(* What resuming repeats. *)

Logged(t) == \E e \in events : e.type = "tool_result" /\ e.turn = t

\* The execution is in the turn.
Working(e) == \/ e.pc \in {"model", "tool"}
              \/ e.pc \in {"bump", "insert"} /\ e.out \in TurnTypes

\* It has taken its snapshot.
Loaded(e) == \/ e.pc \in {"step", "model", "tool", "finish"}
             \/ e.pc \in {"bump", "insert"} /\ e.out # "run_started"

\* It is about to log the result of its turn.
Holding(e) == e.pc \in {"bump", "insert"} /\ e.out = "tool_result"

\* It is about to announce that the run is done.
Announcing(e) == e.pc \in {"bump", "insert"} /\ e.out = "run_done"

\* A turn whose tool has taken effect to no avail.
Wasted(t) == /\ t \in effects /\ ~Logged(t)
             /\ ~\E x \in Executions : Holding(exec[x]) /\ exec[x].turn = t

\* A turn has one result; run_done is filed under turn 0, behind that turn's.
ResultsApart ==
  /\ \A e, f \in events : /\ e.type = "tool_result" /\ f.type = "tool_result"
                          /\ e.turn = f.turn
                          => e = f
  /\ \A e \in events : e.type = "run_done" =>
       e.turn = 0 /\ \E f \in events : /\ f.type = "tool_result" /\ f.turn = 0
                                       /\ f.seq < e.seq

\* The turns below an execution's are logged, its own is not while it is in it,
\* and what its snapshot lacks is below.
Progressing(x) ==
  /\ \A t \in Turns : t < exec[x].turn => Logged(t)
  /\ Working(exec[x]) => ~Logged(exec[x].turn)
  /\ Loaded(exec[x]) => \A e \in events : e.type = "tool_result" =>
                          e \in exec[x].seen \/ e.turn < exec[x].turn
  /\ Announcing(exec[x]) => exec[x].turn > 0

LogInv == /\ AloneInv /\ SeenInLog /\ ResultsApart
          /\ \A x \in Executions : Progressing(x)

\* At most one turn is wasted at a time, and a failure wasted it.
RepeatInv ==
  /\ LogInv
  /\ \A t \in effects : \A u \in Turns : u < t => Logged(u)
  /\ repeats <= Failures
  /\ (\E t \in Turns : Wasted(t)) => repeats + 1 <= Failures

\* How a step that inserts nothing moves an execution through its turns.
Advances(x, r) ==
  LET e == exec[x] IN
  /\ Working(r) => /\ r.turn = e.turn
                   /\ \/ Working(e)
                      \/ e.pc = "step" /\ AlreadyExecuted(x, e.turn) = {}
  /\ Loaded(r) => \/ r.seen = Completed
                  \/ Loaded(e) /\ r.seen = e.seen
  /\ Announcing(r) => r.turn = e.turn /\ (Announcing(e) \/ e.turn > 0)
  /\ Holding(r) /\ ~Tool(x) => Holding(e) /\ r.turn = e.turn
  /\ Holding(e) /\ ~Fails(x) => Holding(r) /\ r.turn = e.turn

LEMMA AdvanceKind ==
  ASSUME TypeInv, NEW x \in Executions, Claim(x) \/ Acts(x), ~Insert(x)
  PROVE  Advances(x, exec'[x])
<1> DEFINE e == exec[x]
           r == exec'[x]
<1> USE DEF Working, Loaded, Holding, Announcing, TurnTypes, Endings
<1>0. e \in ExecStates /\ Coherent(e)
  BY Fields DEF TypeInv
<1>1. ASSUME NEW type \in EventTypes, Emit(x, type),
             Claim(x) \/ Step(x) \/ TurnsUsedUp(x) \/ Model(x) \/ Tool(x)
      PROVE  Advances(x, r)
  <2>1. r.pc = "bump" /\ r.out = type /\ r.turn = e.turn /\ r.seen = e.seen
    BY <1>1, EmitMoves
  <2>2. CASE Claim(x)
    <3>1. type = "run_started" /\ e.pc = "new"
      BY <1>0, <2>1, <2>2, EmitMoves DEF Claim, EventTypes
    <3> QED BY <2>1, <3>1 DEF Advances
  <2>3. CASE Step(x)
    <3>1. /\ type \in {"model_turn", "run_failed", "run_cancelled"}
          /\ e.pc = "step" /\ AlreadyExecuted(x, e.turn) = {}
      <4>1. PICK k \in {"model_turn", "run_failed", "run_cancelled"} : Emit(x, k)
        BY <1>0, <2>3, Fields DEF Step, TypeInv
      <4>2. r.out = k
        BY <4>1, EmitMoves DEF EventTypes
      <4> QED BY <2>1, <2>3, <4>1, <4>2 DEF Step
    <3> QED BY <2>1, <3>1 DEF Advances
  <2>4. CASE TurnsUsedUp(x)
    <3>1. type = "run_done" /\ e.pc = "step" /\ e.turn > 0
      BY <1>0, <2>1, <2>4, EmitMoves, LoopAssumption DEF TurnsUsedUp, EventTypes, ExecStates, Turns
    <3> QED BY <2>1, <3>1 DEF Advances
  <2>5. CASE Model(x)
    <3>1. e.pc = "model" /\ (type = "tool_call" \/ (type = "run_done" /\ e.turn > 0))
      BY <2>1, <2>5, EmitMoves DEF Model, EventTypes
    <3> QED BY <2>1, <3>1 DEF Advances
  <2>6. CASE Tool(x)
    <3>1. e.pc = "tool" /\ type = "tool_result"
      BY <2>1, <2>6, EmitMoves DEF Tool, EventTypes
    <3> QED BY <2>1, <2>6, <3>1 DEF Advances
  <2> QED BY <1>1, <2>2, <2>3, <2>4, <2>5, <2>6
<1>2. CASE Claim(x) \/ Step(x) \/ TurnsUsedUp(x) \/ Model(x) \/ Tool(x)
  <2>1. \E type \in EventTypes : Emit(x, type)
    BY <1>0, <1>2, Fields
    DEF TypeInv, Claim, Step, TurnsUsedUp, Model, Tool, EventTypes
  <2> QED BY <1>1, <1>2, <2>1
<1>3. CASE TimeOut(x) \/ PollCancel(x)
  <2>1. PICK why \in {"timeout", "cancelled"} : exec' = [exec EXCEPT ![x].abort = why]
    BY <1>3 DEF TimeOut, PollCancel, Abort
  <2>2. r.pc = e.pc /\ r.out = e.out /\ r.turn = e.turn /\ r.seen = e.seen
    BY <1>0, <2>1 DEF TypeInv, TypeOK, ExecStates
  <2> QED BY <2>2 DEF Advances
<1>4. CASE Bump(x)
  <2>1. /\ r.pc = "insert" /\ e.pc = "bump"
        /\ r.out = e.out /\ r.turn = e.turn /\ r.seen = e.seen
    BY <1>0, <1>4 DEF Bump, TypeInv, TypeOK, ExecStates
  <2> QED BY <2>1 DEF Advances
<1>5. CASE Load(x)
  <2>1. e.pc = "load" /\ r.pc = "step" /\ r.seen = Completed
    BY <1>0, <1>5 DEF Load, TypeInv, TypeOK, ExecStates
  <2> QED BY <2>1 DEF Advances
<1>6. CASE Skip(x)
  <2>1. PICK f : exec' = [exec EXCEPT ![x] = Skipped(e, f)]
    BY <1>6 DEF Skip
  <2>2. r = Skipped(e, f)
    BY <2>1, Others DEF TypeInv
  <2>3. e.pc = "step" /\ r.pc \in {"step", "finish"} /\ r.seen = e.seen
    BY <1>0, <1>6, <2>2 DEF Skip, Skipped, ExecStates
  <2> QED BY <2>3 DEF Advances
<1>7. CASE Finish(x)
  <2>1. e.pc = "finish" /\ r.pc = "end"
    BY <1>0, <1>7 DEF Finish, TypeInv, TypeOK, ExecStates
  <2> QED BY <2>1 DEF Advances
<1>8. CASE Crash(x)
  <2>1. r.pc = "dead"
    BY <1>0, <1>8 DEF Crash, TypeInv, TypeOK, ExecStates
  <2> QED BY <1>8, <2>1 DEF Advances, Fails
<1>9. CASE Throw(x)
  <2>1. /\ e.pc \in {"bump", "insert", "load", "tool", "finish"}
        /\ \E s : exec' = [exec EXCEPT ![x] = s] /\ Thrown(e, s)
    BY <1>9, ThrowRecord DEF TypeInv, Throw
  <2>2. Thrown(e, r)
    BY <2>1, Others DEF TypeInv
  <2>3. CASE r = [e EXCEPT !.pc = "end"]
    <3>1. r.pc = "end"
      BY <1>0, <2>3 DEF ExecStates
    <3> QED BY <1>9, <3>1 DEF Advances, Fails
  <2>4. CASE e.caught /\ e.pc # "load" /\ r = [e EXCEPT !.pc = "finish"]
    <3>1. r.pc = "finish" /\ r.seen = e.seen
      BY <1>0, <2>4 DEF ExecStates
    <3>2. e.out = "run_failed" /\ e.pc \in {"bump", "insert", "finish"}
      BY <1>0, <2>1, <2>4 DEF Coherent
    <3> QED BY <1>9, <3>1, <3>2 DEF Advances, Fails
  <2>5. CASE /\ e.pc # "load" /\ e.out # "run_started"
             /\ r = [e EXCEPT !.pc = "bump", !.out = "run_failed", !.caught = TRUE]
    <3>1. r.pc = "bump" /\ r.out = "run_failed" /\ r.seen = e.seen
      BY <1>0, <2>5 DEF ExecStates
    <3> QED BY <1>9, <2>1, <2>5, <3>1 DEF Advances, Fails
  <2> QED BY <2>2, <2>3, <2>4, <2>5 DEF Thrown
<1> QED
  BY <1>2, <1>3, <1>4, <1>5, <1>6, <1>7, <1>8, <1>9 DEF Acts, Run

LEMMA LoggedStays ==
  ASSUME TypeInv, SeenInLog, [Next]_vars, NEW t, Logged(t)
  PROVE  Logged(t)'
BY SeenStep DEF Logged

\* A step that inserts nothing leaves the turn behind only if its result is there.
LEMMA TurnMoves ==
  ASSUME TypeInv, SeenInLog, NEW x \in Executions, Claim(x) \/ Acts(x), ~Insert(x)
  PROVE  /\ events' = events
         /\ \/ exec'[x].turn = exec[x].turn
            \/ exec'[x].turn = exec[x].turn + 1 /\ Logged(exec[x].turn)
<1>1. CASE Bump(x)
  BY <1>1, Fields DEF Bump, TypeInv, TypeOK, ExecStates
<1>2. CASE ~Bump(x)
  <2>1. PICK r \in ExecStates : exec' = [exec EXCEPT ![x] = r] /\ Local(exec[x], r)
    BY <1>2, LocalKind DEF LocalStep
  <2>2. exec'[x] = r
    BY <2>1, Others DEF TypeInv
  <2>3. events' = events
    BY <1>2, LocalKind DEF LocalStep
  <2>4. ASSUME NEW f \in exec[x].seen, f.type # "run_done", f.turn = exec[x].turn
        PROVE  Logged(exec[x].turn)
    BY <2>4 DEF SeenInLog, Completed, Logged
  <2> QED BY <2>1, <2>2, <2>3, <2>4 DEF Local
<1> QED BY <1>1, <1>2

\* isAlreadyExecuted finds a turn whose result is in the snapshot: run_done, which
\* it files under turn 0, comes behind that turn's result.
LEMMA FoundIfSeen ==
  ASSUME TypeInv, SeenInLog, ResultsApart, NEW x \in Executions, NEW t,
         NEW f \in exec[x].seen, f.type = "tool_result", f.turn = t
  PROVE  f \in AlreadyExecuted(x, t)
<1>1. SUFFICES ASSUME NEW g \in exec[x].seen, g.turn = t PROVE f.seq <= g.seq
  BY DEF AlreadyExecuted
<1>2. f \in events /\ g \in events /\ g.type \in {"tool_result", "run_done"}
  BY DEF SeenInLog, Completed
<1>3. f.seq \in Nat /\ g.seq \in Nat
  BY <1>2 DEF TypeInv, TypeOK, Events
<1>4. CASE g.type = "tool_result"
  BY <1>1, <1>2, <1>3, <1>4 DEF ResultsApart
<1>5. CASE g.type = "run_done"
  <2>1. PICK h \in events : /\ h.type = "tool_result" /\ h.turn = 0 /\ h.seq < g.seq
                            /\ g.turn = 0
    BY <1>2, <1>5 DEF ResultsApart
  <2>2. h = f
    BY <1>1, <1>2, <2>1 DEF ResultsApart
  <2> QED BY <1>3, <2>1, <2>2
<1> QED BY <1>2, <1>4, <1>5

\* An execution at rest or at an end has nothing to keep but the turns below.
LEMMA IdleProgresses ==
  ASSUME TypeInv, SeenInLog, [Next]_vars, NEW y \in Executions, Progressing(y),
         exec'[y] = exec[y], ~Alive(y)
  PROVE  Progressing(y)'
<1>1. ~Working(exec[y]) /\ ~Loaded(exec[y]) /\ ~Announcing(exec[y])
  BY DEF Alive, Working, Loaded, Announcing
<1>2. \A t \in Turns : t < exec'[y].turn => Logged(t)'
  BY LoggedStays DEF Progressing
<1>3. ~Working(exec'[y]) /\ ~Loaded(exec'[y]) /\ ~Announcing(exec'[y])
  BY <1>1
<1> QED BY <1>2, <1>3 DEF Progressing

\* A step that inserts nothing.
LEMMA QuietProgresses ==
  ASSUME TypeInv, TypeInv', SeenInLog, ResultsApart, [Next]_vars,
         NEW x \in Executions, Progressing(x), Claim(x) \/ Acts(x), ~Insert(x)
  PROVE  Progressing(x)'
<1> DEFINE e == exec[x]
           r == exec'[x]
<1>0. /\ Advances(x, r) /\ events' = events
      /\ r.turn = e.turn \/ (r.turn = e.turn + 1 /\ Logged(e.turn))
  BY AdvanceKind, TurnMoves
<1>1. e.turn \in Nat /\ r.turn \in Nat /\ e.turn \in Turns
  BY Fields DEF TypeInv, TypeOK, ExecStates, Turns
<1>2. \A t \in Turns : t < r.turn => Logged(t)'
  <2>1. \A t \in Turns : t < e.turn => Logged(t)
    BY DEF Progressing
  <2>2. \A t \in Turns : t < r.turn => t < e.turn \/ (t = e.turn /\ Logged(e.turn))
    BY <1>0, <1>1 DEF Turns
  <2> QED BY <1>0, <2>1, <2>2 DEF Logged
<1>3. Working(r) => \A f \in events' : f.type = "tool_result" => f.turn # r.turn
  <2> SUFFICES ASSUME Working(r), Logged(e.turn) PROVE FALSE
    BY <1>0 DEF Advances, Logged
  <2>1. e.pc = "step" /\ AlreadyExecuted(x, e.turn) = {}
    BY <1>0 DEF Advances, Progressing
  <2>2. PICK f \in events : f.type = "tool_result" /\ f.turn = e.turn
    BY DEF Logged
  <2>3. f \in e.seen
    <3>1. f \in e.seen \/ f.turn < e.turn
      BY <2>1, <2>2 DEF Progressing, Loaded
    <3> QED BY <1>1, <2>2, <3>1
  <2> QED BY <2>1, <2>2, <2>3, FoundIfSeen
<1>4. Loaded(r) => \A f \in events' : f.type = "tool_result" =>
                     f \in r.seen \/ f.turn < r.turn
  <2> SUFFICES ASSUME Loaded(r), NEW f \in events, f.type = "tool_result"
               PROVE  f \in r.seen \/ f.turn < r.turn
    BY <1>0
  <2>1. CASE r.seen = Completed
    BY <2>1 DEF Completed
  <2>2. CASE r.seen # Completed
    <3>1. f \in e.seen \/ f.turn < e.turn
      BY <1>0, <2>2 DEF Advances, Progressing
    <3>2. f.turn \in Nat
      BY DEF TypeInv, TypeOK, Events, Turns
    <3> QED BY <1>0, <1>1, <2>2, <3>1, <3>2 DEF Advances
  <2> QED BY <2>1, <2>2
<1>5. Announcing(r) => r.turn > 0
  BY <1>0 DEF Advances, Progressing
<1> QED BY <1>2, <1>3, <1>4, <1>5 DEF Progressing, Logged

\* emitEvent's insert, by the only execution.
LEMMA InsertProgresses ==
  ASSUME LogInv, TypeInv', [Next]_vars, NEW x \in Executions, Insert(x)
  PROVE  Progressing(x)' /\ ResultsApart'
<1> DEFINE e == exec[x]
           r == exec'[x]
           g == EventOf(x)
<1>0. TypeInv /\ SeenInLog /\ ResultsApart /\ Progressing(x)
  BY DEF LogInv, AloneInv, SeqInv
<1>1. /\ r = After(e) /\ e \in ExecStates /\ Coherent(e) /\ e.pc = "insert"
      /\ events' = events \cup {g}
      /\ g.seq = e.seq /\ g.type = e.out
      /\ e.out \in TurnTypes => g.turn = e.turn
      /\ e.out = "run_done" => g.turn = 0
  BY <1>0, Others, Fields, EventRecord DEF Insert, TypeInv, EventOf, TurnTypes
<1>2. /\ r.pc \notin {"new", "bump", "insert", "dead", "end"}
      /\ r.out = e.out /\ r.seen = e.seen
      /\ r.turn = e.turn \/ (r.turn = e.turn + 1 /\ e.out = "tool_result")
  BY <1>1, AfterRecord
<1>3. /\ r.pc \in {"model", "tool"} => e.out \in {"model_turn", "tool_call"}
      /\ e.out = "tool_result" => r.turn = e.turn + 1
      /\ e.out = "run_started" => r.pc = "load"
  BY <1>1 DEF After, Endings, ExecStates, EventTypes
<1>4. e.turn \in Nat /\ r.turn \in Nat /\ e.turn \in Turns
  BY <1>0, Fields DEF TypeInv, TypeOK, ExecStates, Turns
<1>5. ResultsApart'
  <2>1. ASSUME e.out = "tool_result", NEW f \in events, f.type = "tool_result"
        PROVE  f.turn # g.turn
    <3>1. ~Logged(e.turn) /\ g.turn = e.turn
      BY <1>0, <1>1, <2>1 DEF Progressing, Working, TurnTypes
    <3> QED BY <2>1, <3>1 DEF Logged
  <2>2. ASSUME e.out = "run_done"
        PROVE  \E f \in events : f.type = "tool_result" /\ f.turn = 0 /\ f.seq < e.seq
    <3>1. e.turn > 0 /\ 0 \in Turns
      BY <1>0, <1>1, <2>2, LoopAssumption DEF Progressing, Announcing, Turns
    <3>2. PICK f \in events : f.type = "tool_result" /\ f.turn = 0
      BY <1>0, <3>1 DEF Progressing, Logged
    <3>3. f.seq # e.seq /\ f.seq <= lastSeq /\ e.seq = lastSeq
      BY <1>1 DEF LogInv, AloneInv, SeqInv, SeqBound, SeqsApart, Alone
    <3>4. f.seq \in Nat /\ lastSeq \in Nat
      BY <1>0 DEF TypeInv, TypeOK, Events
    <3> QED BY <3>2, <3>3, <3>4
  <2>3. \A f, h \in events' : /\ f.type = "tool_result" /\ h.type = "tool_result"
                              /\ f.turn = h.turn
                              => f = h
    BY <1>0, <1>1, <2>1 DEF ResultsApart
  <2>4. \A f \in events' : f.type = "run_done" =>
          f.turn = 0 /\ \E h \in events' : /\ h.type = "tool_result" /\ h.turn = 0
                                           /\ h.seq < f.seq
    BY <1>0, <1>1, <2>2 DEF ResultsApart
  <2> QED BY <2>3, <2>4 DEF ResultsApart
<1>6. \A t \in Turns : t < r.turn => Logged(t)'
  <2>1. \A t \in Turns : t < e.turn => Logged(t)'
    BY <1>0, LoggedStays DEF Progressing
  <2>2. e.out = "tool_result" => \A t \in Turns : t = e.turn => Logged(t)'
    BY <1>1 DEF Logged, TurnTypes
  <2>3. \A t \in Turns : t < r.turn => t < e.turn \/ (t = e.turn /\ e.out = "tool_result")
    BY <1>2, <1>4 DEF Turns
  <2> QED BY <2>1, <2>2, <2>3
<1>7. Working(r) => \A f \in events' : f.type = "tool_result" => f.turn # r.turn
  <2> SUFFICES ASSUME Working(r), NEW f \in events', f.type = "tool_result"
               PROVE  f.turn # r.turn
    OBVIOUS
  <2>1. e.out \in {"model_turn", "tool_call"} /\ r.turn = e.turn
    BY <1>2, <1>3 DEF Working
  <2>2. ~Logged(e.turn) /\ g.type # "tool_result"
    BY <1>0, <1>1, <2>1 DEF Progressing, Working, TurnTypes
  <2> QED BY <1>1, <2>1, <2>2 DEF Logged
<1>8. Loaded(r) => \A f \in events' : f.type = "tool_result" =>
                     f \in r.seen \/ f.turn < r.turn
  <2> SUFFICES ASSUME Loaded(r), NEW f \in events', f.type = "tool_result"
               PROVE  f \in r.seen \/ f.turn < r.turn
    OBVIOUS
  <2>1. CASE f \in events
    <3>1. Loaded(e)
      BY <1>1, <1>2, <1>3 DEF Loaded
    <3>2. f \in e.seen \/ f.turn < e.turn
      BY <1>0, <2>1, <3>1 DEF Progressing
    <3>3. f.turn \in Nat
      BY <1>0, <2>1 DEF TypeInv, TypeOK, Events, Turns
    <3> QED BY <1>2, <1>4, <3>2, <3>3
  <2>2. CASE f = g
    BY <1>1, <1>3, <1>4, <2>2 DEF TurnTypes
  <2> QED BY <1>1, <2>1, <2>2
<1>9. ~Announcing(r)
  BY <1>2 DEF Announcing
<1> QED BY <1>5, <1>6, <1>7, <1>8, <1>9 DEF Progressing, Logged

LEMMA LogStep ==
  ASSUME Undisturbed, LogInv, [Next]_vars
  PROVE  LogInv'
<1>0. /\ TypeInv /\ TypeInv' /\ AloneInv /\ AloneInv' /\ SeenInLog /\ SeenInLog'
      /\ ResultsApart /\ \A y \in Executions : Progressing(y)
  BY AloneStep, SeenStep DEF LogInv, AloneInv, SeqInv
<1>1. CASE UNCHANGED vars \/ Reset \/ Cancel
  <2>1. events' = events /\ exec' = exec
    BY <1>1 DEF vars, Reset, Cancel
  <2>2. ResultsApart' /\ \A y \in Executions : Progressing(y)'
    BY <1>0, <2>1 DEF ResultsApart, Progressing, Logged
  <2> QED BY <1>0, <2>2 DEF LogInv
<1>2. ASSUME NEW x \in Executions, Claim(x) \/ Acts(x) PROVE LogInv'
  <2>1. \A y \in Executions : y # x => exec'[y] = exec[y] /\ ~Alive(y)
    BY <1>0, <1>2, OneMoves, Solo DEF Claim, AloneInv, Alone
  <2>2. \A y \in Executions : y # x => Progressing(y)'
    BY <1>0, <2>1, IdleProgresses
  <2>3. Progressing(x)' /\ ResultsApart'
    <3>1. CASE Insert(x)
      BY <1>0, <3>1, InsertProgresses
    <3>2. CASE ~Insert(x)
      <4>1. events' = events
        BY <1>0, <1>2, <3>2, TurnMoves
      <4>2. ResultsApart'
        BY <1>0, <4>1 DEF ResultsApart
      <4> QED BY <1>0, <1>2, <3>2, <4>2, QuietProgresses
    <3> QED BY <3>1, <3>2
  <2> QED BY <1>0, <2>2, <2>3 DEF LogInv
<1> QED
  BY <1>1, <1>2 DEF Next, Acts

LEMMA LogInit == Init => LogInv
<1> SUFFICES ASSUME Init PROVE LogInv
  OBVIOUS
<1>1. /\ events = {}
      /\ \A x \in Executions : /\ exec[x].pc = "new" /\ exec[x].turn = 0
                               /\ exec[x].seen = {}
  BY DEF Init
<1>2. \A t \in Turns : ~(t < 0)
  BY LoopAssumption DEF Turns
<1>3. \A x \in Executions : Progressing(x)
  BY <1>1, <1>2 DEF Progressing, Working, Loaded, Announcing
<1> QED BY <1>1, <1>3, AloneInit DEF LogInv, SeenInLog, ResultsApart

\* Until a live run is reset, no tool is executed for a turn whose result is in
\* the log ("Turns with existing tool_result events are skipped entirely").
THEOREM CompletedTurnsAreSkipped == Spec => []SkipsCompleted
<1> DEFINE Inv == LeaseInv /\ (Prompt => LogInv)
<1>1. Init => Inv
  BY LeaseInit, LogInit
<1>2. Inv /\ [Next]_vars => Inv'
  BY PromptStep, LogStep
<1>3. Inv => SkipsCompleted
  BY DEF LogInv, Progressing, Working, Logged, SkipsCompleted
<1> QED
  BY <1>1, <1>2, <1>3, PTL DEF Spec

LEMMA RepeatStep ==
  ASSUME Undisturbed, RepeatInv, [Next]_vars
  PROVE  RepeatInv'
<1>0. /\ LogInv /\ LogInv' /\ TypeInv /\ TypeInv' /\ SeenInLog /\ AloneInv
      /\ \A y \in Executions : Progressing(y)
  BY LogStep DEF RepeatInv, LogInv, AloneInv, SeqInv
<1>1. /\ Failures \in Nat /\ Failures' \in Nat /\ Failures <= Failures'
      /\ \A x \in Executions : Fails(x) => Failures' = Failures + 1
      /\ repeats \in Nat /\ repeats <= Failures
  BY <1>0, FailuresGrow DEF AloneInv, TypeInv, TypeOK, RepeatInv
<1> DEFINE Below == \A t \in effects : \A u \in Turns : u < t => Logged(u)
           AnyWasted == \E t \in Turns : Wasted(t)
<1>2. ASSUME effects' = effects, repeats' = repeats, AnyWasted' => AnyWasted
      PROVE  RepeatInv'
  <2>1. Below'
    BY <1>0, <1>2, LoggedStays DEF RepeatInv
  <2>2. repeats' <= Failures' /\ (AnyWasted' => repeats' + 1 <= Failures')
    BY <1>1, <1>2 DEF RepeatInv
  <2> QED BY <1>0, <2>1, <2>2 DEF RepeatInv
<1>3. CASE UNCHANGED vars \/ Reset \/ Cancel
  <2>1. UNCHANGED <<events, exec, effects, repeats>>
    BY <1>3 DEF vars, Reset, Cancel
  <2>2. AnyWasted' => AnyWasted
    BY <2>1 DEF Wasted, Logged
  <2> QED BY <1>2, <2>1, <2>2
<1>4. ASSUME NEW x \in Executions, Claim(x) \/ Acts(x), ~Tool(x), ~Fails(x)
      PROVE  RepeatInv'
  <2>1. effects' = effects /\ repeats' = repeats
    BY <1>4 DEF Claim, Acts, Run, Bump, Insert, Load, Skip, Step, TurnsUsedUp, Model, Finish,
                Fails, TimeOut, PollCancel
  <2>2. \A y \in Executions : y # x => exec'[y] = exec[y]
    BY <1>0, <1>4, OneMoves
  <2>3. ASSUME NEW t \in Turns, Holding(exec[x]), exec[x].turn = t
        PROVE  Logged(t)' \/ (Holding(exec'[x]) /\ exec'[x].turn = t)
    <3>1. CASE Insert(x)
      <4>1. /\ EventOf(x) \in events' /\ EventOf(x).type = "tool_result"
            /\ EventOf(x).turn = t
        BY <1>0, <2>3, <3>1, EventRecord DEF Insert, TypeInv, Holding, TurnTypes
      <4> QED BY <4>1 DEF Logged
    <3>2. CASE ~Insert(x)
      BY <1>0, <1>4, <2>3, <3>2, AdvanceKind DEF Advances
    <3> QED BY <3>1, <3>2
  <2>4. ASSUME NEW t \in Turns, Wasted(t)' PROVE Wasted(t)
    <3>1. t \in effects /\ ~Logged(t)
      BY <1>0, <2>1, <2>4, LoggedStays DEF Wasted
    <3>2. ASSUME NEW y \in Executions, Holding(exec[y]), exec[y].turn = t
          PROVE  FALSE
      BY <2>2, <2>3, <2>4, <3>2 DEF Wasted
    <3> QED BY <3>1, <3>2 DEF Wasted
  <2> QED BY <1>2, <2>1, <2>4
<1>5. ASSUME NEW x \in Executions, Fails(x) PROVE RepeatInv'
  <2>1. effects' = effects /\ repeats' = repeats
    BY <1>5 DEF Fails, Throw, Crash
  <2>2. Below'
    BY <1>0, <2>1, LoggedStays DEF RepeatInv
  <2>3. repeats' + 1 <= Failures'
    BY <1>1, <1>5, <2>1
  <2>4. repeats' <= Failures'
    BY <1>1, <2>1
  <2> QED BY <1>0, <2>2, <2>3, <2>4 DEF RepeatInv
<1>6. ASSUME NEW x \in Executions, Tool(x) PROVE RepeatInv'
  <2> DEFINE t0 == exec[x].turn
  <2>1. /\ exec[x].pc = "tool" /\ t0 \in Turns
        /\ effects' = effects \cup {t0} /\ events' = events
        /\ repeats' = IF t0 \in effects THEN repeats + 1 ELSE repeats
    BY <1>0, <1>6, Fields DEF Tool, TypeInv
  <2>2. ~Logged(t0) /\ \A u \in Turns : u < t0 => Logged(u)
    BY <1>0, <2>1 DEF Progressing, Working
  <2>3. \A y \in Executions : ~Holding(exec[y])
    <3>1. \A y \in Executions : y # x => ~Alive(y)
      BY <1>0, <1>6, Solo DEF Acts, Run
    <3> QED BY <2>1, <3>1 DEF Holding, Alive
  <2>4. t0 \in effects => AnyWasted
    BY <2>1, <2>2, <2>3 DEF Wasted
  <2>5. repeats' <= Failures'
    BY <1>1, <2>1, <2>4 DEF RepeatInv
  <2>6. Below'
    <3>1. \A t \in effects' : \A u \in Turns : u < t => Logged(u)
      BY <2>1, <2>2 DEF RepeatInv
    <3> QED BY <2>1, <3>1 DEF Logged
  <2>7. exec'[x].turn = t0 /\ Holding(exec'[x])
    BY <1>0, <1>6, EmitMoves DEF Tool, Holding, EventTypes
  <2>8. ASSUME NEW t \in Turns, Wasted(t)' PROVE FALSE
    <3>1. t # t0 /\ t \in effects /\ ~Logged(t)
      BY <2>1, <2>7, <2>8 DEF Wasted, Logged
    <3>2. t \in Int /\ t0 \in Int
      BY <2>1 DEF Turns
    <3>3. CASE t < t0
      BY <2>2, <3>1, <3>3
    <3>4. CASE t0 < t
      BY <2>1, <2>2, <3>1, <3>4 DEF RepeatInv
    <3> QED BY <3>1, <3>2, <3>3, <3>4
  <2> QED BY <1>0, <2>5, <2>6, <2>8 DEF RepeatInv
<1> QED
  BY <1>3, <1>4, <1>5, <1>6 DEF Next, Acts

\* Until a live run is reset, a tool is repeated for no turn but the one a failure
\* cut short of its result, and each failure costs one repetition at most, however
\* many turns were completed before it ("prevents duplicate side effects").
THEOREM FailuresBoundRepeats == Spec => []RepeatsBounded
<1> DEFINE Inv == LeaseInv /\ (Prompt => RepeatInv)
<1>1. Init => Inv
  <2> SUFFICES ASSUME Init PROVE RepeatInv
    BY LeaseInit
  <2>1. effects = {} /\ repeats = 0 /\ left = Budget /\ LogInv
    BY LogInit DEF Init
  <2>2. Failures = 0
    BY <2>1, LoopAssumption DEF Failures, UpsetKinds
  <2> QED BY <2>1, <2>2 DEF RepeatInv, Wasted
<1>2. Inv /\ [Next]_vars => Inv'
  BY PromptStep, RepeatStep
<1>3. Inv => RepeatsBounded
  BY DEF RepeatInv, RepeatsBounded
<1> QED
  BY <1>1, <1>2, <1>3, PTL DEF Spec
=============================================================================
