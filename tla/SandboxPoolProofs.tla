------------------------- MODULE SandboxPoolProofs -------------------------
(***************************************************************************)
(* Proofs about SandboxPool, for any number of workers, runs, containers   *)
(* and faults and any poolSize: the type invariant, the exclusive use of a *)
(* container, the size of the pools, and what a clean stop leaves behind.  *)
(***************************************************************************)
EXTENDS SandboxPool, FiniteSetTheorems, TLAPS

LEMMA NoneApart == None \notin Workers /\ None \notin Boxes
BY PoolAssumption

LEMMA Finite ==
  ASSUME TypeOK
  PROVE  /\ \A w \in Workers : IsFiniteSet(pool[w]) /\ Cardinality(pool[w]) \in Nat
         /\ \A w, why : /\ IsFiniteSet(CallsOf(w, why))
                        /\ Cardinality(CallsOf(w, why)) \in Nat
<1>1. \A S \in SUBSET Boxes : IsFiniteSet(S) /\ Cardinality(S) \in Nat
  BY PoolAssumption, FS_Subset, FS_CardinalityType
<1>2. \A w, why : CallsOf(w, why) \in SUBSET Boxes
  BY DEF CallsOf
<1> QED BY <1>1, <1>2 DEF TypeOK

\* A pending call has a worker, and the others have none.
LEMMA CallShape ==
  ASSUME TypeOK, NEW b \in Boxes
  PROVE  /\ Pending(b) <=> call[b].w \in Workers
         /\ Pending(b) <=> call[b].why \in {"init", "refill", "claim"}
         /\ Pending(b) <=> call[b].at \in {"asked", "ran"}
         /\ Pending(b) => call[b] \in Calls
         /\ call[b] = NoCall => call[b].w = None
BY NoneApart DEF TypeOK, Pending, Calls, NoCall

\* New names only add to the calls of their kind.
LEMMA Booting ==
  ASSUME TypeOK, NEW w \in Workers, NEW why \in {"init", "refill", "claim"},
         NEW names \in SUBSET Unused, Boot(w, why, names)
  PROVE  /\ call' \in [Boxes -> Calls \cup {NoCall}]
         /\ \A v \in Workers : \A y : CallsOf(v, y)' = IF v = w /\ y = why
                                                       THEN CallsOf(v, y) \cup names
                                                       ELSE CallsOf(v, y)
         /\ \A b \in Boxes : Pending(b)' <=> (Pending(b) \/ b \in names)
         /\ \A b \in Boxes : b \notin names => call'[b] = call[b]
         /\ \A b \in names : call'[b] = [w |-> w, why |-> why, at |-> "asked"]
<1>1. call' \in [Boxes -> Calls \cup {NoCall}]
  BY DEF TypeOK, Boot, Calls
<1>2. \A b \in names : b \in Boxes /\ ~Pending(b)
  BY DEF Unused
<1>3. \A b \in Boxes : call'[b] = IF b \in names
                                  THEN [w |-> w, why |-> why, at |-> "asked"]
                                  ELSE call[b]
  BY DEF Boot
<1>4. \A v \in Workers : \A y : CallsOf(v, y)' = IF v = w /\ y = why
                                                 THEN CallsOf(v, y) \cup names
                                                 ELSE CallsOf(v, y)
  <2>1. \A b \in names : call[b].w = None
    BY <1>2 DEF Pending, NoCall
  <2> QED BY <1>2, <1>3, <2>1, NoneApart DEF CallsOf
<1> QED BY <1>1, <1>2, <1>3, <1>4 DEF Pending, NoCall

\* The same of one new name.
LEMMA BootingOne ==
  ASSUME TypeOK, NEW w \in Workers, NEW why \in {"refill", "claim"},
         NEW new \in Unused, Boot(w, why, {new})
  PROVE  /\ call' \in [Boxes -> Calls \cup {NoCall}]
         /\ \A v \in Workers : \A y : CallsOf(v, y)' = IF v = w /\ y = why
                                                       THEN CallsOf(v, y) \cup {new}
                                                       ELSE CallsOf(v, y)
         /\ \A c \in Boxes : Pending(c)' <=> (Pending(c) \/ c = new)
         /\ \A c \in Boxes : c # new => call'[c] = call[c]
         /\ call'[new] = [w |-> w, why |-> why, at |-> "asked"]
<1>1. call' \in [Boxes -> Calls \cup {NoCall}]
  BY DEF TypeOK, Boot, Calls
<1>2. new \in Boxes /\ call[new] = NoCall
  BY DEF Unused, Pending
<1>3. \A c \in Boxes : call'[c] = IF c = new
                                  THEN [w |-> w, why |-> why, at |-> "asked"]
                                  ELSE call[c]
  BY DEF Boot
<1>4. \A v \in Workers : \A y : CallsOf(v, y)' = IF v = w /\ y = why
                                                 THEN CallsOf(v, y) \cup {new}
                                                 ELSE CallsOf(v, y)
  BY <1>2, <1>3, NoneApart DEF CallsOf, NoCall
<1> QED BY <1>1, <1>2, <1>3, <1>4 DEF Pending, NoCall

\* A call that is over is in no set of calls any more.
LEMMA Over ==
  ASSUME TypeOK, NEW b \in Boxes, call' = [call EXCEPT ![b] = NoCall]
  PROVE  /\ call' \in [Boxes -> Calls \cup {NoCall}]
         /\ \A v \in Workers : \A y : CallsOf(v, y)' = CallsOf(v, y) \ {b}
         /\ \A v \in Workers : \A y : v # call[b].w \/ y # call[b].why =>
              CallsOf(v, y)' = CallsOf(v, y)
         /\ \A c \in Boxes : Pending(c)' <=> Pending(c) /\ c # b
         /\ \A c \in Boxes : c # b => call'[c] = call[c]
         /\ call'[b] = NoCall
<1>1. /\ call' \in [Boxes -> Calls \cup {NoCall}]
      /\ \A c \in Boxes : call'[c] = IF c = b THEN NoCall ELSE call[c]
  BY DEF TypeOK
<1>2. \A v \in Workers : \A y : CallsOf(v, y)' = CallsOf(v, y) \ {b}
  BY <1>1, NoneApart DEF CallsOf, NoCall
<1>3. \A v \in Workers : \A y : b \in CallsOf(v, y) => v = call[b].w /\ y = call[b].why
  BY DEF CallsOf
<1>4. \A v \in Workers : \A y : v # call[b].w \/ y # call[b].why =>
        CallsOf(v, y)' = CallsOf(v, y)
  <2> SUFFICES ASSUME NEW v \in Workers, NEW y, b \notin CallsOf(v, y)
               PROVE  CallsOf(v, y)' = CallsOf(v, y)
    BY <1>3
  <2> QED BY <1>2
<1> QED BY <1>1, <1>2, <1>4 DEF Pending, NoCall

\* The calls of a worker that is gone are gone, and no others.
LEMMA GoneCalls ==
  ASSUME TypeOK, NEW w \in Workers,
         call' = [b \in Boxes |-> IF call[b].w = w THEN NoCall ELSE call[b]]
  PROVE  /\ call' \in [Boxes -> Calls \cup {NoCall}]
         /\ \A v \in Workers : \A y : CallsOf(v, y)' = IF v = w THEN {} ELSE CallsOf(v, y)
         /\ \A c \in Boxes : Pending(c)' <=> Pending(c) /\ call[c].w # w
         /\ \A c \in Boxes : call[c].w # w => call'[c] = call[c]
         /\ \A c \in Boxes : call'[c].w # w
<1>1. \A b \in Boxes : call'[b] = IF call[b].w = w THEN NoCall ELSE call[b]
  OBVIOUS
<1>2. NoCall.w # w
  BY NoneApart DEF NoCall
<1> QED BY <1>1, <1>2, NoneApart DEF TypeOK, CallsOf, Pending, NoCall
-----------------------------------------------------------------------------
(* The start of a worker. *)

LEMMA StartKeeps ==
  ASSUME PoolInv, NEW w \in Workers, Start(w)
  PROVE  PoolInv'
<1>0. TypeOK /\ Placed /\ Counted /\ Spent /\ PoolKept /\ CleanedUp
  BY DEF PoolInv
<1>1. PICK names \in SUBSET Unused :
        Cardinality(names) = PoolSize /\ Boot(w, "init", names)
  BY DEF Start, kSubset
<1>2. /\ call' \in [Boxes -> Calls \cup {NoCall}]
      /\ \A v \in Workers : \A y : CallsOf(v, y)' = IF v = w /\ y = "init"
                                                    THEN CallsOf(v, y) \cup names
                                                    ELSE CallsOf(v, y)
      /\ \A b \in Boxes : Pending(b)' <=> (Pending(b) \/ b \in names)
      /\ \A b \in Boxes : b \notin names => call'[b] = call[b]
      /\ \A b \in names : call'[b] = [w |-> w, why |-> "init", at |-> "asked"]
  BY <1>0, <1>1, Booting
<1>3. /\ proc[w] = "down"
      /\ proc' = [proc EXCEPT ![w] = IF PoolSize = 0 THEN "up" ELSE "init"]
      /\ UNCHANGED <<up, pool, booting, run, spared, left>>
  BY DEF Start
<1>4. /\ CallsOf(w, "init") = {}
      /\ pool[w] = {} /\ booting[w] = 0
  BY <1>0, <1>3 DEF Counted, InitCounted, NothingLeft
<1>5. TypeOK'
  BY <1>0, <1>2, <1>3 DEF TypeOK, Phases
<1>6. Placed'
  <2>1. \A b \in Boxes : Held(b)' = Held(b)
    BY <1>3 DEF Held
  <2>2. \A r \in Runs : run[r].box \notin names
    BY DEF Unused, Held
  <2>3. \A v \in Workers : \A b \in pool[v] : b \notin names
    BY DEF Unused
  <2>4. ASSUME NEW r \in Runs PROVE RunPlaced(r)'
    <3>1. RunPlaced(r)
      BY <1>0 DEF Placed
    <3> QED BY <3>1, <1>2, <1>3, <2>1, <2>2 DEF RunPlaced, Ready
  <2>5. ASSUME NEW v \in Workers PROVE WarmPlaced(v)'
    <3>1. WarmPlaced(v) /\ pool[v] \subseteq Boxes
      BY <1>0 DEF Placed, TypeOK
    <3> QED BY <3>1, <1>2, <1>3, <2>3 DEF WarmPlaced
  <2> QED BY <2>4, <2>5 DEF Placed
<1>7. Counted'
  <2> SUFFICES ASSUME NEW v \in Workers
               PROVE  BootsCounted(v)' /\ InitCounted(v)' /\ NothingLeft(v)'
    BY DEF Counted
  <2>0. BootsCounted(v) /\ InitCounted(v) /\ NothingLeft(v)
    BY <1>0 DEF Counted
  <2>1. BootsCounted(v)'
    BY <2>0, <1>2, <1>3 DEF BootsCounted
  <2>2. CASE v = w
    <3>1. IsFiniteSet(names) /\ (PoolSize = 0 => names = {}) /\ (PoolSize # 0 => names # {})
      BY <1>1, PoolAssumption, FS_Subset, FS_EmptySet DEF Unused
    <3>2. Cardinality(pool'[v]) = 0
      BY <2>2, <1>3, <1>4, FS_EmptySet
    <3>3. proc'[v] = IF PoolSize = 0 THEN "up" ELSE "init"
      BY <2>2, <1>0, <1>3 DEF TypeOK
    <3>4. CallsOf(v, "init")' = names
      BY <2>2, <1>2, <1>4
    <3>5. InitCounted(v)'
      BY <1>1, <1>3, <1>4, <2>2, <3>1, <3>2, <3>3, <3>4, PoolAssumption DEF InitCounted
    <3>6. NothingLeft(v)'
      BY <3>3 DEF NothingLeft
    <3> QED BY <2>1, <3>5, <3>6
  <2>3. CASE v # w
    <3>1. proc'[v] = proc[v]
      BY <2>3, <1>0, <1>3 DEF TypeOK
    <3>2. \A b \in Boxes : call'[b].w = v => call[b].w = v
      BY <1>2, <2>3
    <3>3. InitCounted(v)'
      BY <2>0, <2>3, <1>2, <1>3, <3>1 DEF InitCounted
    <3>4. NothingLeft(v)'
      BY <2>0, <1>3, <3>1, <3>2 DEF NothingLeft
    <3> QED BY <2>1, <3>3, <3>4
  <2> QED BY <2>2, <2>3
<1>8. Spent'
  BY <1>0, <1>3 DEF Spent
<1>9. PoolKept'
  <2> SUFFICES ASSUME NEW v \in Workers, Working(v)'
               PROVE  Cardinality(pool'[v]) + booting'[v]
                        \in PoolSize - (Budget["boot"] - left'["boot"]) .. PoolSize
    BY DEF PoolKept
  <2>1. CASE v = w
    <3>1. PoolSize = 0
      BY <2>1, <1>0, <1>3 DEF TypeOK, Working
    <3> QED BY <2>1, <3>1, <1>0, <1>3, <1>4, FS_EmptySet, PoolAssumption
            DEF Spent, TypeOK, FaultKinds
  <2>2. CASE v # w
    BY <2>2, <1>0, <1>3 DEF PoolKept, Working, TypeOK
  <2> QED BY <2>1, <2>2
<1>10. CleanedUp'
  BY <1>0, <1>3 DEF CleanedUp, TypeOK
<1> QED BY <1>5, <1>6, <1>7, <1>8, <1>9, <1>10 DEF PoolInv
\* What is counted of a worker changes only with its own calls and phase.
LEMMA CountedElsewhere ==
  ASSUME NEW v \in Workers,
         BootsCounted(v), InitCounted(v), NothingLeft(v),
         proc'[v] = proc[v], pool'[v] = pool[v], booting'[v] = booting[v],
         CallsOf(v, "refill")' = CallsOf(v, "refill"),
         CallsOf(v, "init")' = CallsOf(v, "init"),
         \A b \in Boxes : call'[b].w = v => call[b].w = v \/ Working(v),
         \A r \in Runs : run'[r].w = v => run[r].w = v \/ Working(v)
  PROVE  BootsCounted(v)' /\ InitCounted(v)' /\ NothingLeft(v)'
BY DEF BootsCounted, InitCounted, NothingLeft, Working

LEMMA DockerRunsKeeps ==
  ASSUME PoolInv, NEW b \in Boxes, DockerRuns(b)
  PROVE  PoolInv'
<1>0. TypeOK /\ Placed /\ Counted /\ Spent /\ PoolKept /\ CleanedUp
  BY DEF PoolInv
<1>1. /\ call[b] \in Calls
      /\ up' = up \cup {b}
      /\ call' = [call EXCEPT ![b].at = "ran"]
      /\ spared' = Later(call[b].w, {b})
      /\ UNCHANGED <<pool, booting, run, proc, left>>
  BY <1>0, CallShape DEF DockerRuns
<1>2. /\ call' \in [Boxes -> Calls \cup {NoCall}]
      /\ \A c \in Boxes : call'[c].w = call[c].w /\ call'[c].why = call[c].why
  BY <1>0, <1>1 DEF TypeOK, Calls
<1>3. /\ \A v \in Workers : \A y : CallsOf(v, y)' = CallsOf(v, y)
      /\ \A c \in Boxes : Pending(c)' <=> Pending(c)
  <2>1. \A c \in Boxes : Pending(c)' <=> call'[c].w \in Workers
    BY <1>2, NoneApart DEF Pending, Calls, NoCall
  <2> QED BY <2>1, <1>0, <1>2, CallShape DEF CallsOf
<1>4. TypeOK'
  BY <1>0, <1>1, <1>2 DEF TypeOK, Later
<1>5. Placed'
  <2>1. \A c \in Boxes : Held(c)' = Held(c)
    BY <1>1 DEF Held
  <2>2. ASSUME NEW r \in Runs PROVE RunPlaced(r)'
    <3>1. RunPlaced(r)
      BY <1>0 DEF Placed
    <3> QED BY <3>1, <1>1, <1>2, <1>3, <2>1 DEF RunPlaced, Ready
  <2>3. ASSUME NEW v \in Workers PROVE WarmPlaced(v)'
    <3>1. WarmPlaced(v) /\ pool[v] \subseteq Boxes
      BY <1>0 DEF Placed, TypeOK
    <3> QED BY <3>1, <1>1, <1>3 DEF WarmPlaced
  <2> QED BY <2>2, <2>3 DEF Placed
<1>6. Counted'
  BY <1>0, <1>1, <1>2, <1>3, CountedElsewhere DEF Counted
<1>7. Spent' /\ PoolKept'
  BY <1>0, <1>1 DEF Spent, PoolKept, Working
<1>8. CleanedUp'
  <2> SUFFICES ASSUME \A w \in Workers : proc[w] \in {"leave", "stopped"}
               PROVE  up' \subseteq spared'
    BY <1>1 DEF CleanedUp
  <2>1. up \subseteq spared /\ call[b].w \in Workers /\ proc[call[b].w] # "stopped"
    BY <1>0, <1>1 DEF CleanedUp, Calls, Counted, NothingLeft
  <2> QED BY <2>1, <1>1 DEF Later
<1> QED BY <1>4, <1>5, <1>6, <1>7, <1>8 DEF PoolInv

LEMMA BootedKeeps ==
  ASSUME PoolInv, NEW b \in Boxes, Booted(b)
  PROVE  PoolInv'
<1>0. TypeOK /\ Placed /\ Counted /\ Spent /\ PoolKept /\ CleanedUp
  BY DEF PoolInv
<1>w. PICK w \in Workers : w = call[b].w
  BY <1>0, CallShape DEF Booted, NoCall
<1>1. /\ call[b].w = w /\ call[b].why = "init" /\ Pending(b)
      /\ pool' = [pool EXCEPT ![w] = @ \cup {b}]
      /\ proc' = [proc EXCEPT ![w] = IF CallsOf(w, "init") = {b} THEN "up" ELSE @]
      /\ call' = [call EXCEPT ![b] = NoCall]
      /\ UNCHANGED <<up, booting, run, spared, left>>
  BY <1>0, <1>w, CallShape DEF Booted
<1>2. /\ call' \in [Boxes -> Calls \cup {NoCall}]
      /\ \A v \in Workers : \A y : CallsOf(v, y)' = CallsOf(v, y) \ {b}
      /\ \A c \in Boxes : Pending(c)' <=> Pending(c) /\ c # b
      /\ \A c \in Boxes : c # b => call'[c] = call[c]
      /\ call'[b] = NoCall
  BY <1>0, <1>1, Over
<1>3. /\ b \in CallsOf(w, "init")
      /\ \A v \in Workers : CallsOf(v, "refill")' = CallsOf(v, "refill")
      /\ \A v \in Workers \ {w} : CallsOf(v, "init")' = CallsOf(v, "init")
  <2>1. b \in CallsOf(w, "init")
    BY <1>1 DEF CallsOf
  <2>2. \A v \in Workers : \A y : v # w \/ y # "init" => CallsOf(v, y)' = CallsOf(v, y)
    BY <1>0, <1>1, Over
  <2> QED BY <2>1, <2>2
<1>4. proc[w] = "init" /\ booting[w] = 0
  BY <1>0, <1>1, <1>3 DEF Counted, InitCounted
<1>5. \A v \in Workers : b \notin pool[v]
  BY <1>0, <1>1 DEF Placed, WarmPlaced
<1>6. \A r \in Runs : run[r].box # b
  <2> SUFFICES ASSUME NEW r \in Runs, run[r].box = b PROVE FALSE
    OBVIOUS
  <2>1. RunPlaced(r)
    BY <1>0 DEF Placed
  <2> QED BY <2>1, <1>0, <1>1, NoneApart DEF RunPlaced, Ready, TypeOK, RunStates
<1>7. TypeOK'
  BY <1>0, <1>1, <1>2 DEF TypeOK, Phases
<1>8. Placed'
  <2>1. \A c \in Boxes : Held(c)' = Held(c)
    BY <1>1 DEF Held
  <2>2. ASSUME NEW r \in Runs PROVE RunPlaced(r)'
    <3>1. RunPlaced(r)
      BY <1>0 DEF Placed
    <3> QED BY <3>1, <1>0, <1>1, <1>2, <1>6, <2>1 DEF RunPlaced, Ready, TypeOK
  <2>3. ASSUME NEW v \in Workers PROVE WarmPlaced(v)'
    <3>1. WarmPlaced(v) /\ pool[v] \subseteq Boxes
      BY <1>0 DEF Placed, TypeOK
    <3> QED BY <3>1, <1>0, <1>1, <1>2, <1>5 DEF WarmPlaced, TypeOK
  <2> QED BY <2>2, <2>3 DEF Placed
<1>9. Counted'
  <2> SUFFICES ASSUME NEW v \in Workers
               PROVE  BootsCounted(v)' /\ InitCounted(v)' /\ NothingLeft(v)'
    BY DEF Counted
  <2>0. BootsCounted(v) /\ InitCounted(v) /\ NothingLeft(v)
    BY <1>0 DEF Counted
  <2>1. CASE v # w
    <3>1. pool'[v] = pool[v] /\ proc'[v] = proc[v]
      BY <2>1, <1>0, <1>1 DEF TypeOK
    <3>2. \A c \in Boxes : call'[c].w = v => call[c].w = v
      BY <1>2, NoneApart DEF NoCall
    <3> QED BY <2>0, <2>1, <3>1, <3>2, <1>1, <1>3, CountedElsewhere
  <2>2. CASE v = w
    <3>1. BootsCounted(v)'
      BY <2>0, <1>1, <1>3 DEF BootsCounted
    <3>2. Cardinality(pool'[w]) = Cardinality(pool[w]) + 1
      BY <1>0, <1>1, <1>5, Finite, FS_AddElement DEF TypeOK
    <3>3. Cardinality(CallsOf(w, "init")') = Cardinality(CallsOf(w, "init")) - 1
      BY <1>0, <1>1, <1>2, <1>3, Finite, FS_RemoveElement
    <3>4. CASE CallsOf(w, "init") = {b}
      BY <2>2, <3>1, <3>4, <1>0, <1>1, <1>2 DEF InitCounted, NothingLeft, TypeOK
    <3>5. CASE CallsOf(w, "init") # {b}
      <4>1. CallsOf(w, "init")' # {} /\ proc'[w] = "init"
        BY <3>5, <1>0, <1>1, <1>2, <1>3, <1>4 DEF TypeOK
      <4> QED BY <2>0, <2>2, <3>1, <3>2, <3>3, <4>1, <1>0, <1>1, <1>4, Finite
              DEF InitCounted, NothingLeft
    <3> QED BY <3>4, <3>5
  <2> QED BY <2>1, <2>2
<1>10. Spent'
  BY <1>0, <1>1 DEF Spent
<1>11. PoolKept'
  <2> SUFFICES ASSUME NEW v \in Workers, Working(v)'
               PROVE  Cardinality(pool'[v]) + booting'[v]
                        \in PoolSize - (Budget["boot"] - left'["boot"]) .. PoolSize
    BY DEF PoolKept
  <2>1. CASE v # w
    BY <2>1, <1>0, <1>1 DEF PoolKept, Working, TypeOK
  <2>2. CASE v = w
    <3>1. CallsOf(w, "init") = {b}
      BY <2>2, <1>0, <1>1, <1>4 DEF Working, TypeOK
    <3>2. Cardinality(pool[w]) + 1 = PoolSize
      BY <3>1, <1>0, <1>1, <1>4, FS_Singleton DEF Counted, InitCounted
    <3>3. Cardinality(pool'[w]) = Cardinality(pool[w]) + 1
      BY <1>0, <1>1, <1>5, Finite, FS_AddElement DEF TypeOK
    <3> QED BY <2>2, <3>2, <3>3, <1>0, <1>1, <1>4, PoolAssumption
            DEF Spent, TypeOK, FaultKinds
  <2> QED BY <2>1, <2>2
<1>12. CleanedUp'
  BY <1>0, <1>1, <1>4 DEF CleanedUp, TypeOK
<1> QED BY <1>7, <1>8, <1>9, <1>10, <1>11, <1>12 DEF PoolInv
-----------------------------------------------------------------------------
(* Claims. *)

LEMMA ClaimWarmKeeps ==
  ASSUME PoolInv, NEW r \in Runs, NEW w \in Workers, ClaimWarm(r, w)
  PROVE  PoolInv'
<1>0. TypeOK /\ Placed /\ Counted /\ Spent /\ PoolKept /\ CleanedUp
  BY DEF PoolInv
<1>1. PICK b \in pool[w] :
        /\ pool' = [pool EXCEPT ![w] = pool[w] \ {b}]
        /\ run' = [run EXCEPT ![r] = [at |-> "held", w |-> w, box |-> b]]
        /\ IF Wanted(w, pool[w] \ {b})
           THEN /\ \E new \in Unused : Boot(w, "refill", {new})
                /\ booting' = [booting EXCEPT ![w] = @ + 1]
           ELSE UNCHANGED <<call, booting>>
  BY DEF ClaimWarm, Taken
<1>2. /\ Working(w)
      /\ UNCHANGED <<up, proc, spared, left>>
  BY DEF ClaimWarm
<1>3. run[r] = Ready
  <2>1. RunPlaced(r) /\ run[r].at = "ready"
    BY <1>0 DEF Placed, ClaimWarm
  <2> QED BY <2>1 DEF RunPlaced
<1>4. /\ b \in Boxes /\ ~Pending(b)
      /\ Held(b) = {}
      /\ \A v \in Workers : b \in pool[v] => v = w
  <2>1. b \in Boxes /\ WarmPlaced(w)
    BY <1>0 DEF TypeOK, Placed
  <2>2. ASSUME NEW q \in Runs, run[q].box = b PROVE FALSE
    <3>1. RunPlaced(q)
      BY <1>0 DEF Placed
    <3> QED BY <2>1, <2>2, <3>1, NoneApart DEF RunPlaced, Ready
  <2> QED BY <2>1, <2>2 DEF WarmPlaced, Held
<1>5. Cardinality(pool[w] \ {b}) = Cardinality(pool[w]) - 1
  BY <1>0, Finite, FS_RemoveElement
<1>6. Wanted(w, pool[w] \ {b})
  BY <1>0, <1>2, <1>5, Finite, PoolAssumption
     DEF PoolKept, Wanted, TypeOK, Spent, FaultKinds
<1>7. PICK new \in Unused : Boot(w, "refill", {new})
  BY <1>1, <1>6
<1>8. /\ call' \in [Boxes -> Calls \cup {NoCall}]
      /\ \A v \in Workers : \A y : CallsOf(v, y)' = IF v = w /\ y = "refill"
                                                    THEN CallsOf(v, y) \cup {new}
                                                    ELSE CallsOf(v, y)
      /\ \A c \in Boxes : Pending(c)' <=> (Pending(c) \/ c = new)
      /\ \A c \in Boxes : c # new => call'[c] = call[c]
      /\ call'[new] = [w |-> w, why |-> "refill", at |-> "asked"]
  BY <1>0, <1>7, BootingOne
<1>9. /\ new \in Boxes /\ new # b
      /\ \A q \in Runs : run[q].box # new
      /\ \A v \in Workers : new \notin pool[v]
      /\ ~Pending(new)
  BY <1>2 DEF Unused, Held
<1>10. booting' = [booting EXCEPT ![w] = @ + 1]
  BY <1>1, <1>6
<1>11. /\ \A c \in Boxes : Held(c)' = IF c = b THEN {r} ELSE Held(c)
       /\ \A q \in Runs : q # r => run'[q] = run[q]
       /\ run'[r] = [at |-> "held", w |-> w, box |-> b]
  BY <1>0, <1>1, <1>3, <1>4, NoneApart DEF TypeOK, Held, Ready
<1>12. TypeOK'
  BY <1>0, <1>1, <1>2, <1>4, <1>8, <1>10 DEF TypeOK, RunStates
<1>13. \A v \in Workers : pool'[v] \subseteq pool[v] /\ b \notin pool'[v]
  BY <1>0, <1>1, <1>4 DEF TypeOK
<1>14. Placed'
  <2>1. RunPlaced(r)'
    BY <1>4, <1>8, <1>9, <1>11, <1>13 DEF RunPlaced
  <2>2. ASSUME NEW q \in Runs, q # r PROVE RunPlaced(q)'
    <3>1. RunPlaced(q) /\ run'[q] = run[q]
      BY <1>0, <1>11, <2>2 DEF Placed
    <3>2. run[q].box # b
      BY <1>4 DEF Held
    <3> QED BY <3>1, <3>2, <1>8, <1>9, <1>11, <1>13 DEF RunPlaced, Ready
  <2>3. ASSUME NEW v \in Workers PROVE WarmPlaced(v)'
    <3>1. WarmPlaced(v) /\ pool[v] \subseteq Boxes
      BY <1>0 DEF Placed, TypeOK
    <3> QED BY <3>1, <1>8, <1>9, <1>13 DEF WarmPlaced
  <2> QED BY <2>1, <2>2, <2>3 DEF Placed
<1>15. Counted'
  <2> SUFFICES ASSUME NEW v \in Workers
               PROVE  BootsCounted(v)' /\ InitCounted(v)' /\ NothingLeft(v)'
    BY DEF Counted
  <2>0. BootsCounted(v) /\ InitCounted(v) /\ NothingLeft(v)
    BY <1>0 DEF Counted
  <2>1. CASE v # w
    <3>1. /\ pool'[v] = pool[v] /\ proc'[v] = proc[v] /\ booting'[v] = booting[v]
          /\ \A c \in Boxes : call'[c].w = v => call[c].w = v
          /\ \A q \in Runs : run'[q].w = v => run[q].w = v
      BY <2>1, <1>0, <1>1, <1>2, <1>8, <1>10, <1>11 DEF TypeOK
    <3>2. /\ CallsOf(v, "refill")' = CallsOf(v, "refill")
          /\ CallsOf(v, "init")' = CallsOf(v, "init")
      BY <2>1, <1>8
    <3> QED BY <2>0, <3>1, <3>2, CountedElsewhere
  <2>2. CASE v = w
    <3>1. /\ new \notin CallsOf(w, "refill")
          /\ CallsOf(w, "refill")' = CallsOf(w, "refill") \cup {new}
      BY <1>0, <1>8, <1>9, NoneApart DEF CallsOf, Pending, NoCall
    <3>2. Cardinality(CallsOf(w, "refill")') = Cardinality(CallsOf(w, "refill")) + 1
      BY <1>0, <3>1, Finite, FS_AddElement
    <3>3. BootsCounted(v)'
      BY <2>0, <2>2, <3>2, <1>0, <1>10 DEF BootsCounted, TypeOK
    <3>4. CallsOf(w, "init")' = CallsOf(w, "init")
      BY <1>8
    <3> QED BY <2>0, <2>2, <3>3, <3>4, <1>2 DEF InitCounted, NothingLeft, Working
  <2> QED BY <2>1, <2>2
<1>16. Spent'
  BY <1>0, <1>2 DEF Spent
<1>17. PoolKept'
  <2> SUFFICES ASSUME NEW v \in Workers, Working(v)'
               PROVE  Cardinality(pool'[v]) + booting'[v]
                        \in PoolSize - (Budget["boot"] - left'["boot"]) .. PoolSize
    BY DEF PoolKept
  <2>1. Cardinality(pool[v]) + booting[v]
          \in PoolSize - (Budget["boot"] - left["boot"]) .. PoolSize
    BY <1>0, <1>2 DEF PoolKept, Working
  <2>2. Cardinality(pool'[v]) + booting'[v] = Cardinality(pool[v]) + booting[v]
    BY <1>0, <1>1, <1>5, <1>10, Finite DEF TypeOK
  <2> QED BY <2>1, <2>2, <1>2
<1>18. CleanedUp'
  BY <1>0, <1>2 DEF CleanedUp
<1> QED BY <1>12, <1>14, <1>15, <1>16, <1>17, <1>18 DEF PoolInv

LEMMA ClaimColdKeeps ==
  ASSUME PoolInv, NEW r \in Runs, NEW w \in Workers, ClaimCold(r, w)
  PROVE  PoolInv'
<1>0. TypeOK /\ Placed /\ Counted /\ Spent /\ PoolKept /\ CleanedUp
  BY DEF PoolInv
<1>1. PICK new \in Unused :
        /\ Boot(w, "claim", {new})
        /\ run' = [run EXCEPT ![r] = [at |-> "cold", w |-> w, box |-> new]]
  BY DEF ClaimCold
<1>2. /\ Working(w)
      /\ UNCHANGED <<up, pool, booting, proc, spared, left>>
  BY DEF ClaimCold
<1>3. run[r] = Ready
  <2>1. RunPlaced(r) /\ run[r].at = "ready"
    BY <1>0 DEF Placed, ClaimCold
  <2> QED BY <2>1 DEF RunPlaced
<1>4. /\ new \in Boxes
      /\ Held(new) = {}
      /\ \A q \in Runs : run[q].box # new
      /\ \A v \in Workers : new \notin pool[v]
      /\ ~Pending(new)
  BY DEF Unused, Held
<1>5. /\ call' \in [Boxes -> Calls \cup {NoCall}]
      /\ \A v \in Workers : \A y : CallsOf(v, y)' = IF v = w /\ y = "claim"
                                                    THEN CallsOf(v, y) \cup {new}
                                                    ELSE CallsOf(v, y)
      /\ \A c \in Boxes : Pending(c)' <=> (Pending(c) \/ c = new)
      /\ \A c \in Boxes : c # new => call'[c] = call[c]
      /\ call'[new] = [w |-> w, why |-> "claim", at |-> "asked"]
  BY <1>0, <1>1, BootingOne
<1>6. /\ \A c \in Boxes : Held(c)' = IF c = new THEN {r} ELSE Held(c)
      /\ \A q \in Runs : q # r => run'[q] = run[q]
      /\ run'[r] = [at |-> "cold", w |-> w, box |-> new]
  BY <1>0, <1>1, <1>3, <1>4, NoneApart DEF TypeOK, Held, Ready
<1>7. TypeOK'
  BY <1>0, <1>1, <1>2, <1>4, <1>5 DEF TypeOK, RunStates
<1>8. Placed'
  <2>1. RunPlaced(r)'
    BY <1>2, <1>4, <1>5, <1>6 DEF RunPlaced
  <2>2. ASSUME NEW q \in Runs, q # r PROVE RunPlaced(q)'
    <3>1. RunPlaced(q) /\ run'[q] = run[q]
      BY <1>0, <1>6, <2>2 DEF Placed
    <3> QED BY <3>1, <1>2, <1>4, <1>5, <1>6 DEF RunPlaced, Ready
  <2>3. ASSUME NEW v \in Workers PROVE WarmPlaced(v)'
    <3>1. WarmPlaced(v) /\ pool[v] \subseteq Boxes
      BY <1>0 DEF Placed, TypeOK
    <3> QED BY <3>1, <1>2, <1>4, <1>5 DEF WarmPlaced
  <2> QED BY <2>1, <2>2, <2>3 DEF Placed
<1>9. Counted'
  <2> SUFFICES ASSUME NEW v \in Workers
               PROVE  BootsCounted(v)' /\ InitCounted(v)' /\ NothingLeft(v)'
    BY DEF Counted
  <2>1. BootsCounted(v) /\ InitCounted(v) /\ NothingLeft(v)
    BY <1>0 DEF Counted
  <2>2. /\ \A c \in Boxes : call'[c].w = v => call[c].w = v \/ Working(v)
        /\ \A q \in Runs : run'[q].w = v => run[q].w = v \/ Working(v)
    BY <1>2, <1>5, <1>6
  <2>3. /\ CallsOf(v, "refill")' = CallsOf(v, "refill")
        /\ CallsOf(v, "init")' = CallsOf(v, "init")
    BY <1>5
  <2> QED BY <1>2, <2>1, <2>2, <2>3, CountedElsewhere
<1>10. Spent' /\ PoolKept' /\ CleanedUp'
  BY <1>0, <1>2 DEF Spent, PoolKept, Working, CleanedUp
<1> QED BY <1>7, <1>8, <1>9, <1>10 DEF PoolInv
-----------------------------------------------------------------------------
(* The end of a refill. *)

\* One refill less, and one number less.
LEMMA RefillOver ==
  ASSUME TypeOK, Counted, NEW b \in Boxes, NEW w \in Workers,
         call[b].w = w, call[b].why = "refill",
         call' = [call EXCEPT ![b] = NoCall],
         booting' = [booting EXCEPT ![w] = @ - 1],
         UNCHANGED <<run, proc>>
  PROVE  /\ booting' \in [Workers -> Nat]
         /\ \A v \in Workers : BootsCounted(v)'
         /\ proc[w] \in {"up", "leave"}
         /\ \A v \in Workers : CallsOf(v, "init")' = CallsOf(v, "init")
         /\ \A v \in Workers : \A c \in Boxes : call'[c].w = v => call[c].w = v
<1>1. /\ \A v \in Workers : \A y : CallsOf(v, y)' = CallsOf(v, y) \ {b}
      /\ \A v \in Workers : \A y : v # w \/ y # "refill" => CallsOf(v, y)' = CallsOf(v, y)
      /\ \A c \in Boxes : c # b => call'[c] = call[c]
      /\ call'[b] = NoCall
  <2>1. call[b].w = w /\ call[b].why = "refill" /\ call' = [call EXCEPT ![b] = NoCall]
    OBVIOUS
  <2>2. /\ \A v \in Workers : \A y : CallsOf(v, y)' = CallsOf(v, y) \ {b}
        /\ \A v \in Workers : \A y : v # call[b].w \/ y # call[b].why =>
             CallsOf(v, y)' = CallsOf(v, y)
        /\ \A c \in Boxes : c # b => call'[c] = call[c]
        /\ call'[b] = NoCall
    BY <2>1, Over
  <2> QED BY <2>1, <2>2
<1>2. b \in CallsOf(w, "refill")
  BY DEF CallsOf
<1>3. /\ Cardinality(CallsOf(w, "refill")') = Cardinality(CallsOf(w, "refill")) - 1
      /\ Cardinality(CallsOf(w, "refill")) \in Nat
      /\ Cardinality(CallsOf(w, "refill")') \in Nat
  <2>1. IsFiniteSet(CallsOf(w, "refill")) /\ Cardinality(CallsOf(w, "refill")) \in Nat
    BY Finite
  <2>2. /\ IsFiniteSet(CallsOf(w, "refill") \ {b})
        /\ Cardinality(CallsOf(w, "refill") \ {b}) = Cardinality(CallsOf(w, "refill")) - 1
    BY <2>1, <1>2, FS_RemoveElement
  <2>3. Cardinality(CallsOf(w, "refill") \ {b}) \in Nat
    BY <2>2, FS_CardinalityType
  <2>4. CallsOf(w, "refill")' = CallsOf(w, "refill") \ {b}
    BY <1>1
  <2> QED BY <2>1, <2>2, <2>3, <2>4
<1>4. booting[w] = Cardinality(CallsOf(w, "refill"))
  BY DEF Counted, BootsCounted
<1>5. booting' \in [Workers -> Nat]
  BY <1>3, <1>4 DEF TypeOK
<1>6. ASSUME NEW v \in Workers PROVE BootsCounted(v)'
  <2>1. CASE v = w
    BY <2>1, <1>3, <1>4 DEF BootsCounted, TypeOK
  <2>2. CASE v # w
    BY <2>2, <1>1 DEF Counted, BootsCounted, TypeOK
  <2> QED BY <2>1, <2>2
<1>7. proc[w] \in {"up", "leave"}
  <2>1. booting[w] # 0
    BY <1>3, <1>4
  <2> QED BY <2>1 DEF Counted, InitCounted, NothingLeft, TypeOK, Phases
<1>8. \A v \in Workers : \A c \in Boxes : call'[c].w = v => call[c].w = v
  BY <1>1, NoneApart DEF NoCall
<1> QED BY <1>1, <1>5, <1>6, <1>7, <1>8

LEMMA RefilledKeeps ==
  ASSUME PoolInv, NEW b \in Boxes, Refilled(b)
  PROVE  PoolInv'
<1>0. TypeOK /\ Placed /\ Counted /\ Spent /\ PoolKept /\ CleanedUp
  BY DEF PoolInv
<1>w. PICK w \in Workers : w = call[b].w
  BY <1>0, CallShape DEF Refilled
<1>1. /\ call[b].w = w /\ call[b].why = "refill" /\ Pending(b)
      /\ pool' = [pool EXCEPT ![w] = @ \cup {b}]
      /\ booting' = [booting EXCEPT ![w] = @ - 1]
      /\ call' = [call EXCEPT ![b] = NoCall]
      /\ UNCHANGED <<up, run, proc, spared, left>>
  BY <1>0, <1>w, CallShape DEF Refilled
<1>2. /\ call' \in [Boxes -> Calls \cup {NoCall}]
      /\ \A c \in Boxes : Pending(c)' <=> Pending(c) /\ c # b
      /\ \A c \in Boxes : c # b => call'[c] = call[c]
  BY <1>0, <1>1, Over
<1>3. /\ booting' \in [Workers -> Nat]
      /\ \A v \in Workers : BootsCounted(v)'
      /\ proc[w] \in {"up", "leave"}
      /\ \A v \in Workers : CallsOf(v, "init")' = CallsOf(v, "init")
      /\ \A v \in Workers : \A c \in Boxes : call'[c].w = v => call[c].w = v
  BY <1>0, <1>1, RefillOver
<1>4. \A v \in Workers : b \notin pool[v]
  BY <1>0, <1>1 DEF Placed, WarmPlaced
<1>5. \A r \in Runs : run[r].box # b
  <2> SUFFICES ASSUME NEW r \in Runs, run[r].box = b PROVE FALSE
    OBVIOUS
  <2>1. RunPlaced(r)
    BY <1>0 DEF Placed
  <2> QED BY <2>1, <1>0, <1>1, NoneApart DEF RunPlaced, Ready, TypeOK, RunStates
<1>6. TypeOK'
  BY <1>0, <1>1, <1>2, <1>3 DEF TypeOK
<1>7. Placed'
  <2>1. \A c \in Boxes : Held(c)' = Held(c)
    BY <1>1 DEF Held
  <2>2. ASSUME NEW r \in Runs PROVE RunPlaced(r)'
    <3>1. RunPlaced(r)
      BY <1>0 DEF Placed
    <3> QED BY <3>1, <1>0, <1>1, <1>2, <1>5, <2>1 DEF RunPlaced, Ready, TypeOK
  <2>3. ASSUME NEW v \in Workers PROVE WarmPlaced(v)'
    <3>1. WarmPlaced(v) /\ pool[v] \subseteq Boxes
      BY <1>0 DEF Placed, TypeOK
    <3> QED BY <3>1, <1>0, <1>1, <1>2, <1>4 DEF WarmPlaced, TypeOK
  <2> QED BY <2>2, <2>3 DEF Placed
<1>8. Counted'
  <2> SUFFICES ASSUME NEW v \in Workers PROVE InitCounted(v)' /\ NothingLeft(v)'
    BY <1>3 DEF Counted
  <2>0. InitCounted(v) /\ NothingLeft(v)
    BY <1>0 DEF Counted
  <2>1. CASE v = w
    BY <2>0, <2>1, <1>1, <1>3 DEF InitCounted, NothingLeft
  <2>2. CASE v # w
    <3>1. pool'[v] = pool[v] /\ booting'[v] = booting[v]
      BY <2>2, <1>0, <1>1 DEF TypeOK
    <3> QED BY <2>0, <3>1, <1>1, <1>3 DEF InitCounted, NothingLeft
  <2> QED BY <2>1, <2>2
<1>9. Spent' /\ CleanedUp'
  BY <1>0, <1>1 DEF Spent, CleanedUp
<1>10. PoolKept'
  <2> SUFFICES ASSUME NEW v \in Workers, Working(v)
               PROVE  Cardinality(pool'[v]) + booting'[v]
                        = Cardinality(pool[v]) + booting[v]
    BY <1>0, <1>1 DEF PoolKept, Working
  <2>1. Cardinality(pool[w] \cup {b}) = Cardinality(pool[w]) + 1
    BY <1>0, <1>4, Finite, FS_AddElement
  <2> QED BY <2>1, <1>0, <1>1, Finite DEF TypeOK
<1> QED BY <1>6, <1>7, <1>8, <1>9, <1>10 DEF PoolInv

LEMMA RefillFailsKeeps ==
  ASSUME PoolInv, NEW b \in Boxes, RefillFails(b)
  PROVE  PoolInv'
<1>0. TypeOK /\ Placed /\ Counted /\ Spent /\ PoolKept /\ CleanedUp
  BY DEF PoolInv
<1>w. PICK w \in Workers : w = call[b].w
  BY <1>0, CallShape DEF RefillFails
<1>1. /\ call[b].w = w /\ call[b].why = "refill" /\ Pending(b)
      /\ booting' = [booting EXCEPT ![w] = @ - 1]
      /\ call' = [call EXCEPT ![b] = NoCall]
      /\ UNCHANGED <<up, pool, run, proc, spared>>
  BY <1>0, <1>w, CallShape DEF RefillFails
<1>2. left' \in [FaultKinds -> Nat] /\ left'["boot"] = left["boot"] - 1
  BY <1>0 DEF RefillFails, Spend, TypeOK, FaultKinds
<1>3. /\ call' \in [Boxes -> Calls \cup {NoCall}]
      /\ \A c \in Boxes : Pending(c)' <=> Pending(c) /\ c # b
      /\ \A c \in Boxes : c # b => call'[c] = call[c]
  BY <1>0, <1>1, Over
<1>4. /\ booting' \in [Workers -> Nat]
      /\ \A v \in Workers : BootsCounted(v)'
      /\ proc[w] \in {"up", "leave"}
      /\ \A v \in Workers : CallsOf(v, "init")' = CallsOf(v, "init")
      /\ \A v \in Workers : \A c \in Boxes : call'[c].w = v => call[c].w = v
  BY <1>0, <1>1, RefillOver
<1>5. \A r \in Runs : run[r].box # b
  <2> SUFFICES ASSUME NEW r \in Runs, run[r].box = b PROVE FALSE
    OBVIOUS
  <2>1. RunPlaced(r)
    BY <1>0 DEF Placed
  <2> QED BY <2>1, <1>0, <1>1, NoneApart DEF RunPlaced, Ready, TypeOK, RunStates
<1>6. TypeOK'
  BY <1>0, <1>1, <1>2, <1>3, <1>4 DEF TypeOK
<1>7. Placed'
  <2>1. \A c \in Boxes : Held(c)' = Held(c)
    BY <1>1 DEF Held
  <2>2. ASSUME NEW r \in Runs PROVE RunPlaced(r)'
    <3>1. RunPlaced(r)
      BY <1>0 DEF Placed
    <3> QED BY <3>1, <1>1, <1>3, <1>5, <2>1 DEF RunPlaced, Ready
  <2>3. ASSUME NEW v \in Workers PROVE WarmPlaced(v)'
    <3>1. WarmPlaced(v) /\ pool[v] \subseteq Boxes
      BY <1>0 DEF Placed, TypeOK
    <3> QED BY <3>1, <1>1, <1>3 DEF WarmPlaced
  <2> QED BY <2>2, <2>3 DEF Placed
<1>8. Counted'
  <2> SUFFICES ASSUME NEW v \in Workers PROVE InitCounted(v)' /\ NothingLeft(v)'
    BY <1>4 DEF Counted
  <2>0. InitCounted(v) /\ NothingLeft(v)
    BY <1>0 DEF Counted
  <2>1. CASE v = w
    BY <2>0, <2>1, <1>1, <1>4 DEF InitCounted, NothingLeft
  <2>2. CASE v # w
    <3>1. booting'[v] = booting[v]
      BY <2>2, <1>0, <1>1 DEF TypeOK
    <3> QED BY <2>0, <3>1, <1>1, <1>4 DEF InitCounted, NothingLeft
  <2> QED BY <2>1, <2>2
<1>9. Spent' /\ CleanedUp'
  BY <1>0, <1>1, <1>2, PoolAssumption DEF Spent, CleanedUp, TypeOK, FaultKinds
<1>10. PoolKept'
  <2> SUFFICES ASSUME NEW v \in Workers, Working(v)
               PROVE  Cardinality(pool[v]) + booting'[v]
                        \in PoolSize - (Budget["boot"] - left'["boot"]) .. PoolSize
    BY <1>1 DEF PoolKept, Working
  <2>1. Cardinality(pool[v]) + booting[v]
          \in PoolSize - (Budget["boot"] - left["boot"]) .. PoolSize
    BY <1>0 DEF PoolKept
  <2>2. booting'[v] \in {booting[v], booting[v] - 1} /\ Cardinality(pool[v]) \in Nat
    BY <1>0, <1>1, Finite DEF TypeOK
  <2>3. /\ Budget["boot"] \in Nat /\ left["boot"] \in Nat /\ PoolSize \in Nat
        /\ booting[v] \in Nat
    BY <1>0, PoolAssumption DEF TypeOK, FaultKinds
  <2> QED BY <2>1, <2>2, <2>3, <1>2
<1> QED BY <1>6, <1>7, <1>8, <1>9, <1>10 DEF PoolInv
-----------------------------------------------------------------------------
(* The end of a claim, and of a run. *)

\* Run r lets go of what it has.
LEMMA LetsGo ==
  ASSUME TypeOK, Placed, NEW r \in Runs, run[r].at # "ready",
         run' = [run EXCEPT ![r] = Ready]
  PROVE  /\ run[r].box \in Boxes /\ run[r].w \in Workers
         /\ run' \in [Runs -> RunStates]
         /\ run'[r] = Ready
         /\ \A q \in Runs : q # r => run'[q] = run[q] /\ run[q].box # run[r].box
         /\ \A c \in Boxes : c # run[r].box => Held(c)' = Held(c)
         /\ \A v \in Workers : run[r].box \notin pool[v]
<1>1. RunPlaced(r)
  BY DEF Placed
<1>2. run[r].box \in Boxes /\ Held(run[r].box) = {r} /\ run[r].w \in Workers
  BY <1>1 DEF RunPlaced, Ready
<1>3. \A v \in Workers : run[r].box \notin pool[v]
  BY <1>1 DEF RunPlaced, Ready
<1>4. /\ run' \in [Runs -> RunStates]
      /\ run'[r] = Ready
      /\ \A q \in Runs : q # r => run'[q] = run[q]
  BY DEF TypeOK, RunStates, Ready
<1>5. \A q \in Runs : q # r => run[q].box # run[r].box
  BY <1>2 DEF Held
<1>6. ASSUME NEW c \in Boxes, c # run[r].box PROVE Held(c)' = Held(c)
  BY <1>4, <1>6, NoneApart DEF Held, Ready
<1> QED BY <1>2, <1>3, <1>4, <1>5, <1>6

\* A claim's call is in neither set that is counted.
LEMMA ClaimOver ==
  ASSUME TypeOK, Counted, NEW b \in Boxes, call[b].why = "claim",
         call' = [call EXCEPT ![b] = NoCall],
         UNCHANGED <<pool, booting, proc>>,
         \A r \in Runs, v \in Workers : run'[r].w = v => run[r].w = v
  PROVE  Counted'
<1>1. /\ \A v \in Workers : \A y : v # call[b].w \/ y # "claim" => CallsOf(v, y)' = CallsOf(v, y)
      /\ \A c \in Boxes : c # b => call'[c] = call[c]
      /\ call'[b] = NoCall
  <2>1. /\ \A v \in Workers : \A y : v # call[b].w \/ y # call[b].why =>
             CallsOf(v, y)' = CallsOf(v, y)
        /\ \A c \in Boxes : c # b => call'[c] = call[c]
        /\ call'[b] = NoCall
    BY Over
  <2> QED BY <2>1
<1>2. \A v \in Workers : \A c \in Boxes : call'[c].w = v => call[c].w = v
  BY <1>1, NoneApart DEF NoCall
<1>3. ASSUME NEW v \in Workers PROVE BootsCounted(v)' /\ InitCounted(v)' /\ NothingLeft(v)'
  <2>1. BootsCounted(v) /\ InitCounted(v) /\ NothingLeft(v)
    BY DEF Counted
  <2>2. /\ CallsOf(v, "refill")' = CallsOf(v, "refill")
        /\ CallsOf(v, "init")' = CallsOf(v, "init")
    BY <1>1
  <2> QED BY <2>1, <2>2, <1>2, CountedElsewhere
<1> QED BY <1>3 DEF Counted

LEMMA ColdReadyKeeps ==
  ASSUME PoolInv, NEW r \in Runs, ColdReady(r)
  PROVE  PoolInv'
<1>0. TypeOK /\ Placed /\ Counted /\ Spent /\ PoolKept /\ CleanedUp
  BY DEF PoolInv
<1>1. RunPlaced(r)
  BY <1>0 DEF Placed
<1>b. PICK b \in Boxes : b = run[r].box
  BY <1>1 DEF RunPlaced, Ready, ColdReady
<1>2. /\ run[r].box = b /\ run[r].at = "cold"
      /\ run' = [run EXCEPT ![r].at = "held"]
      /\ call' = [call EXCEPT ![b] = NoCall]
      /\ UNCHANGED <<up, pool, booting, proc, spared, left>>
  BY <1>b DEF ColdReady
<1>3. /\ call[b].why = "claim" /\ Held(b) = {r} /\ run[r].w \in Workers
      /\ \A v \in Workers : b \notin pool[v]
  BY <1>1, <1>2 DEF RunPlaced, Ready
<1>4. /\ call' \in [Boxes -> Calls \cup {NoCall}]
      /\ \A c \in Boxes : Pending(c)' <=> Pending(c) /\ c # b
      /\ \A c \in Boxes : c # b => call'[c] = call[c]
  BY <1>0, <1>2, Over
<1>5. /\ run' \in [Runs -> RunStates]
      /\ \A q \in Runs : run'[q].box = run[q].box /\ run'[q].w = run[q].w
      /\ \A q \in Runs : q # r => run'[q] = run[q]
      /\ run'[r].at = "held"
  BY <1>0, <1>2 DEF TypeOK, RunStates
<1>6. TypeOK'
  BY <1>0, <1>2, <1>4, <1>5 DEF TypeOK
<1>7. Placed'
  <2>1. \A c \in Boxes : Held(c)' = Held(c)
    BY <1>5 DEF Held
  <2>2. RunPlaced(r)'
    BY <1>2, <1>3, <1>4, <1>5, <2>1 DEF RunPlaced
  <2>3. ASSUME NEW q \in Runs, q # r PROVE RunPlaced(q)'
    <3>1. RunPlaced(q) /\ run[q].box # b
      BY <1>0, <1>3, <2>3 DEF Placed, Held
    <3> QED BY <3>1, <1>2, <1>4, <1>5, <2>1, <2>3 DEF RunPlaced, Ready
  <2>4. ASSUME NEW v \in Workers PROVE WarmPlaced(v)'
    <3>1. WarmPlaced(v) /\ pool[v] \subseteq Boxes
      BY <1>0 DEF Placed, TypeOK
    <3> QED BY <3>1, <1>2, <1>4 DEF WarmPlaced
  <2> QED BY <2>2, <2>3, <2>4 DEF Placed
<1>8. Counted'
  BY <1>0, <1>2, <1>3, <1>5, ClaimOver
<1>9. Spent' /\ PoolKept' /\ CleanedUp'
  BY <1>0, <1>2 DEF Spent, PoolKept, Working, CleanedUp
<1> QED BY <1>6, <1>7, <1>8, <1>9 DEF PoolInv

LEMMA ColdFailsKeeps ==
  ASSUME PoolInv, NEW r \in Runs, ColdFails(r)
  PROVE  PoolInv'
<1>0. TypeOK /\ Placed /\ Counted /\ Spent /\ PoolKept /\ CleanedUp
  BY DEF PoolInv
<1>1. RunPlaced(r)
  BY <1>0 DEF Placed
<1>b. PICK b \in Boxes : b = run[r].box
  BY <1>1 DEF RunPlaced, Ready, ColdFails
<1>2. /\ run[r].box = b /\ run[r].at = "cold"
      /\ run' = [run EXCEPT ![r] = Ready]
      /\ call' = [call EXCEPT ![b] = NoCall]
      /\ UNCHANGED <<up, pool, booting, proc, spared>>
  BY <1>b DEF ColdFails
<1>3. left' \in [FaultKinds -> Nat] /\ left'["boot"] = left["boot"] - 1
  BY <1>0 DEF ColdFails, Spend, TypeOK, FaultKinds
<1>4. call[b].why = "claim"
  BY <1>1, <1>2 DEF RunPlaced, Ready
<1>5. /\ run' \in [Runs -> RunStates]
      /\ run'[r] = Ready
      /\ \A q \in Runs : q # r => run'[q] = run[q] /\ run[q].box # b
      /\ \A c \in Boxes : c # b => Held(c)' = Held(c)
  BY <1>0, <1>2, LetsGo
<1>6. /\ call' \in [Boxes -> Calls \cup {NoCall}]
      /\ \A c \in Boxes : Pending(c)' <=> Pending(c) /\ c # b
      /\ \A c \in Boxes : c # b => call'[c] = call[c]
  BY <1>0, <1>2, Over
<1>7. TypeOK'
  BY <1>0, <1>2, <1>3, <1>5, <1>6 DEF TypeOK
<1>8. Placed'
  <2>1. RunPlaced(r)'
    BY <1>5 DEF RunPlaced, Ready
  <2>2. ASSUME NEW q \in Runs, q # r PROVE RunPlaced(q)'
    <3>1. RunPlaced(q)
      BY <1>0 DEF Placed
    <3> QED BY <3>1, <1>2, <1>5, <1>6, <2>2 DEF RunPlaced, Ready
  <2>3. ASSUME NEW v \in Workers PROVE WarmPlaced(v)'
    <3>1. WarmPlaced(v) /\ pool[v] \subseteq Boxes
      BY <1>0 DEF Placed, TypeOK
    <3> QED BY <3>1, <1>2, <1>6 DEF WarmPlaced
  <2> QED BY <2>1, <2>2, <2>3 DEF Placed
<1>9. Counted'
  <2>1. \A q \in Runs, v \in Workers : run'[q].w = v => run[q].w = v
    BY <1>5, NoneApart DEF Ready
  <2> QED BY <2>1, <1>0, <1>2, <1>4, ClaimOver
<1>10. Spent' /\ CleanedUp'
  BY <1>0, <1>2, <1>3, PoolAssumption DEF Spent, CleanedUp, TypeOK, FaultKinds
<1>11. PoolKept'
  <2>1. /\ Budget["boot"] \in Nat /\ left["boot"] \in Nat /\ PoolSize \in Nat
        /\ \A v \in Workers : Cardinality(pool[v]) \in Nat /\ booting[v] \in Nat
    BY <1>0, Finite, PoolAssumption DEF TypeOK, FaultKinds
  <2> QED BY <2>1, <1>0, <1>2, <1>3 DEF PoolKept, Working
<1> QED BY <1>7, <1>8, <1>9, <1>10, <1>11 DEF PoolInv

\* Released, or given up with its container still there.
LEMMA ReleaseKeeps ==
  ASSUME PoolInv, NEW r \in Runs, Release(r) \/ ReleaseFails(r)
  PROVE  PoolInv'
<1>0. TypeOK /\ Placed /\ Counted /\ Spent /\ PoolKept /\ CleanedUp
  BY DEF PoolInv
<1>1. /\ run[r].at = "held"
      /\ run' = [run EXCEPT ![r] = Ready]
      /\ up' \subseteq up
      /\ UNCHANGED <<call, pool, booting, proc, spared>>
  BY DEF Release, ReleaseFails
<1>2. left' \in [FaultKinds -> Nat] /\ left'["boot"] = left["boot"]
  BY <1>0 DEF Release, ReleaseFails, Spend, TypeOK, FaultKinds
<1>3. /\ run' \in [Runs -> RunStates]
      /\ run'[r] = Ready
      /\ \A q \in Runs : q # r => run'[q] = run[q] /\ run[q].box # run[r].box
      /\ \A c \in Boxes : c # run[r].box => Held(c)' = Held(c)
  BY <1>0, <1>1, LetsGo
<1>4. TypeOK'
  BY <1>0, <1>1, <1>2, <1>3 DEF TypeOK
<1>5. Placed'
  <2>1. RunPlaced(r)'
    BY <1>3 DEF RunPlaced, Ready
  <2>2. ASSUME NEW q \in Runs, q # r PROVE RunPlaced(q)'
    <3>1. RunPlaced(q)
      BY <1>0 DEF Placed
    <3> QED BY <3>1, <1>1, <1>3, <2>2 DEF RunPlaced, Ready, Pending
  <2>3. ASSUME NEW v \in Workers PROVE WarmPlaced(v)'
    <3>1. WarmPlaced(v)
      BY <1>0 DEF Placed
    <3> QED BY <3>1, <1>1 DEF WarmPlaced, Pending
  <2> QED BY <2>1, <2>2, <2>3 DEF Placed
<1>6. Counted'
  <2>1. \A q \in Runs, v \in Workers : run'[q].w = v => run[q].w = v
    BY <1>3, NoneApart DEF Ready
  <2>2. \A v, y : CallsOf(v, y)' = CallsOf(v, y)
    BY <1>1 DEF CallsOf
  <2>3. ASSUME NEW v \in Workers PROVE BootsCounted(v)' /\ InitCounted(v)' /\ NothingLeft(v)'
    BY <2>1, <2>2, <1>0, <1>1 DEF Counted, BootsCounted, InitCounted, NothingLeft
  <2> QED BY <2>3 DEF Counted
<1>7. Spent' /\ PoolKept' /\ CleanedUp'
  BY <1>0, <1>1, <1>2 DEF Spent, PoolKept, Working, CleanedUp
<1> QED BY <1>4, <1>5, <1>6, <1>7 DEF PoolInv
-----------------------------------------------------------------------------
(* The end of a worker. *)

\* A worker that goes, whatever it goes to, and whatever docker still does.
LEMMA GoneKeeps ==
  ASSUME TypeOK, Placed, Counted, NEW w \in Workers,
         NEW phase \in {"down", "stopped"}, Gone(w, phase)
  PROVE  /\ up' \in SUBSET Boxes /\ spared' \in SUBSET Boxes
         /\ call' \in [Boxes -> Calls \cup {NoCall}]
         /\ pool' \in [Workers -> SUBSET Boxes]
         /\ booting' \in [Workers -> Nat]
         /\ run' \in [Runs -> RunStates]
         /\ proc' \in [Workers -> Phases]
         /\ Placed'
         /\ Counted'
         /\ \A v \in Workers \ {w} : /\ pool'[v] = pool[v] /\ booting'[v] = booting[v]
                                     /\ proc'[v] = proc[v]
         /\ proc'[w] = phase
<1>1. PICK done \in SUBSET {b \in Boxes : call[b].w = w /\ call[b].at = "asked"} :
        up' = up \cup done /\ spared' = Later(w, done)
  BY DEF Gone
<1>2. /\ call' = [b \in Boxes |-> IF call[b].w = w THEN NoCall ELSE call[b]]
      /\ pool' = [pool EXCEPT ![w] = {}]
      /\ booting' = [booting EXCEPT ![w] = 0]
      /\ run' = [r \in Runs |-> IF run[r].w = w THEN Ready ELSE run[r]]
      /\ proc' = [proc EXCEPT ![w] = phase]
  BY DEF Gone
<1>3. /\ call' \in [Boxes -> Calls \cup {NoCall}]
      /\ \A v \in Workers : \A y : CallsOf(v, y)' = IF v = w THEN {} ELSE CallsOf(v, y)
      /\ \A c \in Boxes : Pending(c)' <=> Pending(c) /\ call[c].w # w
      /\ \A c \in Boxes : call[c].w # w => call'[c] = call[c]
      /\ \A c \in Boxes : call'[c].w # w
  BY <1>2, GoneCalls
<1>4. up' \in SUBSET Boxes /\ spared' \in SUBSET Boxes
  BY <1>1 DEF TypeOK, Later
<1>5. /\ pool' \in [Workers -> SUBSET Boxes]
      /\ booting' \in [Workers -> Nat]
      /\ proc' \in [Workers -> Phases]
  BY <1>2 DEF TypeOK, Phases
<1>6. /\ run' \in [Runs -> RunStates]
      /\ \A r \in Runs : run'[r] = IF run[r].w = w THEN Ready ELSE run[r]
  BY <1>2 DEF TypeOK, RunStates, Ready
<1>7. \A v \in Workers : pool'[v] \subseteq pool[v]
  BY <1>2 DEF TypeOK
<1>8. Placed'
  <2>1. ASSUME NEW r \in Runs PROVE RunPlaced(r)'
    <3>1. RunPlaced(r)
      BY DEF Placed
    <3>2. CASE run'[r] = Ready
      BY <3>2 DEF RunPlaced, Ready
    <3>3. CASE run'[r] = run[r] /\ run[r] # Ready
      <4>1. Held(run[r].box)' = {r}
        BY <3>1, <3>3, <1>6, NoneApart DEF RunPlaced, Held, Ready
      <4>2. run[r].at = "cold" => call'[run[r].box] = call[run[r].box]
        BY <3>1, <3>3, <1>3, <1>6 DEF RunPlaced, Ready
      <4> QED BY <3>1, <3>3, <4>1, <4>2, <1>3, <1>7 DEF RunPlaced, Ready
    <3> QED BY <3>2, <3>3, <1>6
  <2>2. ASSUME NEW v \in Workers PROVE WarmPlaced(v)'
    <3>1. WarmPlaced(v) /\ pool[v] \subseteq Boxes
      BY DEF Placed, TypeOK
    <3> QED BY <3>1, <1>3, <1>7 DEF WarmPlaced
  <2> QED BY <2>1, <2>2 DEF Placed
<1>9. ASSUME NEW v \in Workers \ {w}
      PROVE  pool'[v] = pool[v] /\ booting'[v] = booting[v] /\ proc'[v] = proc[v]
  BY <1>2 DEF TypeOK
<1>10. pool'[w] = {} /\ booting'[w] = 0 /\ proc'[w] = phase
  BY <1>2 DEF TypeOK
<1>11. Counted'
  <2>1. ASSUME NEW v \in Workers, v # w
        PROVE  BootsCounted(v)' /\ InitCounted(v)' /\ NothingLeft(v)'
    <3>1. BootsCounted(v) /\ InitCounted(v) /\ NothingLeft(v)
      BY DEF Counted
    <3>2. /\ pool'[v] = pool[v] /\ booting'[v] = booting[v] /\ proc'[v] = proc[v]
          /\ CallsOf(v, "refill")' = CallsOf(v, "refill")
          /\ CallsOf(v, "init")' = CallsOf(v, "init")
      BY <2>1, <1>3, <1>9
    <3>3. /\ \A c \in Boxes : call'[c].w = v => call[c].w = v
          /\ \A q \in Runs : run'[q].w = v => run[q].w = v
      BY <1>2, <1>6, NoneApart DEF NoCall, Ready
    <3> QED BY <3>1, <3>2, <3>3, CountedElsewhere
  <2>2. BootsCounted(w)' /\ InitCounted(w)' /\ NothingLeft(w)'
    <3>1. BootsCounted(w)'
      BY <1>3, <1>10, FS_EmptySet DEF BootsCounted
    <3>2. InitCounted(w)'
      BY <1>3, <1>10 DEF InitCounted
    <3>3. NothingLeft(w)'
      BY <1>3, <1>6, <1>10, NoneApart DEF NothingLeft, Ready
    <3> QED BY <3>1, <3>2, <3>3
  <2> QED BY <2>1, <2>2 DEF Counted
<1> QED BY <1>3, <1>4, <1>5, <1>6, <1>8, <1>9, <1>10, <1>11

\* It takes its own pool with it, and a process that is down ends the stop.
LEMMA EndKeeps ==
  ASSUME PoolInv, NEW w \in Workers,
         \/ \E b \in Boxes : InitFails(b) /\ call[b].w = w
         \/ Crash(w)
         \/ Exit(w)
  PROVE  PoolInv'
<1>0. TypeOK /\ Placed /\ Counted /\ Spent /\ PoolKept /\ CleanedUp
  BY DEF PoolInv
<1>1. PICK phase \in {"down", "stopped"} :
        Gone(w, phase) /\ (phase = "stopped" => proc[w] = "leave")
  BY DEF InitFails, Crash, Exit
<1>2. left' \in [FaultKinds -> Nat] /\ left'["boot"] <= left["boot"]
  BY <1>0 DEF InitFails, Crash, Exit, Spend, TypeOK, FaultKinds
<1>3. /\ up' \in SUBSET Boxes /\ spared' \in SUBSET Boxes
      /\ call' \in [Boxes -> Calls \cup {NoCall}]
      /\ pool' \in [Workers -> SUBSET Boxes]
      /\ booting' \in [Workers -> Nat]
      /\ run' \in [Runs -> RunStates]
      /\ proc' \in [Workers -> Phases]
      /\ Placed'
      /\ Counted'
      /\ \A v \in Workers \ {w} : /\ pool'[v] = pool[v] /\ booting'[v] = booting[v]
                                  /\ proc'[v] = proc[v]
      /\ proc'[w] = phase
  BY <1>0, <1>1, GoneKeeps
<1>4. TypeOK'
  BY <1>2, <1>3 DEF TypeOK
<1>5. /\ Budget["boot"] \in Nat /\ left["boot"] \in Nat /\ left'["boot"] \in Nat
      /\ PoolSize \in Nat
  BY <1>0, <1>2, PoolAssumption DEF TypeOK, FaultKinds
<1>6. Spent'
  BY <1>0, <1>2, <1>5 DEF Spent
<1>7. PoolKept'
  <2> SUFFICES ASSUME NEW v \in Workers, Working(v)'
               PROVE  Cardinality(pool'[v]) + booting'[v]
                        \in PoolSize - (Budget["boot"] - left'["boot"]) .. PoolSize
    BY DEF PoolKept
  <2>1. v # w
    BY <1>3 DEF Working
  <2>2. /\ pool'[v] = pool[v] /\ booting'[v] = booting[v] /\ Working(v)
        /\ Cardinality(pool[v]) \in Nat /\ booting[v] \in Nat
    BY <2>1, <1>0, <1>3, Finite DEF Working, TypeOK
  <2>3. Cardinality(pool[v]) + booting[v]
          \in PoolSize - (Budget["boot"] - left["boot"]) .. PoolSize
    BY <1>0, <2>2 DEF PoolKept
  <2> QED BY <2>2, <2>3, <1>2, <1>5
<1>8. CleanedUp'
  <2> SUFFICES ASSUME \A v \in Workers : proc'[v] \in {"leave", "stopped"}
               PROVE  up' \subseteq spared'
    BY DEF CleanedUp
  <2>1. phase = "stopped" /\ proc[w] = "leave"
    BY <1>1, <1>3
  <2>2. \A v \in Workers : proc[v] \in {"leave", "stopped"}
    BY <2>1, <1>3
  <2>3. up \subseteq spared
    BY <1>0, <2>2 DEF CleanedUp
  <2> QED BY <2>1, <2>3, <1>1 DEF Gone, Later
<1> QED BY <1>3, <1>4, <1>6, <1>7, <1>8 DEF PoolInv

LEMMA ShutdownKeeps ==
  ASSUME PoolInv, NEW w \in Workers, Shutdown(w) \/ ShutdownFails(w)
  PROVE  PoolInv'
<1>0. TypeOK /\ Placed /\ Counted /\ Spent /\ PoolKept /\ CleanedUp
  BY DEF PoolInv
<1>1. /\ proc[w] = "up"
      /\ proc' = [proc EXCEPT ![w] = "leave"]
      /\ UNCHANGED <<call, pool, booting, run>>
  BY DEF Shutdown, ShutdownFails
\* What a clean-up does not remove is spared.
<1>a. /\ up' \in SUBSET Boxes /\ spared' \in SUBSET Boxes
      /\ up' \subseteq spared'
  BY <1>0 DEF Shutdown, ShutdownFails, TypeOK
<1>b. left' \in [FaultKinds -> Nat] /\ left'["boot"] = left["boot"]
  BY <1>0 DEF Shutdown, ShutdownFails, Spend, TypeOK, FaultKinds
<1>2. TypeOK'
  BY <1>0, <1>1, <1>a, <1>b DEF TypeOK, Phases
<1>3. Placed'
  BY <1>0, <1>1 DEF Placed, RunPlaced, WarmPlaced, Held, Pending
<1>4. \A v, y : CallsOf(v, y)' = CallsOf(v, y)
  BY <1>1 DEF CallsOf
<1>5. Counted'
  <2>1. ASSUME NEW v \in Workers PROVE BootsCounted(v)' /\ InitCounted(v)' /\ NothingLeft(v)'
    <3>1. proc'[v] = IF v = w THEN "leave" ELSE proc[v]
      BY <1>0, <1>1 DEF TypeOK
    <3>2. BootsCounted(v) /\ InitCounted(v) /\ NothingLeft(v)
      BY <1>0 DEF Counted
    <3> QED BY <3>1, <3>2, <1>1, <1>4 DEF BootsCounted, InitCounted, NothingLeft
  <2> QED BY <2>1 DEF Counted
<1>6. PoolKept'
  BY <1>0, <1>1, <1>b DEF PoolKept, Working, TypeOK
<1>7. Spent' /\ CleanedUp'
  BY <1>0, <1>a, <1>b DEF Spent, CleanedUp
<1> QED BY <1>2, <1>3, <1>5, <1>6, <1>7 DEF PoolInv

-----------------------------------------------------------------------------
(* Together. *)

LEMMA PoolStep == PoolInv /\ [Next]_vars => PoolInv'
<1> SUFFICES ASSUME PoolInv, [Next]_vars PROVE PoolInv'
  OBVIOUS
<1>1. ASSUME NEW w \in Workers, Start(w) PROVE PoolInv'
  BY <1>1, StartKeeps
<1>2. ASSUME NEW w \in Workers, Shutdown(w) \/ ShutdownFails(w) PROVE PoolInv'
  BY <1>2, ShutdownKeeps
<1>3. ASSUME NEW w \in Workers, Exit(w) \/ Crash(w) PROVE PoolInv'
  BY <1>3, EndKeeps
<1>4. ASSUME NEW b \in Boxes, Boots(b) PROVE PoolInv'
  BY <1>4, DockerRunsKeeps, BootedKeeps, RefilledKeeps DEF Boots
<1>5. ASSUME NEW b \in Boxes, RefillFails(b) PROVE PoolInv'
  BY <1>5, RefillFailsKeeps
<1>6. ASSUME NEW b \in Boxes, InitFails(b) PROVE PoolInv'
  <2>1. PICK w \in Workers : call[b].w = w
    BY <1>6, CallShape DEF PoolInv, InitFails
  <2> QED BY <1>6, <2>1, EndKeeps
<1>7. ASSUME NEW r \in Runs, Claims(r) PROVE PoolInv'
  BY <1>7, ClaimWarmKeeps, ClaimColdKeeps DEF Claims
<1>8. ASSUME NEW r \in Runs, ColdReady(r) \/ ColdFails(r) PROVE PoolInv'
  BY <1>8, ColdReadyKeeps, ColdFailsKeeps
<1>9. ASSUME NEW r \in Runs, Release(r) \/ ReleaseFails(r) PROVE PoolInv'
  BY <1>9, ReleaseKeeps
<1>10. CASE UNCHANGED vars
  <2>1. UNCHANGED <<up, call, pool, booting, run, proc, spared, left>>
    BY <1>10 DEF vars
  <2>2. TypeOK' <=> TypeOK
    BY <2>1 DEF TypeOK
  <2>3. Placed' <=> Placed
    BY <2>1 DEF Placed, RunPlaced, WarmPlaced, Held, Pending
  <2>4. Counted' <=> Counted
    BY <2>1 DEF Counted, BootsCounted, InitCounted, NothingLeft, CallsOf
  <2>5. Spent' /\ PoolKept' /\ CleanedUp' <=> Spent /\ PoolKept /\ CleanedUp
    BY <2>1 DEF Spent, PoolKept, Working, CleanedUp
  <2> QED BY <2>2, <2>3, <2>4, <2>5 DEF PoolInv
<1> QED BY <1>1, <1>2, <1>3, <1>4, <1>5, <1>6, <1>7, <1>8, <1>9, <1>10 DEF Next

LEMMA PoolInit == Init => PoolInv
<1> SUFFICES ASSUME Init PROVE PoolInv
  OBVIOUS
<1>1. TypeOK
  BY PoolAssumption DEF Init, TypeOK, RunStates, Ready, Phases
<1>2. Placed
  BY DEF Init, Placed, RunPlaced, WarmPlaced, Ready
<1>3. \A w \in Workers : \A y : CallsOf(w, y) = {}
  BY NoneApart DEF Init, CallsOf, NoCall
<1>4. Counted
  BY <1>3, FS_EmptySet, NoneApart
     DEF Init, Counted, BootsCounted, InitCounted, NothingLeft, NoCall, Ready
<1>5. Spent /\ PoolKept /\ CleanedUp
  BY PoolAssumption DEF Init, Spent, PoolKept, Working, CleanedUp, FaultKinds
<1> QED BY <1>1, <1>2, <1>4, <1>5 DEF PoolInv

LEMMA PoolInvariant == Spec => []PoolInv
BY PoolInit, PoolStep, PTL DEF Spec

\* The variables keep their types, booting among them: it never counts below
\* zero, although a boot can end in two ways (orchestrator.ts, refill).
THEOREM PoolTypes == Spec => []TypeOK
<1>1. PoolInv => TypeOK
  BY DEF PoolInv
<1> QED BY <1>1, PoolInvariant, PTL

\* A run that has a container has it alone, whatever crashes, fails or is shut
\* down (orchestrator.ts: claim, refill, release).
THEOREM WorkspacePerRun == Spec => []Exclusive
<1>1. PoolInv => Exclusive
  <2> SUFFICES ASSUME PoolInv, NEW r \in Runs, run[r].at = "held"
               PROVE  /\ Held(run[r].box) = {r}
                      /\ ~Pending(run[r].box)
                      /\ \A w \in Workers : run[r].box \notin pool[w]
    BY DEF Exclusive
  <2>1. RunPlaced(r)
    BY DEF PoolInv, Placed
  <2> QED BY <2>1 DEF RunPlaced, Ready
<1> QED BY <1>1, PoolInvariant, PTL

\* The pool and its refills stay at poolSize, less one for each boot that has
\* failed (orchestrator.ts: init, claim, refill).
THEOREM PoolSizeKept == Spec => []PoolKept
<1>1. PoolInv => PoolKept
  BY DEF PoolInv
<1> QED BY <1>1, PoolInvariant, PTL

\* After the last shutdown only containers that came up behind their worker's
\* clean-up are left, and those a failed one did not remove if none has worked
\* since (orchestrator.ts: shutdown).
THEOREM NothingLeftRunning == Spec => []CleanStop
<1>1. PoolInv => CleanStop
  BY DEF PoolInv, CleanedUp, CleanStop
<1> QED BY <1>1, PoolInvariant, PTL

\* A container in a pool or with a run goes away only by that run's release or
\* by a worker's shutdown (orchestrator.ts: release, shutdown).
THEOREM NothingRemovedInUse == Spec => RemovedInUse
<1>1. PoolInv /\ [Next]_vars =>
        [GoesAway \/ \E w \in Workers : proc[w] = "up" /\ proc'[w] = "leave"]_vars
  <2> SUFFICES ASSUME PoolInv, Next
               PROVE  GoesAway \/ \E w \in Workers : proc[w] = "up" /\ proc'[w] = "leave"
    OBVIOUS
  <2>1. ASSUME NEW w \in Workers, Shutdown(w) \/ ShutdownFails(w)
        PROVE  \E v \in Workers : proc[v] = "up" /\ proc'[v] = "leave"
    BY <2>1 DEF Shutdown, ShutdownFails, PoolInv, TypeOK
  <2>2. ASSUME NEW r \in Runs, Release(r) PROVE GoesAway
    <3>1. /\ up' = up \ {run[r].box} /\ run[r].at = "held"
          /\ run' = [run EXCEPT ![r] = Ready] /\ pool' = pool
      BY <2>2 DEF Release
    <3>2. /\ Held(run[r].box) = {r}
          /\ \A w \in Workers : run[r].box \notin pool[w]
      BY <3>1 DEF PoolInv, Placed, RunPlaced, Ready
    <3>3. Held(run[r].box) # {}
      BY <3>2
    <3>4. \A q \in Runs : run'[q].box # run[r].box
      <4>1. run[r].box # None
        BY <3>1, NoneApart DEF PoolInv, Placed, RunPlaced, Ready
      <4> QED BY <3>1, <3>2, <4>1 DEF Held, Ready, PoolInv, TypeOK
    <3>5. \A b \in up \ up' : b = run[r].box
      BY <3>1
    <3>6. ASSUME NEW b \in up \ up' PROVE Held(b) # {} /\ ~Owned(b)'
      <4>1. b = run[r].box
        BY <3>5
      <4>2. \A q \in Runs : run'[q].box # b
        BY <3>4, <4>1
      <4>3. \A w \in Workers : b \notin pool'[w]
        BY <3>1, <3>2, <4>1
      <4> QED BY <3>3, <4>1, <4>2, <4>3 DEF Owned, Held
    <3> QED BY <3>6 DEF GoesAway
  <2>3. ASSUME up \subseteq up' PROVE GoesAway
    BY <2>3 DEF GoesAway
  <2>4. ASSUME NEW w \in Workers, Start(w) \/ Exit(w) \/ Crash(w) PROVE up \subseteq up'
    BY <2>4 DEF Start, Exit, Crash, Gone
  <2>5. ASSUME NEW b \in Boxes, Boots(b) \/ RefillFails(b) \/ InitFails(b)
        PROVE  up \subseteq up'
    BY <2>5 DEF Boots, DockerRuns, Booted, Refilled, RefillFails, InitFails, Gone
  <2>6. ASSUME NEW r \in Runs, Claims(r) \/ ColdReady(r) \/ ColdFails(r) \/ ReleaseFails(r)
        PROVE  up \subseteq up'
    BY <2>6 DEF Claims, ClaimWarm, ClaimCold, ColdReady, ColdFails, ReleaseFails
  <2> QED BY <2>1, <2>2, <2>3, <2>4, <2>5, <2>6 DEF Next
<1> QED BY <1>1, PoolInvariant, PTL DEF Spec, RemovedInUse
=============================================================================
