------------------------- MODULE EventStreamProofs -------------------------
(***************************************************************************)
(* Theorems about EventStream, for any number of seqs and faults.          *)
(*                                                                         *)
(* The invariant has one part for the log, one for what is on its way from *)
(* the workers, one for the handler, one for what it has written, one for  *)
(* what the client shows, one for what the fallback leaves out (nothing)   *)
(* and one for what a reloaded page is told.                               *)
(***************************************************************************)
EXTENDS EventStream, FiniteSetTheorems, SequenceTheorems, TLAPS

\* One event for a seq, and nothing but a failure behind an ending.
LogOK ==
  /\ log \in SUBSET Events
  /\ IsFiniteSet(log)
  /\ \A e, f \in log : e.seq = f.seq => e = f
  /\ \A e, f \in log : e.type \in Endings => f.seq <= e.seq \/ f.type = "failed"

\* What is on its way to the handler is in the log; nothing is without live push.
SourcesOK ==
  /\ outbox \in Seq(Events) /\ wire \in Seq(Events)
  /\ ToSet(outbox) \cup ToSet(wire) \subseteq log
  /\ ~live => outbox = << >> /\ wire = << >>

\* The mark is at an event, a poll's result has no hole above the mark, and only
\* a client that follows the run has a connection.
HandlerOK ==
  /\ conn \in Handlers
  /\ conn.read \subseteq log
  /\ conn.sent = 0 \/ \E e \in log : conn.sent <= e.seq
  /\ conn.polling => \A e \in log : \A f \in conn.read :
                       conn.sent < e.seq /\ e.seq <= f.seq => e \in conn.read
  /\ conn.pc = "none" => conn = NoConn /\ pipe = << >>
  /\ page \notin {"open", "last"} => conn.pc = "none"

\* What was written increases up to the mark.
PipeOK ==
  /\ pipe \in Seq(Events)
  /\ ToSet(pipe) \subseteq log
  /\ Increasing(pipe)
  /\ \A e \in ToSet(pipe) : e.seq <= conn.sent

\* What is shown increases, and a script, which drops nothing, is sent only what
\* lies behind it.
ShownOK ==
  /\ shown \in Seq(Events)
  /\ ToSet(shown) \subseteq log
  /\ Increasing(shown)
  /\ client = "script" =>
       /\ conn.pc # "none" => LastSeq(shown) <= conn.sent
       /\ \A e \in ToSet(pipe) : LastSeq(shown) < e.seq

\* The log up to the last seq shown is shown, and up to the mark written.
WholeOK ==
  ~live =>
    /\ NothingSkipped
    /\ conn.pc # "none" =>
         \A e \in log : e.seq <= conn.sent =>
           e \in ToSet(pipe) \/ e.seq <= LastSeq(shown) \/ ~Listened(e)

ToldOK ==
  /\ finished = "done" \/ told = "done" => \E e \in log : e.type = "done"
  /\ RestoredWhole

RestOK ==
  /\ client \in {"page", "script"}
  /\ live \in BOOLEAN
  /\ finished \in Outcomes
  /\ redis \in BOOLEAN
  /\ told \in Outcomes
  /\ page \in IF client = "page"
               THEN {"sending", "refused", "open", "closed", "dead", "loading",
                     "restored"}
               ELSE {"open", "last", "closed", "gone"}
  /\ left \in [FaultKinds -> Nat]

StreamInv ==
  /\ LogOK /\ SourcesOK /\ HandlerOK /\ PipeOK /\ ShownOK /\ WholeOK /\ ToldOK
  /\ RestOK

-----------------------------------------------------------------------------
(* Sequences of events. *)

LEMMA EventFields == \A e \in Events : e.seq \in 1 .. MaxSeq /\ e.type \in Types
BY DEF Events

LEMMA Bounded == MaxSeq \in Nat
BY StreamAssumption

LEMMA Within ==
  \A m, n \in Nat : \A i \in 1 .. n :
    /\ i = n \/ i < n
    /\ i + m \in 1 .. m + n /\ ~(i + m <= m) /\ (i + m) - m = i
OBVIOUS

LEMMA SeqFacts ==
  ASSUME NEW q \in Seq(Events)
  PROVE  /\ Len(q) \in Nat /\ DOMAIN q = 1 .. Len(q)
         /\ \A i \in 1 .. Len(q) : q[i] \in Events /\ q[i] \in ToSet(q)
         /\ \A e \in ToSet(q) : \E i \in 1 .. Len(q) : e = q[i]
         /\ LastSeq(q) \in 0 .. MaxSeq
         /\ q # << >> => Len(q) >= 1 /\ LastSeq(q) = q[Len(q)].seq
         /\ ToSet(q) \in SUBSET Events
<1>1. Len(q) \in Nat /\ DOMAIN q = 1 .. Len(q)
  BY LenProperties
<1>2. \A i \in 1 .. Len(q) : q[i] \in Events /\ q[i] \in ToSet(q)
  BY <1>1, ElementOfSeq DEF ToSet
<1>3. \A e \in ToSet(q) : \E i \in 1 .. Len(q) : e = q[i]
  BY <1>1 DEF ToSet
<1>4. q # << >> => Len(q) >= 1
  BY <1>1, EmptySeq
<1>5. q # << >> => LastSeq(q) = q[Len(q)].seq
  BY DEF LastSeq
<1>6. LastSeq(q) \in 0 .. MaxSeq
  <2>1. CASE q = << >>
    BY <2>1, Bounded DEF LastSeq
  <2>2. CASE q # << >>
    <3>1. q[Len(q)].seq \in 1 .. MaxSeq
      BY <1>1, <1>2, <1>4, <2>2, EventFields
    <3> QED BY <1>5, <2>2, <3>1, Bounded
  <2> QED BY <2>1, <2>2
<1>7. ToSet(q) \in SUBSET Events
  BY <1>2, <1>3
<1> QED BY <1>1, <1>2, <1>3, <1>4, <1>5, <1>6, <1>7

LEMMA EmptyFacts == /\ ToSet(<< >>) = {} /\ Increasing(<< >>) /\ LastSeq(<< >>) = 0
                    /\ << >> \in Seq(Events)
<1>1. DOMAIN << >> = {}
  OBVIOUS
<1> QED BY <1>1, EmptySeq DEF ToSet, Increasing, LastSeq

\* In an increasing sequence the last seq is the greatest.
LEMMA LastIsGreatest ==
  ASSUME NEW q \in Seq(Events), Increasing(q)
  PROVE  /\ \A e \in ToSet(q) : e.seq <= LastSeq(q)
         /\ q # << >> => \E e \in ToSet(q) : e.seq = LastSeq(q)
<1> SUFFICES ASSUME q # << >>
             PROVE  /\ \A e \in ToSet(q) : e.seq <= LastSeq(q)
                    /\ \E e \in ToSet(q) : e.seq = LastSeq(q)
  BY EmptyFacts
<1>1. /\ Len(q) \in Nat /\ Len(q) >= 1
      /\ \A i \in 1 .. Len(q) : q[i] \in Events /\ q[i] \in ToSet(q)
      /\ LastSeq(q) = q[Len(q)].seq
      /\ DOMAIN q = 1 .. Len(q)
  BY SeqFacts
<1>2. ASSUME NEW e \in ToSet(q) PROVE e.seq <= LastSeq(q)
  <2>1. PICK i \in 1 .. Len(q) : e = q[i]
    BY SeqFacts
  <2>2. CASE i = Len(q)
    <3>1. e.seq \in 1 .. MaxSeq
      BY <1>1, <2>1, EventFields
    <3> QED BY <1>1, <2>1, <2>2, <3>1
  <2>3. CASE i < Len(q)
    <3>1. q[i].seq < q[Len(q)].seq
      BY <1>1, <2>3 DEF Increasing
    <3>2. q[i].seq \in 1 .. MaxSeq /\ q[Len(q)].seq \in 1 .. MaxSeq
      BY <1>1, EventFields
    <3> QED BY <1>1, <2>1, <3>1, <3>2
  <2>4. Len(q) \in Nat /\ (i = Len(q) \/ i < Len(q))
    BY <1>1, Within
  <2> QED BY <2>2, <2>3, <2>4
<1> QED BY <1>1, <1>2

LEMMA Appending ==
  ASSUME NEW q \in Seq(Events), NEW e \in Events
  PROVE  /\ Append(q, e) \in Seq(Events)
         /\ ToSet(Append(q, e)) = ToSet(q) \cup {e}
         /\ LastSeq(Append(q, e)) = e.seq
         /\ Increasing(q) /\ LastSeq(q) < e.seq => Increasing(Append(q, e))
<1> DEFINE p == Append(q, e)
<1>1. /\ p \in Seq(Events) /\ p # << >> /\ Len(p) = Len(q) + 1
      /\ \A i \in 1 .. Len(q) : p[i] = q[i]
      /\ p[Len(q) + 1] = e
  BY AppendProperties
<1>2. Len(q) \in Nat /\ DOMAIN p = 1 .. Len(q) + 1
  BY <1>1, LenProperties
<1> HIDE DEF p
<1>3. ToSet(p) = ToSet(q) \cup {e}
  <2>1. ASSUME NEW x \in ToSet(p) PROVE x \in ToSet(q) \cup {e}
    <3>1. PICK i \in 1 .. Len(q) + 1 : x = p[i]
      BY <1>2 DEF ToSet
    <3>2. CASE i = Len(q) + 1
      BY <1>1, <3>1, <3>2
    <3>3. CASE i \in 1 .. Len(q)
      BY <1>1, <3>1, <3>3, SeqFacts
    <3> QED BY <1>2, <3>2, <3>3
  <2>2. ASSUME NEW x \in ToSet(q) PROVE x \in ToSet(p)
    <3>1. PICK i \in 1 .. Len(q) : x = q[i]
      BY SeqFacts
    <3> QED BY <1>1, <1>2, <3>1 DEF ToSet
  <2>3. e \in ToSet(p)
    BY <1>1, <1>2 DEF ToSet
  <2> QED BY <2>1, <2>2, <2>3
<1>4. LastSeq(p) = e.seq
  BY <1>1 DEF LastSeq
<1>5. ASSUME Increasing(q), LastSeq(q) < e.seq PROVE Increasing(p)
  <2> SUFFICES ASSUME NEW i \in 1 .. Len(q) + 1, NEW j \in 1 .. Len(q) + 1, i < j
               PROVE  p[i].seq < p[j].seq
    BY <1>2 DEF Increasing
  <2>1. i \in 1 .. Len(q) /\ p[i] = q[i]
    BY <1>1, <1>2
  <2>2. CASE j = Len(q) + 1
    <3>1. q[i].seq <= LastSeq(q)
      BY <1>5, <2>1, LastIsGreatest, SeqFacts
    <3>2. q[i].seq \in 1 .. MaxSeq /\ LastSeq(q) \in 0 .. MaxSeq /\ e.seq \in 1 .. MaxSeq
      BY <2>1, SeqFacts, EventFields
    <3> QED BY <1>1, <1>5, <2>1, <2>2, <3>1, <3>2
  <2>3. CASE j \in 1 .. Len(q)
    BY <1>1, <1>5, <2>1, <2>3, SeqFacts DEF Increasing
  <2> QED BY <1>2, <2>2, <2>3
<1> QED BY <1>1, <1>3, <1>4, <1>5 DEF p

LEMMA Beheading ==
  ASSUME NEW q \in Seq(Events), q # << >>
  PROVE  /\ Head(q) \in Events /\ Tail(q) \in Seq(Events)
         /\ ToSet(q) = {Head(q)} \cup ToSet(Tail(q))
         /\ Increasing(q) => /\ Increasing(Tail(q))
                             /\ \A e \in ToSet(Tail(q)) : Head(q).seq < e.seq
<1> DEFINE p == Tail(q)
<1>1. /\ Head(q) \in Events /\ Head(q) = q[1] /\ p \in Seq(Events)
      /\ Len(p) = Len(q) - 1
      /\ \A i \in 1 .. Len(p) : p[i] = q[i + 1]
  BY HeadTailProperties
<1>2. Len(q) \in Nat /\ Len(q) >= 1 /\ DOMAIN q = 1 .. Len(q) /\ DOMAIN p = 1 .. Len(p)
  BY <1>1, SeqFacts, LenProperties
<1> HIDE DEF p
<1>3. ToSet(q) = {Head(q)} \cup ToSet(p)
  <2>1. ASSUME NEW x \in ToSet(q) PROVE x \in {Head(q)} \cup ToSet(p)
    <3>1. PICK i \in 1 .. Len(q) : x = q[i]
      BY SeqFacts
    <3>2. CASE i = 1
      BY <1>1, <3>1, <3>2
    <3>3. CASE i > 1
      <4>1. i - 1 \in 1 .. Len(p) /\ p[i - 1] = q[i]
        BY <1>1, <1>2, <3>3
      <4> QED BY <1>2, <3>1, <4>1 DEF ToSet
    <3> QED BY <3>2, <3>3
  <2>2. ASSUME NEW x \in ToSet(p) PROVE x \in ToSet(q)
    <3>1. PICK i \in 1 .. Len(p) : x = p[i]
      BY <1>2 DEF ToSet
    <3>2. i + 1 \in 1 .. Len(q) /\ x = q[i + 1]
      BY <1>1, <1>2, <3>1
    <3> QED BY <1>2, <3>2 DEF ToSet
  <2>3. Head(q) \in ToSet(q)
    BY <1>1, <1>2 DEF ToSet
  <2> QED BY <2>1, <2>2, <2>3
<1>4. ASSUME Increasing(q) PROVE Increasing(p)
  <2> SUFFICES ASSUME NEW i \in 1 .. Len(p), NEW j \in 1 .. Len(p), i < j
               PROVE  p[i].seq < p[j].seq
    BY <1>2 DEF Increasing
  <2>1. i + 1 \in 1 .. Len(q) /\ j + 1 \in 1 .. Len(q) /\ i + 1 < j + 1
    BY <1>1, <1>2
  <2>2. q[i + 1].seq < q[j + 1].seq
    BY <1>2, <1>4, <2>1 DEF Increasing
  <2> QED BY <1>1, <2>2
<1>5. ASSUME Increasing(q), NEW e \in ToSet(p) PROVE Head(q).seq < e.seq
  <2>1. PICK i \in 1 .. Len(p) : e = p[i]
    BY <1>2 DEF ToSet
  <2>2. i + 1 \in 1 .. Len(q) /\ 1 < i + 1 /\ 1 \in 1 .. Len(q)
    BY <1>1, <1>2
  <2>3. q[1].seq < q[i + 1].seq
    BY <1>2, <1>5, <2>2 DEF Increasing
  <2> QED BY <1>1, <2>1, <2>3
<1> QED BY <1>1, <1>3, <1>4, <1>5 DEF p

LEMMA Joining ==
  ASSUME NEW p \in Seq(Events), NEW q \in Seq(Events)
  PROVE  /\ p \o q \in Seq(Events)
         /\ ToSet(p \o q) = ToSet(p) \cup ToSet(q)
         /\ /\ Increasing(p) /\ Increasing(q)
            /\ \A e \in ToSet(p) : \A f \in ToSet(q) : e.seq < f.seq
            => Increasing(p \o q)
<1> DEFINE r == p \o q
<1>1. /\ r \in Seq(Events) /\ Len(r) = Len(p) + Len(q)
      /\ \A i \in 1 .. Len(p) + Len(q) :
           r[i] = IF i <= Len(p) THEN p[i] ELSE q[i - Len(p)]
  BY ConcatProperties
<1>2. Len(p) \in Nat /\ Len(q) \in Nat /\ DOMAIN r = 1 .. Len(p) + Len(q)
  BY <1>1, LenProperties
<1> HIDE DEF r
<1>3. ASSUME NEW i \in 1 .. Len(p) + Len(q)
      PROVE  \/ i \in 1 .. Len(p) /\ r[i] = p[i]
             \/ i - Len(p) \in 1 .. Len(q) /\ i > Len(p) /\ r[i] = q[i - Len(p)]
  BY <1>1, <1>2
<1>4. ToSet(r) = ToSet(p) \cup ToSet(q)
  <2>1. ASSUME NEW x \in ToSet(r) PROVE x \in ToSet(p) \cup ToSet(q)
    <3>1. PICK i \in 1 .. Len(p) + Len(q) : x = r[i]
      BY <1>2 DEF ToSet
    <3> QED BY <1>3, <3>1, SeqFacts
  <2>2. ASSUME NEW x \in ToSet(p) PROVE x \in ToSet(r)
    <3>1. PICK i \in 1 .. Len(p) : x = p[i]
      BY SeqFacts
    <3>2. i \in 1 .. Len(p) + Len(q) /\ r[i] = p[i]
      BY <1>1, <1>2
    <3> QED BY <1>2, <3>1, <3>2 DEF ToSet
  <2>3. ASSUME NEW x \in ToSet(q) PROVE x \in ToSet(r)
    <3>1. PICK i \in 1 .. Len(q) : x = q[i]
      BY SeqFacts
    <3>2. /\ i + Len(p) \in 1 .. Len(p) + Len(q) /\ ~(i + Len(p) <= Len(p))
          /\ (i + Len(p)) - Len(p) = i
      BY <1>2, Within
    <3>3. r[i + Len(p)] = q[i]
      BY <1>1, <3>2
    <3> QED BY <1>2, <3>1, <3>2, <3>3 DEF ToSet
  <2> QED BY <2>1, <2>2, <2>3
<1>5. ASSUME Increasing(p), Increasing(q),
             \A e \in ToSet(p) : \A f \in ToSet(q) : e.seq < f.seq
      PROVE  Increasing(r)
  <2> SUFFICES ASSUME NEW i \in 1 .. Len(p) + Len(q), NEW j \in 1 .. Len(p) + Len(q),
                      i < j
               PROVE  r[i].seq < r[j].seq
    BY <1>2 DEF Increasing
  <2>1. CASE i \in 1 .. Len(p) /\ r[i] = p[i]
    <3>1. CASE j \in 1 .. Len(p) /\ r[j] = p[j]
      BY <1>5, <2>1, <3>1, SeqFacts DEF Increasing
    <3>2. CASE j - Len(p) \in 1 .. Len(q) /\ r[j] = q[j - Len(p)]
      BY <1>5, <2>1, <3>2, SeqFacts
    <3> QED BY <1>3, <3>1, <3>2
  <2>2. CASE i - Len(p) \in 1 .. Len(q) /\ i > Len(p) /\ r[i] = q[i - Len(p)]
    <3>1. j - Len(p) \in 1 .. Len(q) /\ r[j] = q[j - Len(p)]
      BY <1>2, <1>3, <2>2
    <3>2. i - Len(p) < j - Len(p)
      BY <1>2
    <3> QED BY <1>5, <2>2, <3>1, <3>2, SeqFacts DEF Increasing
  <2> QED BY <1>3, <2>1, <2>2
<1> QED BY <1>1, <1>4, <1>5 DEF r

\* A sorted query result has each event it found.
LEMMA SortedFacts ==
  ASSUME NEW S \in SUBSET Events, IsFiniteSet(S), NEW q \in Sorted(S)
  PROVE  q \in Seq(Events) /\ ToSet(q) = S /\ Increasing(q)
<1> DEFINE n == Cardinality(S)
<1>1. n \in Nat
  BY FS_CardinalityType
<1>2. /\ q \in [1 .. n -> S]
      /\ \A i, j \in 1 .. n : i # j => q[i] # q[j]
  BY DEF Sorted, SetToSeqs
<1>3. Increasing(q)
  BY DEF Sorted, Increasing
<1> HIDE DEF n
<1>4. q \in Seq(S) /\ q \in Seq(Events)
  <2>1. q \in Seq(S)
    BY <1>1, <1>2, SeqDef
  <2> QED BY <2>1, SeqMonotonic
<1>5. q \in Injection(1 .. n, S)
  BY <1>2 DEF Injection, IsInjective
<1>6. Cardinality(1 .. n) = n
  BY <1>1, FS_Interval
<1>7. q \in Surjection(1 .. n, S)
  BY <1>5, <1>6, FS_Injection DEF n
<1>8. ToSet(q) = S
  BY <1>2, <1>7 DEF ToSet, Surjection
<1> QED BY <1>3, <1>4, <1>8

-----------------------------------------------------------------------------
(* What the steps have in common. *)

LEMMA HandlerFields ==
  ASSUME NEW h \in Handlers
  PROVE  /\ h.pc \in {"none", "backfill", "connect", "subscribe", "tail", "over"}
         /\ h.sent \in 0 .. MaxSeq /\ h.sub \in {"off", "on", "lost"}
         /\ h.polling \in BOOLEAN /\ h.read \in SUBSET Events
BY DEF Handlers

LEMMA NoConnFacts == /\ NoConn \in Handlers /\ NoConn.pc = "none"
                     /\ NoConn.sent = 0 /\ NoConn.read = {} /\ ~NoConn.polling
BY Bounded DEF NoConn, Handlers

\* Nothing shown lies above every event of the log.
LEMMA ShownBelow ==
  ASSUME LogOK, ShownOK
  PROVE  LastSeq(shown) = 0 \/ \E e \in log : e.seq = LastSeq(shown)
<1>1. CASE shown = << >>
  BY <1>1, EmptyFacts
<1>2. CASE shown # << >>
  <2>1. \E e \in ToSet(shown) : e.seq = LastSeq(shown)
    BY <1>2, LastIsGreatest DEF ShownOK
  <2> QED BY <2>1 DEF ShownOK
<1> QED BY <1>1, <1>2

\* The handler writes what it has found behind what it wrote before.
LEMMA Sending ==
  ASSUME LogOK, PipeOK, conn \in Handlers, NEW S \in SUBSET log,
         NEW next \in Handlers, next.sent = conn.sent, Send(S, next)
  PROVE  /\ pipe' \in Seq(Events) /\ Increasing(pipe')
         /\ ToSet(pipe') = ToSet(pipe) \cup {e \in S : e.seq > conn.sent}
         /\ conn' \in Handlers
         /\ conn'.pc = next.pc /\ conn'.polling = next.polling
         /\ conn'.read = next.read
         /\ conn'.sent >= conn.sent
         /\ conn'.sent = conn.sent \/ \E e \in S : conn'.sent = e.seq
         /\ \A e \in S : e.seq <= conn'.sent
<1> DEFINE T == {e \in S : e.seq > conn.sent}
<1>1. T \in SUBSET Events /\ IsFiniteSet(T)
  BY FS_Subset DEF LogOK
<1>2. PICK fresh \in Sorted(T) :
        /\ pipe' = pipe \o fresh
        /\ conn' = [next EXCEPT !.sent = IF fresh = << >> THEN @ ELSE LastSeq(fresh)]
  BY DEF Send
<1>3. fresh \in Seq(Events) /\ ToSet(fresh) = T /\ Increasing(fresh)
  BY <1>1, <1>2, SortedFacts
<1>4. /\ conn.sent \in 0 .. MaxSeq
      /\ \A e \in log : e.seq \in 1 .. MaxSeq
      /\ LastSeq(fresh) \in 0 .. MaxSeq
  BY <1>3, HandlerFields, EventFields, SeqFacts DEF LogOK
<1>5. \A e \in ToSet(pipe) : \A f \in T : e.seq < f.seq
  <2> SUFFICES ASSUME NEW e \in ToSet(pipe), NEW f \in T PROVE e.seq < f.seq
    OBVIOUS
  <2>1. e.seq <= conn.sent /\ conn.sent < f.seq
    BY <1>4 DEF PipeOK
  <2>2. e.seq \in 1 .. MaxSeq /\ f.seq \in 1 .. MaxSeq
    BY <1>4 DEF PipeOK
  <2> QED BY <1>4, <2>1, <2>2
<1>6. /\ pipe' \in Seq(Events) /\ Increasing(pipe')
      /\ ToSet(pipe') = ToSet(pipe) \cup T
  <2> HIDE DEF T
  <2> QED BY <1>2, <1>3, <1>5, Joining DEF PipeOK
<1>7. conn' = [next EXCEPT !.sent = conn'.sent] /\ conn'.sent \in 0 .. MaxSeq
  BY <1>2, <1>4 DEF Handlers
<1>8. /\ conn' \in Handlers
      /\ conn'.pc = next.pc /\ conn'.polling = next.polling
      /\ conn'.read = next.read
  BY <1>7 DEF Handlers
<1>9. CASE fresh = << >>
  <2>1. T = {}
    BY <1>3, <1>9, EmptyFacts
  <2>2. conn'.sent = conn.sent
    BY <1>2, <1>9 DEF Handlers
  <2>3. \A e \in S : e.seq <= conn.sent
    BY <1>4, <2>1
  <2> HIDE DEF T
  <2>4. conn'.sent >= conn.sent
    BY <1>4, <2>2
  <2> QED BY <1>6, <1>8, <2>2, <2>3, <2>4 DEF T
<1>10. CASE fresh # << >>
  <2>1. conn'.sent = LastSeq(fresh)
    BY <1>2, <1>10 DEF Handlers
  <2>2. /\ \A e \in T : e.seq <= conn'.sent
        /\ \E e \in T : e.seq = conn'.sent
    BY <1>3, <1>10, <2>1, LastIsGreatest
  <2>3. conn'.sent > conn.sent /\ \E e \in S : conn'.sent = e.seq
    BY <2>2
  <2>4. \A e \in S : e.seq <= conn'.sent
    <3> SUFFICES ASSUME NEW e \in S PROVE e.seq <= conn'.sent
      OBVIOUS
    <3>1. CASE e \in T
      BY <2>2, <3>1
    <3>2. CASE e.seq <= conn.sent
      BY <1>4, <1>7, <2>3, <3>2
    <3> QED BY <1>4, <3>1, <3>2
  <2>5. conn'.sent >= conn.sent
    BY <1>4, <1>7, <2>3
  <2> QED BY <1>6, <1>8, <2>3, <2>4, <2>5 DEF T
<1> QED BY <1>9, <1>10

\* Nothing is written, shown or logged.
Still ==
  /\ UNCHANGED <<client, live, log, finished, pipe, page, shown, told>>
  /\ conn'.sent = conn.sent

LEMMA StillKeeps ==
  ASSUME StreamInv, Still, RestOK', SourcesOK',
         conn' \in Handlers, conn'.read \subseteq log,
         conn.pc = "none" => conn' = conn,
         conn.pc # "none" => conn'.pc # "none",
         conn'.polling => \A e \in log : \A f \in conn'.read :
           conn.sent < e.seq /\ e.seq <= f.seq => e \in conn'.read
  PROVE  StreamInv'
<1>1. LogOK' /\ PipeOK' /\ ToldOK'
  BY DEF StreamInv, Still, LogOK, PipeOK, ToldOK, RestoredWhole
<1>2. HandlerOK'
  BY DEF StreamInv, Still, HandlerOK
<1>3. ShownOK'
  BY DEF StreamInv, Still, ShownOK
<1>4. WholeOK'
  BY DEF StreamInv, Still, WholeOK, NothingSkipped, Listened
<1> QED BY <1>1, <1>2, <1>3, <1>4 DEF StreamInv

\* A query's result or a live event is written.
LEMMA SendKeeps ==
  ASSUME StreamInv, RestOK', SourcesOK', conn.pc # "none",
         UNCHANGED <<client, live, log, finished, page, shown, told>>,
         NEW S \in SUBSET log, NEW next \in Handlers, Send(S, next),
         next.sent = conn.sent, next.pc # "none", next.read \subseteq log,
         next.polling => \A e \in log : \A f \in next.read :
           conn.sent < e.seq /\ e.seq <= f.seq => e \in next.read,
         ~live => \A e \in log : \A f \in S :
           conn.sent < e.seq /\ e.seq <= f.seq => e \in S
  PROVE  StreamInv'
<1>1. /\ LogOK /\ PipeOK /\ HandlerOK /\ ShownOK /\ WholeOK /\ ToldOK
      /\ conn \in Handlers
  BY DEF StreamInv, HandlerOK
<1>2. /\ pipe' \in Seq(Events) /\ Increasing(pipe')
      /\ ToSet(pipe') = ToSet(pipe) \cup {e \in S : e.seq > conn.sent}
      /\ conn' \in Handlers
      /\ conn'.pc = next.pc /\ conn'.polling = next.polling
      /\ conn'.read = next.read
      /\ conn'.sent >= conn.sent
      /\ conn'.sent = conn.sent \/ \E e \in S : conn'.sent = e.seq
      /\ \A e \in S : e.seq <= conn'.sent
  BY <1>1, Sending
<1>3. /\ conn.sent \in 0 .. MaxSeq /\ conn'.sent \in 0 .. MaxSeq
      /\ \A e \in log : e.seq \in 1 .. MaxSeq
      /\ LastSeq(shown) \in 0 .. MaxSeq
  BY <1>1, <1>2, HandlerFields, EventFields, SeqFacts DEF LogOK, ShownOK
<1>4. LogOK' /\ ToldOK'
  BY <1>1 DEF LogOK, ToldOK, RestoredWhole
<1>5. HandlerOK'
  <2>1. conn'.sent = 0 \/ \E e \in log : conn'.sent <= e.seq
    BY <1>1, <1>2, <1>3 DEF HandlerOK
  <2>2. conn'.polling => \A e \in log : \A f \in conn'.read :
          conn'.sent < e.seq /\ e.seq <= f.seq => e \in conn'.read
    BY <1>2, <1>3
  <2>3. page \in {"open", "last"}
    BY <1>1 DEF HandlerOK
  <2> QED BY <1>2, <2>1, <2>2, <2>3 DEF HandlerOK
<1>6. PipeOK'
  <2>1. \A e \in ToSet(pipe') : e \in log /\ e.seq <= conn'.sent
    BY <1>1, <1>2, <1>3 DEF PipeOK
  <2> QED BY <1>2, <2>1 DEF PipeOK
<1>7. ShownOK'
  <2>1. ASSUME client = "script"
        PROVE  /\ LastSeq(shown) <= conn'.sent
               /\ \A e \in ToSet(pipe') : LastSeq(shown) < e.seq
    <3>1. LastSeq(shown) <= conn.sent /\ \A e \in ToSet(pipe) : LastSeq(shown) < e.seq
      BY <1>1, <2>1 DEF ShownOK
    <3> QED BY <1>2, <1>3, <3>1
  <2> QED BY <1>1, <2>1 DEF ShownOK
<1>8. WholeOK'
  <2>1. ASSUME ~live, NEW e \in log, e.seq <= conn'.sent
        PROVE  e \in ToSet(pipe') \/ e.seq <= LastSeq(shown) \/ ~Listened(e)
    <3>1. CASE e.seq <= conn.sent
      BY <1>1, <1>2, <2>1, <3>1 DEF WholeOK
    <3>2. CASE conn.sent < e.seq
      <4>1. PICK f \in S : conn'.sent = f.seq
        BY <1>2, <1>3, <2>1, <3>2
      <4>2. e \in S
        BY <2>1, <3>2, <4>1
      <4> QED BY <1>2, <1>3, <3>2, <4>2
    <3> QED BY <1>3, <3>1, <3>2
  <2> QED BY <1>1, <2>1 DEF WholeOK, NothingSkipped, Listened
<1> QED BY <1>4, <1>5, <1>6, <1>7, <1>8 DEF StreamInv

\* The connection goes, with what was written and not read.
LEMMA CutKeeps ==
  ASSUME StreamInv, RestOK', CutOff, UNCHANGED <<client, live, log, outbox>>,
         ToldOK',
         shown' \in Seq(Events), ToSet(shown') \subseteq log, Increasing(shown'),
         ~live => NothingSkipped'
  PROVE  StreamInv'
<1>1. LogOK' /\ SourcesOK'
  BY EmptyFacts DEF StreamInv, LogOK, SourcesOK, CutOff
<1>2. HandlerOK' /\ PipeOK'
  BY EmptyFacts, NoConnFacts DEF StreamInv, HandlerOK, PipeOK, CutOff
<1>3. ShownOK'
  BY EmptyFacts, NoConnFacts DEF ShownOK, CutOff
<1>4. WholeOK'
  BY NoConnFacts DEF WholeOK, CutOff
<1> QED BY <1>1, <1>2, <1>3, <1>4 DEF StreamInv

-----------------------------------------------------------------------------
(* The invariant. *)

LEMMA StreamStart == Init => StreamInv
<1> SUFFICES ASSUME Init PROVE StreamInv
  OBVIOUS
<1>1. LogOK /\ SourcesOK
  BY EmptyFacts, FS_EmptySet DEF Init, LogOK, SourcesOK
<1>2. HandlerOK /\ PipeOK
  BY EmptyFacts, NoConnFacts DEF Init, HandlerOK, PipeOK
<1>3. ShownOK /\ WholeOK /\ ToldOK
  BY EmptyFacts, NoConnFacts DEF Init, ShownOK, WholeOK, NothingSkipped, ToldOK,
                                 RestoredWhole
<1>4. RestOK
  BY StreamAssumption DEF Init, RestOK, Outcomes
<1> QED BY <1>1, <1>2, <1>3, <1>4 DEF StreamInv

LEMMA Spending == ASSUME RestOK, NEW kind \in FaultKinds, Spend(kind)
                  PROVE  left' \in [FaultKinds -> Nat]
BY DEF RestOK, Spend

\* An event with a seq above all others is added to the log.
LEMMA InsertKeeps ==
  ASSUME StreamInv, NEW type \in Types, Insert(type)
  PROVE  StreamInv'
<1>0. /\ LogOK /\ SourcesOK /\ HandlerOK /\ PipeOK /\ ShownOK /\ WholeOK /\ ToldOK
      /\ RestOK
  BY DEF StreamInv
<1>1. PICK seq \in 1 .. MaxSeq :
        LET event == [seq |-> seq, type |-> type] IN
        /\ \A e \in log : e.seq < seq
        /\ log' = log \cup {event}
        /\ outbox' = IF live THEN Append(outbox, event) ELSE outbox
  BY DEF Insert
<1> DEFINE event == [seq |-> seq, type |-> type]
<1>2. event \in Events /\ event.seq = seq /\ event.type = type /\ seq \in 1 .. MaxSeq
  BY DEF Events
<1>3. /\ \A e \in log : e.seq < event.seq
      /\ log' = log \cup {event}
      /\ outbox' = IF live THEN Append(outbox, event) ELSE outbox
  BY <1>1
<1> HIDE DEF event
<1>4. /\ UNCHANGED <<client, live, finished, redis, conn, wire, pipe, reader, left>>
      /\ UNCHANGED <<page, shown, told>>
      /\ Emits(type)
  BY DEF Insert, reader
<1>5. /\ conn.sent \in 0 .. MaxSeq /\ LastSeq(shown) \in 0 .. MaxSeq
      /\ \A e \in log : e.seq \in 1 .. MaxSeq
  BY <1>0, HandlerFields, SeqFacts, EventFields DEF LogOK, HandlerOK, ShownOK
<1>6. conn.sent < event.seq /\ LastSeq(shown) < event.seq
  <2>1. conn.sent < event.seq
    BY <1>0, <1>2, <1>3, <1>5 DEF HandlerOK
  <2>2. LastSeq(shown) < event.seq
    BY <1>0, <1>2, <1>3, <1>5, ShownBelow
  <2> QED BY <2>1, <2>2
<1>7. LogOK'
  <2>1. log' \in SUBSET Events /\ IsFiniteSet(log')
    BY <1>0, <1>2, <1>3, FS_AddElement DEF LogOK
  <2>2. \A e, f \in log' : e.seq = f.seq => e = f
    BY <1>0, <1>2, <1>3, <1>5 DEF LogOK
  <2>3. \A e, f \in log' : e.type \in Endings => f.seq <= e.seq \/ f.type = "failed"
    <3> SUFFICES ASSUME NEW e \in log', NEW f \in log', e.type \in Endings
                 PROVE  f.seq <= e.seq \/ f.type = "failed"
      OBVIOUS
    <3>1. CASE e = event
      BY <1>2, <1>3, <1>5, <3>1
    <3>2. CASE e \in log /\ f = event
      <4>1. Ended
        BY <3>2 DEF Ended, Announced
      <4> QED BY <1>2, <1>4, <3>2, <4>1 DEF Emits
    <3>3. CASE e \in log /\ f \in log
      BY <1>0, <3>3 DEF LogOK
    <3> QED BY <1>3, <3>1, <3>2, <3>3
  <2> QED BY <2>1, <2>2, <2>3 DEF LogOK
<1>8. SourcesOK'
  <2>1. CASE live
    <3>1. outbox' \in Seq(Events) /\ ToSet(outbox') = ToSet(outbox) \cup {event}
      BY <1>0, <1>2, <1>3, <2>1, Appending DEF SourcesOK
    <3> QED BY <1>0, <1>3, <1>4, <2>1, <3>1 DEF SourcesOK
  <2>2. CASE ~live
    BY <1>0, <1>3, <1>4, <2>2 DEF SourcesOK
  <2> QED BY <2>1, <2>2
<1>9. HandlerOK'
  <2>1. conn.polling => \A e \in log' : \A f \in conn.read :
          conn.sent < e.seq /\ e.seq <= f.seq => e \in conn.read
    <3> SUFFICES ASSUME conn.polling, NEW e \in log', NEW f \in conn.read,
                        conn.sent < e.seq, e.seq <= f.seq
                 PROVE  e \in conn.read
      OBVIOUS
    <3>1. f \in log
      BY <1>0 DEF HandlerOK
    <3>2. e # event
      BY <1>2, <1>3, <1>5, <3>1
    <3> QED BY <1>0, <1>3, <3>2 DEF HandlerOK
  <2> QED BY <1>0, <1>3, <1>4, <2>1 DEF HandlerOK
<1>10. PipeOK' /\ ShownOK'
  BY <1>0, <1>3, <1>4 DEF PipeOK, ShownOK
<1>11. WholeOK'
  <2>1. ASSUME NEW e \in log', e.seq <= conn.sent \/ e.seq <= LastSeq(shown)
        PROVE  e \in log
    BY <1>2, <1>3, <1>5, <1>6, <2>1
  <2> QED BY <1>0, <1>4, <2>1 DEF WholeOK, NothingSkipped, Listened
<1>12. ToldOK' /\ RestOK'
  BY <1>0, <1>3, <1>4 DEF ToldOK, RestoredWhole, RestOK
<1> QED BY <1>7, <1>8, <1>9, <1>10, <1>11, <1>12 DEF StreamInv

\* What the client shows after reading an event is in order and without a new
\* hole.
LEMMA Showing ==
  ASSUME StreamInv, pipe # << >>, Receive
  PROVE  /\ shown' \in Seq(Events) /\ ToSet(shown') \subseteq log
         /\ Increasing(shown')
         /\ LastSeq(shown) <= LastSeq(shown')
         /\ LastSeq(shown') \in 0 .. MaxSeq
         /\ client = "script" => LastSeq(shown') = Head(pipe).seq
         /\ Head(pipe).seq <= LastSeq(shown') \/ ~Listened(Head(pipe))
         /\ log' = log /\ (~live => NothingSkipped')
<1> DEFINE event == Head(pipe)
<1>0. LogOK /\ HandlerOK /\ PipeOK /\ ShownOK /\ WholeOK
  BY DEF StreamInv
<1>1. /\ event \in Events /\ ToSet(pipe) = {event} \cup ToSet(Tail(pipe))
      /\ \A e \in ToSet(Tail(pipe)) : event.seq < e.seq
      /\ event \in log /\ event.seq <= conn.sent
  BY <1>0, Beheading DEF PipeOK
<1>2. shown' = (IF Applies(event) THEN Append(shown, event) ELSE shown)
      /\ log' = log /\ client' = client
  BY DEF Receive, run
<1> HIDE DEF event
<1>3. /\ event.seq \in 1 .. MaxSeq /\ LastSeq(shown) \in 0 .. MaxSeq
      /\ conn.sent \in 0 .. MaxSeq /\ \A e \in log : e.seq \in 1 .. MaxSeq
  BY <1>0, <1>1, HandlerFields, SeqFacts, EventFields DEF LogOK, HandlerOK, ShownOK
<1>4. conn.pc # "none"
  BY <1>0 DEF HandlerOK
<1>5. CASE Applies(event)
  <2>1. LastSeq(shown) < event.seq
    BY <1>0, <1>1, <1>5 DEF Applies, ShownOK
  <2>2. /\ shown' \in Seq(Events) /\ ToSet(shown') = ToSet(shown) \cup {event}
        /\ LastSeq(shown') = event.seq /\ Increasing(shown')
    BY <1>0, <1>1, <1>2, <1>5, <2>1, Appending DEF ShownOK
  <2>3. ASSUME ~live, NEW e \in log, e.seq <= event.seq, Listened(e)
        PROVE  e \in ToSet(shown')
    <3>1. e.seq <= conn.sent
      BY <1>1, <1>3, <2>3
    <3>2. e \in ToSet(pipe) \/ e.seq <= LastSeq(shown) \/ ~Listened(e)
      BY <1>0, <1>4, <2>3, <3>1 DEF WholeOK
    <3>3. CASE e \in ToSet(pipe)
      <4>1. e = event
        BY <1>1, <1>3, <2>3, <3>3
      <4> QED BY <2>2, <4>1
    <3>4. CASE e.seq <= LastSeq(shown)
      BY <1>0, <2>2, <2>3, <3>4 DEF WholeOK, NothingSkipped
    <3> QED BY <2>3, <3>2, <3>3, <3>4
  <2>4. ~live => NothingSkipped'
    BY <1>2, <2>2, <2>3 DEF NothingSkipped, Listened
  <2> QED BY <1>0, <1>1, <1>2, <1>3, <2>1, <2>2, <2>4 DEF ShownOK, event
<1>6. CASE ~Applies(event)
  <2>1. shown' = shown /\ client # "script"
    BY <1>2, <1>6 DEF Applies, Listened
  <2>2. client = "page"
    BY <2>1 DEF StreamInv, RestOK
  <2>3. event.seq <= LastSeq(shown) \/ ~Listened(event)
    BY <1>3, <1>6 DEF Applies
  <2> QED
    BY <1>0, <1>2, <1>3, <2>1, <2>2, <2>3 
    DEF ShownOK, WholeOK, NothingSkipped, Listened, event
<1> QED BY <1>5, <1>6

LEMMA ReceiveKeeps ==
  ASSUME StreamInv, Receive
  PROVE  StreamInv'
<1> DEFINE event == Head(pipe)
<1>0. /\ LogOK /\ SourcesOK /\ HandlerOK /\ PipeOK /\ ShownOK /\ WholeOK /\ ToldOK
      /\ RestOK
  BY DEF StreamInv
<1>1. /\ pipe # << >>
      /\ UNCHANGED <<client, live, log, finished, outbox, redis, told, left>>
  BY DEF Receive, run
<1>2. /\ shown' \in Seq(Events) /\ ToSet(shown') \subseteq log
      /\ Increasing(shown')
      /\ LastSeq(shown) <= LastSeq(shown')
      /\ LastSeq(shown') \in 0 .. MaxSeq
      /\ client = "script" => LastSeq(shown') = event.seq
      /\ event.seq <= LastSeq(shown') \/ ~Listened(event)
      /\ ~live => NothingSkipped'
  BY <1>1, Showing
<1>3. page \in {"open", "last"} /\ conn.pc # "none"
  BY <1>0, <1>1 DEF HandlerOK
<1>4. page' \in {"open", "last", "closed", "gone"}
        /\ (client = "page" => page' \in {"open", "closed"})
  BY <1>0, <1>3 DEF Receive, Disconnected, HungUp, RestOK
<1>5. RestOK' /\ ToldOK'
  BY <1>0, <1>1, <1>4 DEF RestOK, ToldOK, RestoredWhole
<1>6. CASE CutOff
  BY <1>1, <1>2, <1>5, <1>6, CutKeeps
<1>7. CASE pipe' = Tail(pipe) /\ UNCHANGED <<page, conn, wire>>
  <2>1. /\ pipe' \in Seq(Events) /\ ToSet(pipe) = {event} \cup ToSet(pipe')
        /\ Increasing(pipe') /\ \A e \in ToSet(pipe') : event.seq < e.seq
    BY <1>0, <1>1, <1>7, Beheading DEF PipeOK
  <2>2. /\ event \in log /\ event.seq <= conn.sent /\ event.seq \in 1 .. MaxSeq
        /\ conn.sent \in 0 .. MaxSeq /\ \A e \in log : e.seq \in 1 .. MaxSeq
        /\ LastSeq(shown) \in 0 .. MaxSeq
    BY <1>0, <2>1, HandlerFields, EventFields, SeqFacts
    DEF LogOK, PipeOK, HandlerOK, ShownOK
  <2> HIDE DEF event
  <2>3. LogOK' /\ SourcesOK'
    BY <1>0, <1>1, <1>7 DEF LogOK, SourcesOK
  <2>4. HandlerOK' /\ PipeOK'
    BY <1>0, <1>1, <1>3, <1>7, <2>1 DEF HandlerOK, PipeOK
  <2>5. ShownOK'
    BY <1>1, <1>2, <1>7, <2>1, <2>2 DEF ShownOK
  <2>6. WholeOK'
    <3>1. ASSUME ~live, NEW e \in log, e.seq <= conn.sent
          PROVE  e \in ToSet(pipe') \/ e.seq <= LastSeq(shown') \/ ~Listened(e)
      <4>1. e \in ToSet(pipe) \/ e.seq <= LastSeq(shown) \/ ~Listened(e)
        BY <1>0, <1>3, <3>1 DEF WholeOK
      <4>2. e.seq <= LastSeq(shown) => e.seq <= LastSeq(shown')
        BY <1>2, <2>2
      <4>3. e = event => e.seq <= LastSeq(shown') \/ ~Listened(e)
        BY <1>2
      <4> QED BY <2>1, <4>1, <4>2, <4>3
    <3> QED BY <1>1, <1>2, <1>7, <3>1 DEF WholeOK, Listened
  <2> QED BY <1>5, <2>3, <2>4, <2>5, <2>6 DEF StreamInv
<1> QED BY <1>6, <1>7 DEF Receive, Disconnected

\* The page reads the whole conversation.
LEMMA RestoreKeeps ==
  ASSUME StreamInv, Restore
  PROVE  StreamInv'
<1>0. /\ LogOK /\ SourcesOK /\ HandlerOK /\ PipeOK /\ ShownOK /\ WholeOK /\ ToldOK
      /\ RestOK
  BY DEF StreamInv
<1> DEFINE S == {e \in log : e.type \in {"step", "done"}}
<1>1. /\ page = "loading" /\ page' = "restored" /\ shown' \in Sorted(S)
      /\ UNCHANGED <<client, live, log, finished, outbox, redis, conn, wire, pipe>>
      /\ UNCHANGED <<told, left>>
  BY DEF Restore, run
<1>2. S \in SUBSET Events /\ IsFiniteSet(S)
  BY <1>0, FS_Subset DEF LogOK
<1>3. shown' \in Seq(Events) /\ ToSet(shown') = S /\ Increasing(shown')
  BY <1>1, <1>2, SortedFacts
<1>4. conn = NoConn /\ pipe = << >> /\ conn.pc = "none"
  BY <1>0, <1>1 DEF HandlerOK
<1>9. client = "page"
  BY <1>0, <1>1 DEF RestOK
<1>5. NothingSkipped'
  <2> SUFFICES ASSUME NEW e \in log, e.seq <= LastSeq(shown'), e.type # "cancelled"
               PROVE  e \in ToSet(shown')
    BY <1>1, <1>9 DEF NothingSkipped, Listened
  <2>1. \A f \in log : f.seq \in 1 .. MaxSeq
    BY <1>0, EventFields DEF LogOK
  <2>2. shown' # << >>
    <3> SUFFICES ASSUME shown' = << >> PROVE FALSE
      OBVIOUS
    <3>1. LastSeq(shown') = 0
      BY EmptyFacts
    <3> QED BY <2>1, <3>1
  <2>3. PICK f \in S : f.seq = LastSeq(shown')
    BY <1>3, <2>2, LastIsGreatest
  <2>4. ASSUME e.type = "failed" PROVE FALSE
    <3>1. f.seq <= e.seq
      BY <1>0, <2>3, <2>4 DEF LogOK, Endings
    <3>2. e = f
      BY <1>0, <2>1, <2>3, <3>1 DEF LogOK
    <3> QED BY <2>3, <2>4, <3>2
  <2>5. e.type \in Types
    BY <1>0, EventFields DEF LogOK
  <2> QED BY <1>3, <2>4, <2>5 DEF Types
<1>6. ToldOK'
  <2>1. told = "done" => \E e \in ToSet(shown') : e.type = "done"
    BY <1>0, <1>3 DEF ToldOK
  <2> QED BY <1>0, <1>1, <2>1 DEF ToldOK, RestoredWhole
<1>7. LogOK' /\ SourcesOK' /\ PipeOK'
  BY <1>0, <1>1 DEF LogOK, SourcesOK, PipeOK
<1>8. HandlerOK'
  BY <1>0, <1>1, <1>4 DEF HandlerOK
<1>10. ShownOK' /\ WholeOK' /\ RestOK'
  BY <1>0, <1>1, <1>3, <1>4, <1>5, <1>9 DEF ShownOK, WholeOK, RestOK
<1> QED BY <1>6, <1>7, <1>8, <1>10 DEF StreamInv

LEMMA StreamStep ==
  ASSUME StreamInv, [Next]_vars
  PROVE  StreamInv'
<1>0. /\ LogOK /\ SourcesOK /\ HandlerOK /\ PipeOK /\ ShownOK /\ WholeOK /\ ToldOK
      /\ RestOK
  BY DEF StreamInv
<1>a. /\ conn \in Handlers /\ conn.read \subseteq log
      /\ conn.polling => \A e \in log : \A f \in conn.read :
           conn.sent < e.seq /\ e.seq <= f.seq => e \in conn.read
  BY <1>0 DEF HandlerOK
<1>1. ASSUME NEW type \in Types, Insert(type) PROVE StreamInv'
  BY <1>1, InsertKeeps
<1>2. CASE Finish
  <2>1. /\ UNCHANGED <<client, live, log, outbox, redis, conn, wire, pipe>>
        /\ UNCHANGED <<page, shown, told, left>>
    BY <1>2 DEF Finish, reader
  <2>a. \/ finished' = "failed"
        \/ finished' = "done" /\ \E e \in log : e.type = "done"
    BY <1>2 DEF Finish
  <2>2. LogOK' /\ SourcesOK' /\ HandlerOK' /\ PipeOK' /\ ShownOK' /\ WholeOK'
    BY <1>0, <2>1 DEF LogOK, SourcesOK, HandlerOK, PipeOK, ShownOK, WholeOK,
                      NothingSkipped, Listened
  <2>3. ToldOK' /\ RestOK'
    BY <1>0, <2>1, <2>a DEF ToldOK, RestoredWhole, RestOK, Outcomes
  <2> QED BY <2>2, <2>3 DEF StreamInv
\* Steps of the worker, of Redis and of the handler that write nothing.
<1>3. ASSUME UNCHANGED <<client, live, run, pipe, reader>>, RestOK', SourcesOK',
             conn' = conn
      PROVE  StreamInv'
  BY <1>0, <1>a, <1>3, StillKeeps DEF Still, run, reader
<1>4. CASE Publish
  <2>1. /\ Head(outbox) \in Events /\ outbox' \in Seq(Events)
        /\ ToSet(outbox) = {Head(outbox)} \cup ToSet(outbox')
    BY <1>0, <1>4, Beheading DEF Publish, SourcesOK
  <2>2. wire' \in Seq(Events) /\ ToSet(wire') \subseteq ToSet(wire) \cup ToSet(outbox)
    BY <1>0, <1>4, <2>1, Appending DEF Publish, SourcesOK
  <2>3. live /\ log' = log /\ live' = live
    BY <1>0, <1>4 DEF Publish, SourcesOK, run
  <2>4. SourcesOK'
    BY <1>0, <2>1, <2>2, <2>3 DEF SourcesOK
  <2>5. RestOK'
    BY <1>0, <1>4 DEF Publish, RestOK, run, reader
  <2> QED BY <1>3, <1>4, <2>4, <2>5 DEF Publish
<1>5. CASE PublishLost
  <2>1. /\ outbox' \in Seq(Events) /\ ToSet(outbox') \subseteq ToSet(outbox)
    BY <1>0, <1>5, Beheading DEF PublishLost, SourcesOK
  <2>2. live /\ log' = log /\ live' = live /\ wire' = wire
    BY <1>0, <1>5 DEF PublishLost, SourcesOK, run
  <2>3. SourcesOK' /\ RestOK'
    BY <1>0, <1>5, <2>1, <2>2 DEF SourcesOK, PublishLost, RestOK, run, reader
  <2> QED BY <1>3, <1>5, <2>3 DEF PublishLost
<1>6. CASE RedisStarts
  <2>1. SourcesOK' /\ RestOK'
    BY <1>0, <1>6 DEF SourcesOK, RedisStarts, RestOK, run, reader
  <2> QED BY <1>3, <1>6, <2>1 DEF RedisStarts
<1>7. ASSUME UNCHANGED <<client, live, run, pipe, reader>>, RestOK', SourcesOK',
             conn' \in Handlers, conn'.sent = conn.sent, conn'.read = conn.read,
             conn'.polling = conn.polling, conn.pc # "none", conn'.pc # "none"
      PROVE  StreamInv'
  BY <1>0, <1>a, <1>7, StillKeeps DEF Still, run, reader
<1>8. CASE RedisStops
  <2>1. left' \in [FaultKinds -> Nat]
    BY <1>0, <1>8, Spending DEF RedisStops, FaultKinds
  <2>2. SourcesOK' /\ RestOK'
    BY <1>0, <1>8, <2>1, EmptyFacts
    DEF SourcesOK, RedisStops, RestOK, run, reader
  <2>3. CASE conn' = conn
    BY <1>3, <1>8, <2>2, <2>3 DEF RedisStops
  <2>4. CASE /\ conn.sub = "on" \/ conn.pc = "subscribe"
             /\ conn' = [conn EXCEPT !.sub = "lost"]
    <3>1. conn.pc # "none"
      BY <1>0, <2>4 DEF HandlerOK, NoConn
    <3>2. /\ conn' \in Handlers /\ conn'.sent = conn.sent /\ conn'.read = conn.read
          /\ conn'.polling = conn.polling /\ conn'.pc = conn.pc
      BY <1>a, <2>4 DEF Handlers
    <3> QED BY <1>7, <1>8, <2>2, <3>1, <3>2 DEF RedisStops
  <2> QED BY <1>8, <2>3, <2>4 DEF RedisStops
<1>9. CASE Resubscribe \/ BackfillFails \/ SubConnect \/ Subscribe \/ SubscribeFails
  <2>1. left' \in [FaultKinds -> Nat]
    <3>1. CASE BackfillFails
      BY <1>0, <3>1, Spending DEF BackfillFails, FaultKinds
    <3>2. CASE UNCHANGED left
      BY <1>0, <3>2 DEF RestOK
    <3> QED
      BY <1>9, <3>1, <3>2 DEF Resubscribe, SubConnect, Subscribe, SubscribeFails
  <2>2. UNCHANGED <<client, live, run, outbox, redis, wire, pipe, reader>>
    BY <1>9 DEF Resubscribe, BackfillFails, SubConnect, Subscribe, SubscribeFails
  <2>3. SourcesOK' /\ RestOK'
    BY <1>0, <2>1, <2>2 DEF SourcesOK, RestOK, run, reader
  <2>4. /\ conn' \in Handlers /\ conn'.sent = conn.sent /\ conn'.read = conn.read
        /\ conn'.polling = conn.polling /\ conn.pc # "none" /\ conn'.pc # "none"
    BY <1>9, <1>a
    DEF Resubscribe, BackfillFails, SubConnect, Subscribe, SubscribeFails, Handlers
  <2> QED BY <1>7, <2>2, <2>3, <2>4
<1>10. CASE PollRead
  <2>1. UNCHANGED <<client, live, run, outbox, redis, wire, pipe, reader, left>>
    BY <1>10 DEF PollRead
  <2>2. SourcesOK' /\ RestOK'
    BY <1>0, <2>1 DEF SourcesOK, RestOK, run, reader
  <2>3. Beyond(conn.sent) \subseteq log /\ Beyond(conn.sent) \in SUBSET Events
    BY <1>0 DEF Beyond, LogOK
  <2>4. /\ conn' \in Handlers /\ conn'.sent = conn.sent
        /\ conn'.read = Beyond(conn.sent) /\ conn.pc # "none" /\ conn'.pc # "none"
    BY <1>10, <1>a, <2>3 DEF PollRead, Handlers
  <2>5. \A e \in log : conn.sent < e.seq => e \in Beyond(conn.sent)
    <3> SUFFICES ASSUME NEW e \in log, conn.sent < e.seq PROVE e.seq > conn.sent
      BY DEF Beyond
    <3>1. conn.sent \in 0 .. MaxSeq /\ e.seq \in 1 .. MaxSeq
      BY <1>0, <1>a, HandlerFields, EventFields DEF LogOK
    <3> QED BY <3>1
  <2>6. Still
    BY <2>1, <2>4 DEF Still, run, reader
  <2> QED BY <2>2, <2>3, <2>4, <2>5, <2>6, StillKeeps
<1>11. CASE Connect
  <2>1. /\ UNCHANGED <<client, live, log, finished, outbox, redis, wire, pipe>>
        /\ UNCHANGED <<page, shown, told, left>>
        /\ conn.pc = "none" /\ page \in {"open", "last"}
        /\ conn' = [NoConn EXCEPT !.pc = "backfill", !.sent = LastSeen]
    BY <1>11 DEF Connect, run, reader
  <2>2. LastSeq(shown) \in 0 .. MaxSeq /\ LastSeen \in 0 .. MaxSeq
    BY <1>0, SeqFacts, Bounded DEF ShownOK, LastSeen
  <2>3. /\ conn' \in Handlers /\ conn'.sent = LastSeen /\ conn'.read = {}
        /\ ~conn'.polling /\ conn'.pc = "backfill"
    BY <2>1, <2>2 DEF NoConn, Handlers
  <2>4. LogOK' /\ SourcesOK' /\ ToldOK' /\ RestOK'
    BY <1>0, <2>1 DEF LogOK, SourcesOK, ToldOK, RestoredWhole, RestOK
  <2>5. pipe = << >>
    BY <1>0, <2>1 DEF HandlerOK
  <2>6. LastSeen = 0 \/ \E e \in log : LastSeen <= e.seq
    <3>1. \A e \in log : e.seq \in 1 .. MaxSeq
      BY <1>0, EventFields DEF LogOK
    <3> QED BY <1>0, <2>2, <3>1, ShownBelow DEF LastSeen
  <2>7. HandlerOK' /\ PipeOK'
    BY <1>0, <2>1, <2>3, <2>5, <2>6, EmptyFacts DEF HandlerOK, PipeOK
  <2>8. client = "script" => LastSeq(shown) <= LastSeen
    BY <2>2 DEF LastSeen
  <2>9. ShownOK'
    BY <1>0, <2>1, <2>3, <2>5, <2>8, EmptyFacts DEF ShownOK
  <2>10. \A e \in log : e.seq <= LastSeen => e.seq <= LastSeq(shown)
    <3> SUFFICES ASSUME NEW e \in log, e.seq <= LastSeen
                 PROVE  e.seq <= LastSeq(shown)
      OBVIOUS
    <3>1. e.seq \in 1 .. MaxSeq
      BY <1>0, EventFields DEF LogOK
    <3> QED BY <3>1 DEF LastSeen
  <2>11. WholeOK'
    BY <1>0, <2>1, <2>3, <2>10 DEF WholeOK, NothingSkipped, Listened
  <2> QED BY <2>4, <2>7, <2>9, <2>11 DEF StreamInv
<1>12. CASE Backfill
  <2> DEFINE next == [conn EXCEPT !.pc = "connect"]
  <2>1. /\ next \in Handlers /\ next.sent = conn.sent /\ next.read = conn.read
        /\ next.polling = conn.polling /\ next.pc = "connect"
    BY <1>a DEF Handlers
  <2>2. /\ Send(Beyond(conn.sent), next) /\ conn.pc # "none"
        /\ UNCHANGED <<client, live, log, finished, outbox, redis, wire>>
        /\ UNCHANGED <<page, shown, told, left>>
    BY <1>12 DEF Backfill, run, reader
  <2> HIDE DEF next
  <2>3. /\ Beyond(conn.sent) \in SUBSET log
        /\ \A e \in log : conn.sent < e.seq => e \in Beyond(conn.sent)
    <3>1. \A e \in log : conn.sent < e.seq => e.seq > conn.sent
      <4>1. conn.sent \in 0 .. MaxSeq /\ \A e \in log : e.seq \in 1 .. MaxSeq
        BY <1>0, <1>a, HandlerFields, EventFields DEF LogOK
      <4> QED BY <4>1
    <3> QED BY <3>1 DEF Beyond
  <2>4. SourcesOK' /\ RestOK'
    BY <1>0, <2>2 DEF SourcesOK, RestOK
  <2> QED BY <1>a, <2>1, <2>2, <2>3, <2>4, SendKeeps
<1>13. CASE Live
  <2>1. /\ Send({Head(wire)}, conn) /\ conn.pc # "none"
        /\ wire # << >> /\ wire' = Tail(wire)
        /\ UNCHANGED <<client, live, log, finished, outbox, redis>>
        /\ UNCHANGED <<page, shown, told, left>>
    BY <1>13 DEF Live, run, reader
  <2>2. /\ wire' \in Seq(Events)
        /\ ToSet(wire) = {Head(wire)} \cup ToSet(wire')
    BY <1>0, <2>1, Beheading DEF SourcesOK
  <2>3. live /\ {Head(wire)} \in SUBSET log
    BY <1>0, <2>1, <2>2 DEF SourcesOK
  <2>4. SourcesOK' /\ RestOK'
    BY <1>0, <2>1, <2>2, <2>3 DEF SourcesOK, RestOK
  <2> QED BY <1>a, <2>1, <2>3, <2>4, SendKeeps
<1>14. CASE PollReturn
  <2> DEFINE next == Polled(conn)
  <2>1. /\ next \in Handlers /\ next.sent = conn.sent /\ next.read = {}
        /\ ~next.polling /\ next.pc \in {"over", "tail"}
    BY <1>a DEF Polled, Handlers
  <2>2. /\ Send(conn.read, next) /\ conn.pc # "none" /\ conn.polling
        /\ wire' = IF next.pc = "over" THEN << >> ELSE wire
        /\ UNCHANGED <<client, live, log, finished, outbox, redis>>
        /\ UNCHANGED <<page, shown, told, left>>
    BY <1>14 DEF PollReturn, run, reader
  <2> HIDE DEF next
  <2>3. SourcesOK' /\ RestOK'
    BY <1>0, <2>2, EmptyFacts DEF SourcesOK, RestOK
  <2> QED BY <1>a, <2>1, <2>2, <2>3, SendKeeps
<1>15. CASE Sent
  <2>1. /\ UNCHANGED <<client, live, log, finished, outbox, redis, conn, wire, pipe>>
        /\ UNCHANGED <<shown, told, left>>
        /\ page = "sending" /\ page' \in {"open", "refused"}
    BY <1>15 DEF Sent, run
  <2>2. client = "page" /\ conn.pc = "none"
    BY <1>0, <2>1 DEF RestOK, HandlerOK
  <2>3. LogOK' /\ SourcesOK' /\ HandlerOK' /\ PipeOK' /\ ShownOK' /\ WholeOK'
    BY <1>0, <2>1, <2>2 DEF LogOK, SourcesOK, HandlerOK, PipeOK, ShownOK, WholeOK,
                            NothingSkipped, Listened
  <2>4. ToldOK' /\ RestOK'
    BY <1>0, <2>1, <2>2 DEF ToldOK, RestoredWhole, RestOK
  <2> QED BY <2>3, <2>4 DEF StreamInv
<1>16. CASE Receive
  BY <1>16, ReceiveKeeps
<1>17. CASE ResponseEnds \/ ConnectionBreaks
  <2>1. left' \in [FaultKinds -> Nat]
    <3>1. CASE ConnectionBreaks
      BY <1>0, <3>1, Spending DEF ConnectionBreaks, FaultKinds
    <3>2. CASE UNCHANGED left
      BY <1>0, <3>2 DEF RestOK
    <3> QED BY <1>17, <3>1, <3>2 DEF ResponseEnds
  <2>2. /\ UNCHANGED <<client, live, log, finished, outbox, redis, shown, told>>
        /\ CutOff
    BY <1>17 DEF ResponseEnds, ConnectionBreaks, Disconnected, run
  <2>a. \/ page' = HungUp
        \/ client = "page" /\ page' = "dead"
    BY <1>17 DEF ResponseEnds, ConnectionBreaks, Disconnected
  <2>3. page \in {"open", "last"}
    BY <1>0, <1>17 DEF HandlerOK, ResponseEnds, ConnectionBreaks
  <2>4. RestOK' /\ ToldOK'
    BY <1>0, <2>1, <2>2, <2>a, <2>3 DEF RestOK, ToldOK, RestoredWhole, HungUp
  <2>5. ~live => NothingSkipped'
    BY <1>0, <2>2 DEF WholeOK, NothingSkipped, Listened
  <2> QED BY <1>0, <2>2, <2>4, <2>5, CutKeeps DEF ShownOK
<1>18. CASE Reload
  <2>1. left' \in [FaultKinds -> Nat]
    BY <1>0, <1>18, Spending DEF Reload, FaultKinds
  <2>2. /\ UNCHANGED <<client, live, log, finished, outbox, redis>>
        /\ CutOff /\ page' = "loading" /\ shown' = << >> /\ told' = finished
        /\ client = "page"
    BY <1>18 DEF Reload, run
  <2>3. RestOK' /\ ToldOK'
    BY <1>0, <2>1, <2>2 DEF RestOK, ToldOK, RestoredWhole
  <2>4. NothingSkipped'
    <3>1. \A e \in log : e.seq \in 1 .. MaxSeq
      BY <1>0, EventFields DEF LogOK
    <3>2. ToSet(shown') = {} /\ LastSeq(shown') = 0 /\ log' = log
      BY <2>2, EmptyFacts
    <3> QED BY <3>1, <3>2 DEF NothingSkipped
  <2> QED BY <2>2, <2>3, <2>4, EmptyFacts, CutKeeps
<1>19. CASE Restore
  BY <1>19, RestoreKeeps
<1>20. CASE UNCHANGED vars
  <2>1. SourcesOK' /\ RestOK'
    BY <1>0, <1>20 DEF vars, SourcesOK, RestOK, run, reader
  <2> QED BY <1>3, <1>20, <2>1 DEF vars
<1> QED
  BY <1>1, <1>2, <1>4, <1>5, <1>6, <1>8, <1>9, <1>10, <1>11, <1>12, <1>13, <1>14,
     <1>15, <1>16, <1>17, <1>18, <1>19, <1>20
  DEF Next, Worker, Handler, Client

-----------------------------------------------------------------------------
(* Theorems. *)

LEMMA StreamInvariant == Spec => []StreamInv
BY StreamStart, StreamStep, PTL DEF Spec

\* The log, the handler, what is on its way and what the client shows keep their
\* types whatever breaks (GET /runs/:id/stream, emitEvent, page.tsx, harness.ts).
THEOREM StreamTypes == Spec => []TypeOK
<1>1. StreamInv => TypeOK
  BY DEF StreamInv, LogOK, SourcesOK, HandlerOK, PipeOK, ShownOK, RestOK, TypeOK
<1> QED BY <1>1, StreamInvariant, PTL

\* Nothing is shown twice or out of order: what the mark of a connection
\* (sentSeq) and the mark of the page (lastSeq) let through increases, across
\* live pushes, polls, reconnections and reloads.
THEOREM ShownOnceInOrder == Spec => []ShownInOrder
<1>1. StreamInv => ShownInOrder
  BY DEF StreamInv, ShownOK, ShownInOrder
<1> QED BY <1>1, StreamInvariant, PTL

\* Nothing is pushed, written or shown before it is in MongoDB: emitEvent
\* inserts first.
THEOREM ShownIsDurable == Spec => []Durable
<1>1. StreamInv => Durable
  BY DEF StreamInv, SourcesOK, PipeOK, ShownOK, Durable, Everywhere
<1> QED BY <1>1, StreamInvariant, PTL

\* While workers push nothing, the poll of the handler alone shows the log
\* without a hole, however often the connection breaks.
THEOREM FallbackLeavesNoHole == Spec => []FallbackIsComplete
<1>1. StreamInv => FallbackIsComplete
  BY DEF StreamInv, WholeOK, FallbackIsComplete
<1> QED BY <1>1, StreamInvariant, PTL

\* A page loaded anew that is told its run is done has the ending: the status
\* is read before the events (GET /api/thread/:threadId).
THEOREM RestoredHasReply == Spec => []RestoredWhole
<1>1. StreamInv => RestoredWhole
  BY DEF StreamInv, ToldOK
<1> QED BY <1>1, StreamInvariant, PTL
=============================================================================
