------------------------- MODULE RateLimiterProofs -------------------------
(***************************************************************************)
(* Theorems about RateLimiter, for any limit, any window and any number of *)
(* addresses.                                                              *)
(*                                                                         *)
(* The invariant relates the entry of an address to the history of what    *)
(* was let through: the last of it, as many as the entry counts and at     *)
(* most the limit, fell into the entry's window, and what is older by a    *)
(* whole limit lies more than a window before its start.                   *)
(***************************************************************************)
EXTENDS RateLimiter, TLAPS

\* How much of the limit the entry w has used.
Spent(w) == IF w.count < Limit THEN w.count ELSE Limit

\* The entry w of an address that was let through at the times q, at time t.
Tracks(w, q, t) ==
  /\ \A i \in 1 .. Len(q) : q[i] <= t
  /\ w = None =>
       \A i \in 1 .. Len(q) :
         /\ q[i] < t
         /\ i <= Len(q) - Limit => q[i] + WindowMs < t
  /\ w # None =>
       /\ w.startedAt <= t
       /\ Spent(w) <= Len(q)
       /\ \A i \in 1 .. Len(q) :
            /\ i > Len(q) - Spent(w) =>
                 w.startedAt <= q[i] /\ q[i] <= w.startedAt + WindowMs
            /\ i <= Len(q) - Spent(w) => q[i] < w.startedAt
            /\ i <= Len(q) - Spent(w) - Limit => q[i] + WindowMs < w.startedAt

\* AtMostTwice of one address.
Sparse(q) ==
  \A i \in 1 .. Len(q) :
    i + 2 * Limit <= Len(q) => q[i + 2 * Limit] - q[i] > WindowMs

LimiterInv ==
  /\ LimiterTypeOK
  /\ \A k \in Keys : Tracks(windows[k], admitted[k], now) /\ Sparse(admitted[k])

\* The window w is over at time t.
Late(w, t) == w.startedAt + WindowMs < t

LEMMA LimitType == Limit \in Nat /\ Limit >= 1
BY LimiterAssumption DEF Limit

\* A request that opens a window is let through.
LEMMA Opens ==
  ASSUME NEW w \in Windows \cup {None}, NEW q \in Seq(Nat), NEW t \in Nat,
         Tracks(w, q, t), Sparse(q),
         w = None \/ (w # None /\ t - w.startedAt > WindowMs)
  PROVE  /\ Tracks([count |-> 1, startedAt |-> t], Append(q, t), t)
         /\ Sparse(Append(q, t))
<1> DEFINE new == [count |-> 1, startedAt |-> t]
           p == Append(q, t)
<1>1. /\ Len(p) = Len(q) + 1 /\ p[Len(q) + 1] = t
      /\ \A i \in 1 .. Len(q) : p[i] = q[i] /\ q[i] \in Nat
  OBVIOUS
<1>2. Len(q) \in Nat /\ WindowMs \in Nat
  BY LimiterAssumption
<1>3. new # None
  <2>1. new \in [count : Nat, startedAt : Nat]
    OBVIOUS
  <2> QED BY <2>1, LimiterAssumption
<1>4. Spent(new) = 1
  BY LimitType DEF Spent
<1>5. /\ \A i \in 1 .. Len(q) : q[i] < t
      /\ \A i \in 1 .. Len(q) : i <= Len(q) - Limit => q[i] + WindowMs < t
  <2>1. CASE w = None
    BY <2>1 DEF Tracks
  <2>2. CASE w # None /\ t - w.startedAt > WindowMs
    <3>1. w.startedAt \in Nat /\ w.count \in Nat
      BY <2>2 DEF Windows
    <3>2. Spent(w) \in Nat /\ Spent(w) <= Limit
      BY <3>1, LimitType DEF Spent
    <3>3. \A i \in 1 .. Len(q) :
            /\ i > Len(q) - Spent(w) => q[i] <= w.startedAt + WindowMs
            /\ i <= Len(q) - Spent(w) => q[i] < w.startedAt
      BY <2>2 DEF Tracks
    <3>4. Late(w, t)
      BY <1>2, <2>2, <3>1, LimiterAssumption DEF Late
    <3> HIDE DEF new, p
    <3>5. ASSUME NEW i \in 1 .. Len(q)
          PROVE  q[i] < t /\ (i <= Len(q) - Limit => q[i] + WindowMs < t)
      <4>1. q[i] \in Nat
        BY <1>1
      <4>2. CASE i > Len(q) - Spent(w)
        <5>1. q[i] <= w.startedAt + WindowMs
          BY <3>3, <4>2
        <5>2. ~(i <= Len(q) - Limit)
          BY <1>2, <3>2, <4>2, LimitType
        <5> QED BY <1>2, <3>1, <3>4, <4>1, <5>1, <5>2 DEF Late
      <4>3. CASE i <= Len(q) - Spent(w)
        <5>1. q[i] < w.startedAt
          BY <3>3, <4>3
        <5> QED BY <1>2, <3>1, <3>4, <4>1, <5>1 DEF Late
      <4> QED BY <1>2, <3>2, <4>2, <4>3
    <3> QED BY <3>5
  <2> QED BY <2>1, <2>2
<1>6. Tracks(new, p, t)
  <2>1. \A i \in 1 .. Len(p) : p[i] <= t
    BY <1>1, <1>2, <1>5
  <2>2. new.startedAt <= t /\ Spent(new) <= Len(p)
    BY <1>1, <1>2, <1>4
  <2>3. \A i \in 1 .. Len(p) :
          /\ i > Len(p) - Spent(new) => i = Len(q) + 1
          /\ i <= Len(p) - Spent(new) => i \in 1 .. Len(q)
          /\ i <= Len(p) - Spent(new) - Limit =>
               i \in 1 .. Len(q) /\ i <= Len(q) - Limit
    BY <1>1, <1>2, <1>4, LimitType
  <2> HIDE DEF p, new
  <2>4. \A i \in 1 .. Len(p) :
          /\ i > Len(p) - Spent(new) => t <= p[i] /\ p[i] <= t + WindowMs
          /\ i <= Len(p) - Spent(new) => p[i] < t
          /\ i <= Len(p) - Spent(new) - Limit => p[i] + WindowMs < t
    BY <1>1, <1>2, <1>5, <2>3
  <2>5. new.startedAt = t
    BY DEF new
  <2> QED BY <1>3, <2>1, <2>2, <2>4, <2>5 DEF Tracks
<1>7. Sparse(p)
  <2> SUFFICES ASSUME NEW i \in 1 .. Len(p), i + 2 * Limit <= Len(p)
               PROVE  p[i + 2 * Limit] - p[i] > WindowMs
    BY DEF Sparse
  <2>1. i \in 1 .. Len(q) /\ i <= Len(q) - Limit
    BY <1>1, <1>2, LimitType
  <2>2. CASE i + 2 * Limit = Len(q) + 1
    BY <1>1, <1>2, <1>5, <2>1, <2>2
  <2>3. CASE i + 2 * Limit <= Len(q)
    <3>1. q[i + 2 * Limit] - q[i] > WindowMs
      BY <2>1, <2>3 DEF Sparse
    <3>2. i + 2 * Limit \in 1 .. Len(q)
      BY <1>2, <2>1, <2>3, LimitType
    <3> QED BY <1>1, <2>1, <3>1, <3>2
  <2>4. i + 2 * Limit <= Len(q) \/ i + 2 * Limit = Len(q) + 1
    BY <1>1, <1>2, <2>1, LimitType
  <2> QED BY <2>2, <2>3, <2>4
<1> QED BY <1>6, <1>7

\* A request within a window that is not used up is let through.
LEMMA Counts ==
  ASSUME NEW w \in Windows, NEW q \in Seq(Nat), NEW t \in Nat, w # None,
         Tracks(w, q, t), Sparse(q),
         t - w.startedAt <= WindowMs, w.count < Limit,
         NEW v \in Windows, v.count = w.count + 1, v.startedAt = w.startedAt
  PROVE  Tracks(v, Append(q, t), t) /\ Sparse(Append(q, t))
<1> DEFINE p == Append(q, t)
<1>1. /\ Len(p) = Len(q) + 1 /\ p[Len(q) + 1] = t
      /\ \A i \in 1 .. Len(q) : p[i] = q[i] /\ q[i] \in Nat
  OBVIOUS
<1>2. /\ Len(q) \in Nat /\ WindowMs \in Nat
      /\ w.startedAt \in Nat /\ w.count \in Nat
  BY LimiterAssumption DEF Windows
<1>3. v # None
  BY LimiterAssumption DEF Windows
<1>4. Spent(w) = w.count /\ Spent(v) = w.count + 1
  BY <1>2, LimitType DEF Spent
<1>5. /\ \A i \in 1 .. Len(q) : q[i] <= t
      /\ w.startedAt <= t /\ w.count <= Len(q)
      /\ \A i \in 1 .. Len(q) :
           /\ i > Len(q) - w.count =>
                w.startedAt <= q[i] /\ q[i] <= w.startedAt + WindowMs
           /\ i <= Len(q) - w.count => q[i] < w.startedAt
           /\ i <= Len(q) - w.count - Limit => q[i] + WindowMs < w.startedAt
  BY <1>4 DEF Tracks
<1> HIDE DEF p
<1>6. Tracks(v, p, t)
  <2>1. ASSUME NEW i \in 1 .. Len(p) PROVE p[i] <= t
    <3>1. CASE i = Len(q) + 1
      BY <1>1, <3>1
    <3>2. CASE i \in 1 .. Len(q)
      BY <1>1, <1>5, <3>2
    <3> QED BY <1>1, <1>2, <3>1, <3>2
  <2>2. v.startedAt <= t /\ Spent(v) <= Len(p)
    BY <1>1, <1>2, <1>4, <1>5
  <2>3. \A i \in 1 .. Len(p) :
          /\ i > Len(p) - Spent(v) =>
               w.startedAt <= p[i] /\ p[i] <= w.startedAt + WindowMs
          /\ i <= Len(p) - Spent(v) => p[i] < w.startedAt
          /\ i <= Len(p) - Spent(v) - Limit => p[i] + WindowMs < w.startedAt
    <3> SUFFICES ASSUME NEW i \in 1 .. Len(p)
                 PROVE  /\ i > Len(p) - Spent(v) =>
                            w.startedAt <= p[i] /\ p[i] <= w.startedAt + WindowMs
                        /\ i <= Len(p) - Spent(v) => p[i] < w.startedAt
                        /\ i <= Len(p) - Spent(v) - Limit =>
                             p[i] + WindowMs < w.startedAt
      OBVIOUS
    <3>1. CASE i = Len(q) + 1
      BY <1>1, <1>2, <1>4, <1>5, <3>1, LimitType
    <3>2. CASE i \in 1 .. Len(q)
      <4>1. p[i] = q[i]
        BY <1>1, <3>2
      <4>2. /\ i > Len(p) - Spent(v) <=> i > Len(q) - w.count
            /\ i <= Len(p) - Spent(v) <=> i <= Len(q) - w.count
            /\ i <= Len(p) - Spent(v) - Limit <=> i <= Len(q) - w.count - Limit
        BY <1>1, <1>2, <1>4, LimitType
      <4> QED BY <1>5, <3>2, <4>1, <4>2
    <3> QED BY <1>1, <1>2, <3>1, <3>2
  <2> QED BY <1>3, <2>1, <2>2, <2>3 DEF Tracks
<1>7. Sparse(p)
  <2> SUFFICES ASSUME NEW i \in 1 .. Len(p), i + 2 * Limit <= Len(p)
               PROVE  p[i + 2 * Limit] - p[i] > WindowMs
    BY DEF Sparse
  <2>1. i \in 1 .. Len(q)
    BY <1>1, <1>2, LimitType
  <2>2. CASE i + 2 * Limit = Len(q) + 1
    <3>1. i <= Len(q) - w.count - Limit
      BY <1>2, <2>2, LimitType
    <3>2. q[i] + WindowMs < w.startedAt
      BY <1>5, <2>1, <3>1
    <3>3. q[i] \in Nat /\ p[i] = q[i] /\ p[i + 2 * Limit] = t
      BY <1>1, <2>1, <2>2
    <3> QED BY <1>2, <1>5, <3>2, <3>3
  <2>3. CASE i + 2 * Limit <= Len(q)
    <3>1. q[i + 2 * Limit] - q[i] > WindowMs
      BY <2>1, <2>3 DEF Sparse
    <3>2. i + 2 * Limit \in 1 .. Len(q)
      BY <1>2, <2>1, <2>3, LimitType
    <3> QED BY <1>1, <2>1, <3>1, <3>2
  <2>4. i + 2 * Limit <= Len(q) \/ i + 2 * Limit = Len(q) + 1
    <3>1. Limit \in Nat /\ Len(q) \in Nat /\ i \in Nat
      BY <1>2, LimitType
    <3>2. i + 2 * Limit <= Len(q) + 1
      BY <1>1
    <3> QED BY <3>1, <3>2
  <2> QED BY <2>2, <2>3, <2>4
<1> QED BY <1>6, <1>7 DEF p

\* A request that is refused uses nothing up.
LEMMA Refuses ==
  ASSUME NEW w \in Windows, NEW q \in Seq(Nat), NEW t \in Nat,
         Tracks(w, q, t), w.count >= Limit,
         NEW v \in Windows, v.count = w.count + 1, v.startedAt = w.startedAt
  PROVE  Tracks(v, q, t)
<1>1. w # None /\ v # None
  BY LimiterAssumption DEF Windows
<1>2. Spent(v) = Spent(w)
  BY LimitType DEF Spent, Windows
<1> QED BY <1>1, <1>2 DEF Tracks

\* A window that has expired may be forgotten.
LEMMA Forgets ==
  ASSUME NEW w \in Windows, NEW q \in Seq(Nat), NEW t \in Nat,
         Tracks(w, q, t), t - w.startedAt > WindowMs
  PROVE  Tracks(None, q, t)
<1>1. w # None
  BY LimiterAssumption DEF Windows
<1>2. /\ Len(q) \in Nat /\ WindowMs \in Nat
      /\ w.startedAt \in Nat /\ w.count \in Nat
      /\ \A i \in 1 .. Len(q) : q[i] \in Nat
  BY LimiterAssumption DEF Windows
<1>3. Spent(w) \in Nat /\ Spent(w) <= Limit
  BY <1>2, LimitType DEF Spent
<1>4. \A i \in 1 .. Len(q) :
        /\ i > Len(q) - Spent(w) => q[i] <= w.startedAt + WindowMs
        /\ i <= Len(q) - Spent(w) => q[i] < w.startedAt
  BY <1>1 DEF Tracks
<1>5. \A i \in 1 .. Len(q) :
        /\ q[i] < t
        /\ i <= Len(q) - Limit => q[i] + WindowMs < t
  <2>1. w.startedAt + WindowMs < t
    BY <1>2
  <2> SUFFICES ASSUME NEW i \in 1 .. Len(q)
               PROVE  q[i] < t /\ (i <= Len(q) - Limit => q[i] + WindowMs < t)
    OBVIOUS
  <2>2. q[i] \in Nat
    BY <1>2
  <2>3. CASE i > Len(q) - Spent(w)
    <3>1. q[i] <= w.startedAt + WindowMs
      BY <1>4, <2>3
    <3>2. ~(i <= Len(q) - Limit)
      BY <1>2, <1>3, <2>3, LimitType
    <3> QED BY <1>2, <2>1, <2>2, <3>1, <3>2
  <2>4. CASE i <= Len(q) - Spent(w)
    <3>1. q[i] < w.startedAt
      BY <1>4, <2>4
    <3> QED BY <1>2, <2>1, <2>2, <3>1
  <2> QED BY <1>2, <1>3, <2>3, <2>4
<1>6. \A i \in 1 .. Len(q) : q[i] <= t
  BY DEF Tracks
<1> QED BY <1>5, <1>6 DEF Tracks

LEMMA Waits ==
  ASSUME NEW w \in Windows \cup {None}, NEW q \in Seq(Nat), NEW t \in Nat,
         Tracks(w, q, t)
  PROVE  Tracks(w, q, t + 1)
<1>1. /\ Len(q) \in Nat /\ WindowMs \in Nat
      /\ \A i \in 1 .. Len(q) : q[i] \in Nat
  BY LimiterAssumption
<1>2. CASE w = None
  BY <1>1, <1>2 DEF Tracks
<1>3. CASE w # None
  <2>1. w.startedAt \in Nat
    BY <1>3 DEF Windows
  <2>2. w.startedAt <= t + 1
    BY <1>3, <2>1 DEF Tracks
  <2>3. \A i \in 1 .. Len(q) : q[i] <= t + 1
    BY <1>1 DEF Tracks
  <2> QED BY <1>3, <2>2, <2>3 DEF Tracks
<1> QED BY <1>2, <1>3

-----------------------------------------------------------------------------
LEMMA LimiterStarts == LimiterInit => LimiterInv
<1> SUFFICES ASSUME LimiterInit PROVE LimiterInv
  OBVIOUS
<1>1. LimiterTypeOK
  BY DEF LimiterInit, LimiterTypeOK
<1>2. ASSUME NEW k \in Keys
      PROVE  Tracks(windows[k], admitted[k], now) /\ Sparse(admitted[k])
  <2>1. windows[k] = None /\ admitted[k] = << >> /\ now = 0
    BY DEF LimiterInit
  <2> QED BY <2>1 DEF Tracks, Sparse
<1> QED BY <1>1, <1>2 DEF LimiterInv

\* The steps of one address's request.
LEMMA RequestStep ==
  ASSUME LimiterInv, NEW k \in Keys, Admit(k) \/ Refuse(k)
  PROVE  LimiterInv'
<1> USE DEF LimiterInv
<1>1. /\ now \in Nat /\ now' = now
      /\ \A j \in Keys : windows[j] \in Windows \cup {None}
      /\ \A j \in Keys : admitted[j] \in Seq(Nat)
  BY DEF LimiterTypeOK, Admit, Refuse
<1>2. /\ WindowMs \in Nat /\ MaxRequests \in Nat
  BY LimiterAssumption
<1>3. \A j \in Keys : j # k =>
        windows'[j] = windows[j] /\ admitted'[j] = admitted[j]
  BY DEF Admit, Refuse, LimiterTypeOK
<1>4. /\ windows'[k] \in Windows \cup {None} /\ admitted'[k] \in Seq(Nat)
      /\ Tracks(windows'[k], admitted'[k], now) /\ Sparse(admitted'[k])
  <2>1. CASE Fresh(k) /\ Admit(k)
    <3>1. /\ windows'[k] = [count |-> 1, startedAt |-> now]
          /\ admitted'[k] = Append(admitted[k], now)
      BY <2>1 DEF Admit, LimiterTypeOK
    <3>2. windows[k] = None \/ (windows[k] # None /\ now - windows[k].startedAt > WindowMs)
      BY <2>1 DEF Fresh, Expired
    <3>3. windows'[k] \in Windows
      BY <1>1, <3>1 DEF Windows
    <3>4. admitted'[k] \in Seq(Nat)
      BY <1>1, <3>1
    <3> QED BY <1>1, <3>1, <3>2, <3>3, <3>4, Opens
  <2>2. CASE ~Fresh(k)
    <3>1. PICK w \in Windows : w = windows[k]
      BY <1>1, <2>2 DEF Fresh
    <3>2. w.count \in Nat \ {0} /\ w.startedAt \in Nat
      BY DEF Windows
    <3>3. now - w.startedAt <= WindowMs
      BY <1>1, <1>2, <2>2, <3>1, <3>2 DEF Fresh, Expired
    <3>4. PICK v \in Windows :
            /\ v = Counted(k)
            /\ v.count = w.count + 1 /\ v.startedAt = w.startedAt
      <4>1. Counted(k) = [w EXCEPT !.count = w.count + 1]
        BY <3>1 DEF Counted
      <4>2. w = [count |-> w.count, startedAt |-> w.startedAt]
        BY DEF Windows
      <4>3. Counted(k) = [count |-> w.count + 1, startedAt |-> w.startedAt]
        BY <4>1, <4>2
      <4>4. Counted(k) \in Windows
        BY <3>2, <4>3 DEF Windows
      <4> QED BY <4>3, <4>4
    <3>5. v.count = w.count + 1 /\ v.startedAt = w.startedAt
      BY <3>4
    <3>6. windows'[k] = v
      BY <2>2, <3>4 DEF Admit, Refuse, LimiterTypeOK
    <3>7. w # None
      BY LimiterAssumption DEF Windows
    <3>8. CASE Admit(k)
      <4>1. admitted'[k] = Append(admitted[k], now)
        BY <3>8 DEF Admit, LimiterTypeOK
      <4>2. v.count <= MaxRequests
        BY <2>2, <3>4, <3>8 DEF Admit
      <4>3. w.count < Limit
        BY <1>2, <3>2, <3>5, <4>2 DEF Limit
      <4>4. admitted'[k] \in Seq(Nat)
        BY <1>1, <4>1
      <4> QED BY <1>1, <3>1, <3>3, <3>5, <3>6, <3>7, <4>1, <4>3, <4>4, Counts
    <3>9. CASE Refuse(k)
      <4>1. admitted'[k] = admitted[k]
        BY <3>9 DEF Refuse
      <4>2. v.count > MaxRequests
        BY <3>4, <3>9 DEF Refuse
      <4>3. w.count >= Limit
        BY <1>2, <3>2, <3>5, <4>2 DEF Limit
      <4> QED BY <1>1, <3>1, <3>5, <3>6, <4>1, <4>3, Refuses
    <3> QED BY <3>8, <3>9
  <2> QED BY <2>1, <2>2 DEF Refuse
<1>5. windows' \in [Keys -> Windows \cup {None}] /\ admitted' \in [Keys -> Seq(Nat)]
  <2>1. /\ windows' = [windows EXCEPT ![k] = windows'[k]]
        /\ admitted' = [admitted EXCEPT ![k] = admitted'[k]]
    BY DEF Admit, Refuse, LimiterTypeOK
  <2> QED BY <1>4, <2>1 DEF LimiterTypeOK
<1>6. LimiterTypeOK'
  BY <1>1, <1>5 DEF LimiterTypeOK
<1>7. ASSUME NEW j \in Keys
      PROVE  Tracks(windows'[j], admitted'[j], now') /\ Sparse(admitted'[j])
  BY <1>1, <1>3, <1>4
<1>8. \A j \in Keys : (Tracks(windows[j], admitted[j], now) /\ Sparse(admitted[j]))'
  BY <1>7 DEF Tracks, Sparse, Spent, Limit
<1> QED BY <1>6, <1>8

LEMMA LimiterStep == LimiterInv /\ [LimiterNext]_limiter => LimiterInv'
<1> SUFFICES ASSUME LimiterInv, [LimiterNext]_limiter PROVE LimiterInv'
  OBVIOUS
<1>1. /\ now \in Nat
      /\ \A k \in Keys : /\ windows[k] \in Windows \cup {None}
                         /\ admitted[k] \in Seq(Nat)
                         /\ Tracks(windows[k], admitted[k], now)
                         /\ Sparse(admitted[k])
  BY DEF LimiterInv, LimiterTypeOK
<1>2. ASSUME NEW k \in Keys, Admit(k) \/ Refuse(k) PROVE LimiterInv'
  BY <1>2, RequestStep
<1>3. CASE Cleanup
  <2>1. LimiterTypeOK'
    BY <1>3 DEF LimiterInv, LimiterTypeOK, Cleanup
  <2>2. ASSUME NEW k \in Keys
        PROVE  Tracks(windows'[k], admitted'[k], now')
    <3>1. admitted'[k] = admitted[k] /\ now' = now
      BY <1>3 DEF Cleanup
    <3>2. windows'[k] = IF Expired(k) THEN None ELSE windows[k]
      BY <1>3 DEF Cleanup
    <3>3. CASE Expired(k)
      <4>1. windows[k] \in Windows /\ now - windows[k].startedAt > WindowMs
        BY <1>1, <3>3 DEF Expired
      <4>2. Tracks(None, admitted[k], now)
        BY <1>1, <4>1, Forgets
      <4> QED BY <3>1, <3>2, <3>3, <4>2
    <3>4. CASE ~Expired(k)
      BY <1>1, <3>1, <3>2, <3>4
    <3> QED BY <3>3, <3>4
  <2>3. \A k \in Keys : (Tracks(windows[k], admitted[k], now) /\ Sparse(admitted[k]))'
    BY <1>1, <1>3, <2>2 DEF Cleanup, Tracks, Sparse, Spent, Limit
  <2> QED BY <2>1, <2>3 DEF LimiterInv
<1>4. CASE Tick
  <2>1. LimiterTypeOK'
    BY <1>4 DEF LimiterInv, LimiterTypeOK, Tick
  <2>2. \A k \in Keys : Tracks(windows[k], admitted[k], now + 1)
    BY <1>1, Waits
  <2>3. now' = now + 1 /\ windows' = windows /\ admitted' = admitted
    BY <1>4 DEF Tick
  <2>4. \A k \in Keys : (Tracks(windows[k], admitted[k], now) /\ Sparse(admitted[k]))'
    BY <1>1, <2>2, <2>3 DEF Tracks, Sparse, Spent, Limit
  <2> QED BY <2>1, <2>4 DEF LimiterInv
<1>5. CASE UNCHANGED limiter
  BY <1>5 DEF LimiterInv, LimiterTypeOK, Tracks, Sparse, Spent, Limit, limiter
<1> QED BY <1>2, <1>3, <1>4, <1>5 DEF LimiterNext

LEMMA LimiterInvariant == LimiterSpec => []LimiterInv
BY LimiterStarts, LimiterStep, PTL DEF LimiterSpec

\* The windows and the history keep their types.
THEOREM LimiterTypes == LimiterSpec => []LimiterTypeOK
BY LimiterInvariant, PTL DEF LimiterInv

\* The bound that check keeps in place of the sliding window its comment names:
\* never more than twice the limit within windowMs, however requests, expiries
\* and the cleanup timer fall.
THEOREM AtMostTwiceTheLimit == LimiterSpec => []AtMostTwice
<1>1. LimiterInv => AtMostTwice
  BY DEF LimiterInv, Sparse, AtMostTwice
<1> QED BY <1>1, LimiterInvariant, PTL

\* check refuses no address that has not used up its limit within windowMs.
THEOREM RefusalsHaveCause == LimiterSpec => RefusedForCause
<1>1. ASSUME LimiterInv, NEW k \in Keys, Refuse(k) PROVE UsedUp(k)
  <2>1. /\ now \in Nat /\ windows[k] \in Windows \cup {None}
        /\ admitted[k] \in Seq(Nat) /\ Tracks(windows[k], admitted[k], now)
    BY <1>1 DEF LimiterInv, LimiterTypeOK
  <2>2. PICK w \in Windows : w = windows[k]
    BY <1>1, <2>1 DEF Refuse, Fresh
  <2>3. w.count \in Nat \ {0} /\ w.startedAt \in Nat /\ w # None
    BY LimiterAssumption DEF Windows
  <2>4. w.count + 1 > MaxRequests /\ now - w.startedAt <= WindowMs
    BY <1>1, <2>1, <2>2, <2>3, LimiterAssumption
       DEF Refuse, Fresh, Expired, Counted, Windows
  <2>5. Spent(w) = Limit
    BY <2>3, <2>4, LimiterAssumption DEF Spent, Limit
  <2>6. /\ Limit <= Len(admitted[k])
        /\ \A i \in 1 .. Len(admitted[k]) :
             i > Len(admitted[k]) - Limit => w.startedAt <= admitted[k][i]
    BY <2>1, <2>2, <2>3, <2>5 DEF Tracks
  <2>7. Len(admitted[k]) - Limit + 1 \in 1 .. Len(admitted[k])
    BY <2>1, <2>6, LimitType
  <2>8. w.startedAt <= admitted[k][Len(admitted[k]) - Limit + 1]
    BY <2>1, <2>6, <2>7, LimitType
  <2>9. admitted[k][Len(admitted[k]) - Limit + 1] \in Nat
    BY <2>1, <2>7
  <2>10. now - admitted[k][Len(admitted[k]) - Limit + 1] <= WindowMs
    BY <2>1, <2>3, <2>4, <2>8, <2>9, LimiterAssumption
  <2> QED BY <2>1, <2>6, <2>10, LimitType DEF UsedUp
<1>2. LimiterInv /\ [LimiterNext]_limiter
        => [\A k \in Keys : Refuse(k) => UsedUp(k)]_limiter
  BY <1>1
<1> QED BY <1>2, LimiterInvariant, PTL DEF LimiterSpec, RefusedForCause
=============================================================================
