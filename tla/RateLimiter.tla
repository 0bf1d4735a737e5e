---------------------------- MODULE RateLimiter ----------------------------
(***************************************************************************)
(* The limiter in front of POST /runs: one window per client address,      *)
(* opened by the first request after the last one expired, counting every  *)
(* request, and a timer that deletes the windows that have expired.        *)
(* Source: backend/src/lib/rateLimiter.ts.                                 *)
(***************************************************************************)
EXTENDS Integers, Sequences

CONSTANTS
  Keys,         \* client addresses
  WindowMs,     \* config.windowMs
  MaxRequests,  \* config.maxRequests
  None

ASSUME LimiterAssumption ==
  /\ WindowMs \in Nat
  /\ MaxRequests \in Nat
  /\ None \notin [count : Nat, startedAt : Nat]

VARIABLES
  now,      \* Date.now(), which does not go back
  windows,  \* windows
  admitted  \* history: when requests of each address were let through

limiter == <<now, windows, admitted>>

Windows == [count : Nat \ {0}, startedAt : Nat]

-----------------------------------------------------------------------------
(* Plausible bugs, named after the definitions they stand in for. *)

\* The window starts at each request.
MutCounted(k) == [count |-> windows[k].count + 1, startedAt |-> now]

-----------------------------------------------------------------------------
Expired(k) == windows[k] # None /\ now - windows[k].startedAt > WindowMs

Fresh(k) == windows[k] = None \/ Expired(k)

\* The entry after one more request.
Counted(k) == [windows[k] EXCEPT !.count = @ + 1]

\* check, allowed: the first request of a window always is.
Admit(k) ==
  /\ \/ /\ Fresh(k)
        /\ windows' = [windows EXCEPT ![k] = [count |-> 1, startedAt |-> now]]
     \/ /\ ~Fresh(k)
        /\ Counted(k).count <= MaxRequests
        /\ windows' = [windows EXCEPT ![k] = Counted(k)]
  /\ admitted' = [admitted EXCEPT ![k] = Append(@, now)]
  /\ UNCHANGED now

\* check, not allowed: counted all the same.
Refuse(k) ==
  /\ ~Fresh(k)
  /\ Counted(k).count > MaxRequests
  /\ windows' = [windows EXCEPT ![k] = Counted(k)]
  /\ UNCHANGED <<now, admitted>>

\* The timer of the constructor.
Cleanup ==
  /\ windows' = [k \in Keys |-> IF Expired(k) THEN None ELSE windows[k]]
  /\ UNCHANGED <<now, admitted>>

Tick == now' = now + 1 /\ UNCHANGED <<windows, admitted>>

LimiterInit ==
  /\ now = 0
  /\ windows = [k \in Keys |-> None]
  /\ admitted = [k \in Keys |-> << >>]

LimiterNext ==
  \/ \E k \in Keys : Admit(k) \/ Refuse(k)
  \/ Cleanup
  \/ Tick

LimiterSpec == LimiterInit /\ [][LimiterNext]_limiter

-----------------------------------------------------------------------------
(* Properties. *)

LimiterTypeOK ==
  /\ now \in Nat
  /\ windows \in [Keys -> Windows \cup {None}]
  /\ admitted \in [Keys -> Seq(Nat)]

\* What one window lets through: a limit of zero still admits the request that
\* opens it.
Limit == IF MaxRequests = 0 THEN 1 ELSE MaxRequests


\* What the fixed window does keep: two bursts on either side of its end make
\* twice the limit within one windowMs, and never more.
AtMostTwice ==
  \A k \in Keys : \A i \in 1 .. Len(admitted[k]) :
    i + 2 * Limit <= Len(admitted[k]) =>
      admitted[k][i + 2 * Limit] - admitted[k][i] > WindowMs

\* Nobody is refused who has not used up the limit within the last windowMs:
\* rejected requests and other addresses do not count against a client.
UsedUp(k) ==
  /\ Len(admitted[k]) >= Limit
  /\ now - admitted[k][Len(admitted[k]) - Limit + 1] <= WindowMs
RefusedForCause == [][\A k \in Keys : Refuse(k) => UsedUp(k)]_limiter
=============================================================================
