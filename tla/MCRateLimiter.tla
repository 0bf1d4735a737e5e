--------------------------- MODULE MCRateLimiter ---------------------------
(* Instances of RateLimiter for TLC.                                        *)
EXTENDS RateLimiter

CONSTANTS
  host,   \* an address
  MaxNow  \* bound: how long the clock runs

BoundedSpec == LimiterInit /\ [][LimiterNext /\ now' <= MaxNow]_limiter
=============================================================================
