---------------------------- MODULE MCRateLimiter ----------------------------
(***************************************************************************)
(* An instance of RateLimiter for TLC: two requests per window of three    *)
(* seconds, and four ticks in each, so that TTL rounds both up and down,   *)
(* to zero as well.                                                        *)
(***************************************************************************)
EXTENDS RateLimiter, TLC
=============================================================================
