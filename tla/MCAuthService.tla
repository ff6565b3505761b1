---------------------------- MODULE MCAuthService ----------------------------
(***************************************************************************)
(* Instances of AuthService for TLC.  An access token lives one tick and a *)
(* refresh token two, so that both expire within the bound, and a session  *)
(* outlives its access token.                                              *)
(***************************************************************************)
EXTENDS AuthService, TLC

CONSTANTS r1, r2, r3, r4, alice, bob

\* Requests run the same code.
AllRequests == Permutations(Requests)
=============================================================================
