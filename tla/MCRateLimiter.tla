--------------------------- MODULE MCRateLimiter ---------------------------
(* A small instance of RateLimiter for TLC.                                *)
EXTENDS RateLimiter, TLC

CONSTANTS c1, c2

ClientsAlike == Permutations(Clients)
=============================================================================
