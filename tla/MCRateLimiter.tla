---------------------------- MODULE MCRateLimiter ----------------------------
(* A small instance of RateLimiter: two connections; the client of either may *)
(* give the address of the first for its own.  Two keys with windows that     *)
(* begin at any time of each other are enough: nothing relates more of them.  *)
EXTENDS RateLimiter

CONSTANTS c1, c2

MCRemoteAddr == {c1, c2}
MCHeader == {c1}
=============================================================================
