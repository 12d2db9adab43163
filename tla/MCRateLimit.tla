---------------------------- MODULE MCRateLimit ---------------------------
(* RateLimit on a small scale: a window of three slots, and a quota with    *)
(* room for one request more.                                               *)
EXTENDS RateLimit
=============================================================================
