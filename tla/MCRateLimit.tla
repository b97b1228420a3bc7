--------------------------- MODULE MCRateLimit ---------------------------
(***************************************************************************)
(* An instance of RateLimit for TLC.                                       *)
(***************************************************************************)
EXTENDS RateLimit

CONSTANTS c1, c2

MCCallers     == {c1, c2}
MCRetryAfters == {2}
=============================================================================
