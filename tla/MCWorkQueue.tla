---------------------------- MODULE MCWorkQueue ----------------------------
(***************************************************************************)
(* An instance of WorkQueue for TLC.                                       *)
(***************************************************************************)
EXTENDS WorkQueue

CONSTANTS p1, p2, w1, w2, j1, j2, j3

MCProducers == {p1, p2}
MCWorkers   == {w1, w2}
MCJobs      == {j1, j2, j3}
=============================================================================
