------------------------- MODULE MCWorkerSupervisor -------------------------
(* Three callers, two executables.                                         *)
EXTENDS WorkerSupervisor

CONSTANTS c1, c2, c3

MCCaller == {c1, c2, c3}

=============================================================================
