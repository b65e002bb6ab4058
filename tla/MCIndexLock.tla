----------------------------- MODULE MCIndexLock ----------------------------
(* Two callers of one service and one of another process; two of one.     *)
EXTENDS IndexLock

MCHome == [c \in Caller |-> IF c = "other" THEN "s2" ELSE "s1"]

=============================================================================
