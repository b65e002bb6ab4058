-------------------------- MODULE ActiveGeneration --------------------------
(***************************************************************************)
(* What a replaceable service promises to its callers: at most one         *)
(* generation of it is active, a call uses one generation from its         *)
(* beginning to its end, and the active one is replaced by a new one, or   *)
(* closed for good, only while no call uses it.                            *)
(***************************************************************************)
CONSTANTS
  Caller,
  Generation,
  Nothing      \* no generation

VARIABLES
  active,      \* the active generation, or Nothing when closed
  using,       \* [Caller -> the generation a call uses, or Nothing]
  retired      \* generations that were active before

vars == <<active, using, retired>>

Quiet == \A c \in Caller : using[c] = Nothing

Init ==
  /\ active \in Generation
  /\ using = [c \in Caller |-> Nothing]
  /\ retired = {}

Begin(c) ==
  /\ using[c] = Nothing
  /\ active # Nothing
  /\ using' = [using EXCEPT ![c] = active]
  /\ UNCHANGED <<active, retired>>

End(c) ==
  /\ using' = [using EXCEPT ![c] = Nothing]
  /\ UNCHANGED <<active, retired>>

Replace(g) ==
  /\ Quiet
  /\ active # Nothing
  /\ g \notin retired \cup {active}
  /\ active' = g
  /\ retired' = retired \cup {active}
  /\ UNCHANGED using

Close ==
  /\ Quiet
  /\ active # Nothing
  /\ active' = Nothing
  /\ retired' = retired \cup {active}
  /\ UNCHANGED using

Next ==
  \/ \E c \in Caller : Begin(c) \/ End(c)
  \/ \E g \in Generation : Replace(g)
  \/ Close

Spec == Init /\ [][Next]_vars

=============================================================================
