--------------------------- MODULE UpgradedIndex ----------------------------
(***************************************************************************)
(* What creating and upgrading the index promises: one index, from nothing *)
(* or from a legacy one, to a complete index of the current schema.  It is *)
(* never lost, and a legacy index gives way to a complete one in one step. *)
(***************************************************************************)
VARIABLE index   \* "nothing", "v1" (legacy), "empty" or "full" (current schema)

Init == index \in {"nothing", "v1", "full"}

Create == index = "nothing" /\ index' = "empty"
Fill == index = "empty" /\ index' = "full"
Upgrade == index = "v1" /\ index' = "full"

Next == Create \/ Fill \/ Upgrade

Spec == Init /\ [][Next]_index

=============================================================================
