--------------------------- MODULE MCCodexConfig ----------------------------
(* Two commands of either scope for one name.                              *)
EXTENDS CodexConfig, TLC

CONSTANTS c1, c2

MCCaller == {c1, c2}
CallerSymmetry == Permutations(MCCaller)

NewNameCommands == {o \in Request : o.name # LegacyName}

=============================================================================
