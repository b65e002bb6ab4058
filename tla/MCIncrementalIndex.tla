------------------------ MODULE MCIncrementalIndex --------------------------
(***************************************************************************)
(* A library a, a second library b that may compete with it or depend on   *)
(* its user, and a user c.  T is declared plainly or in a namespace; calls *)
(* of T prefer the plain one.  c imports a by a class of it, and by two    *)
(* aliases of the metadata: lib/a is spelled like the path of a, @a is not.*)
(***************************************************************************)
EXTENDS IncrementalIndex

Symbol(name, qual) == [name |-> name, qual |-> qual, owner |-> FALSE]
Owner == [name |-> "module", qual |-> "module", owner |-> TRUE]
T == Symbol("T", "T")
NT == Symbol("T", "n.T")
U == Symbol("U", "U")

Ref(from, kind, target) ==
  [from |-> from, to |-> None, kind |-> kind, target |-> target]

MCContents == {"plain", "spaced", "cyclic", "user", "local", "effect", "aliased", "bad"}
MCChoices == [f \in Files |-> CASE f = "a" -> {"plain", "spaced"}
                                [] f = "b" -> {"plain", "cyclic"}
                                [] f = "c" -> {"user", "local", "effect", "aliased", "bad"}]
MCDecls == [c \in Contents |-> CASE c = "plain" -> {Owner, T}
                                 [] c = "spaced" -> {Owner, NT}
                                 [] c = "cyclic" -> {Owner, NT}
                                 [] c = "user" -> {Owner, U}
                                 [] c = "local" -> {Owner, U, T}
                                 [] c \in {"effect", "aliased"} -> {Owner}
                                 [] c = "bad" -> {}]
(* "local" calls its own T: once resolved for good, once provisionally.      *)
MCRefs == [c \in Contents |->
  CASE c = "cyclic" -> {Ref(NT, "calls", "U")}
    [] c = "user" -> {Ref(U, "calls", "T"), Ref(Owner, "imports", "a.T"),
                      Ref(Owner, "module", "@a")}
    [] c = "local" -> {[from |-> U, to |-> T, kind |-> "calls", target |-> None],
                       [from |-> Owner, to |-> T, kind |-> "calls", target |-> "T"]}
    [] c = "effect" -> {Ref(Owner, "module", "@a")}
    [] c = "aliased" -> {Ref(Owner, "module", "lib/a")}
    [] OTHER -> {}]

(* Of an alias, the keys hold only its spelling: of @a none a file has.      *)
MCFileKeys == [f \in Files |-> IF f = "a" THEN {"a", "lib/a"} ELSE {f}]
MCTargets == {"T", "U", "a.T", "lib/a", "@a"}
MCRelationKeys == [t \in Targets |-> IF t = "a.T" THEN {t, "a"} ELSE {t}]
ASSUME OneIsNotCovered == \A t \in Targets : CoveredTarget(t) <=> t # "@a"

MCPathMatch == {"c"} \X {"a.T"} \X {"a"}
MCLeaf == [t \in Targets |-> IF t = "a.T" THEN "T" ELSE None]
MCFactMatch == [m \in Manifests |-> IF m = "alias" THEN {"lib/a", "@a"} \X {"a"} ELSE {}]
=============================================================================
