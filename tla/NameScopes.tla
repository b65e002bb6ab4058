----------------------------- MODULE NameScopes -----------------------------
(***************************************************************************)
(* Which declaration a call means in C++, C# and PHP: each language looks  *)
(* a name up in the scopes around the caller and stops at the first one    *)
(* that has something of that name.  No language falls back to any other   *)
(* declaration that happens to have it.                                    *)
(*                                                                         *)
(* A name, a path or a target is the sequence of its words and separators. *)
(***************************************************************************)
EXTENDS Naturals, Sequences, SequencesExt

CONSTANTS
  LowerCase,   \* [words with capitals -> the words in lower case]
  Anonymous    \* [paths -> the word "(anonymous@path)"]

-----------------------------------------------------------------------------
Before(t, i) == SubSeq(t, 1, i - 1)
Behind(t, i) == SubSeq(t, i + 1, Len(t))

LastAt(t, mark) == SelectLastInSeq(t, LAMBDA word : word = mark)
Has(t, mark) == Contains(t, mark)

(* The part before the last mark, and the one behind it.                    *)
Outer(t, mark) == IF Has(t, mark) THEN Before(t, LastAt(t, mark)) ELSE <<>>
Leaf(t, mark) == Behind(t, LastAt(t, mark))

Without(t, prefix) == IF IsPrefix(prefix, t) THEN Behind(t, Len(prefix)) ELSE t

Folded(t) == [i \in DOMAIN t |-> IF t[i] \in DOMAIN LowerCase THEN LowerCase[t[i]] ELSE t[i]]
EqualFold(t, u) == Folded(t) = Folded(u)

RECURSIVE Scopes(_, _)
(* A scope and those around it, the nearest first, the global one last.     *)
Scopes(scope, mark) == IF scope = <<>> THEN <<scope>> ELSE <<scope>> \o Scopes(Outer(scope, mark), mark)

In(scope, mark, name) == IF scope = <<>> THEN name ELSE scope \o <<mark>> \o name

FirstWith(scopes, Decides(_)) ==
  LET i == SelectInSeq(scopes, Decides) IN IF i = 0 THEN {} ELSE {scopes[i]}

-----------------------------------------------------------------------------
(* C++                                                                     *)

CppCallable == {"function", "method", "operator", "constructor", "destructor", "test"}
CppContainer == {"namespace", "translation_unit", "module"}

CppNamed(from, scope, bare, symbols) ==
  {s \in symbols :
     /\ s.language \in {"c", "cpp"}
     /\ s.qual \in {In(scope, "::", bare), In(scope, "::", <<Anonymous[from.file], "::">> \o bare)}
     /\ ToSet(s.qual) \cap {Anonymous[p] : p \in DOMAIN Anonymous} # {} => s.file = from.file}

(* A mutant: only functions count.                                          *)
CppFunctions(from, target, symbols) ==
  LET bare == Without(target, <<"::">>)
      levels == IF bare # target THEN <<<<>>>> ELSE Scopes(Outer(from.qual, "::"), "::")
      Functions(scope) == {s \in CppNamed(from, scope, bare, symbols) : s.kind \in CppCallable}
  IN UNION {Functions(scope) : scope \in FirstWith(levels, LAMBDA scope : Functions(scope) # {})}

(* A variable or a type of the name hides the functions further out.        *)
CppResolve(from, target, symbols) ==
  LET bare == Without(target, <<"::">>)
      levels == IF bare # target THEN <<<<>>>> ELSE Scopes(Outer(from.qual, "::"), "::")
      Deciding(scope) == \E s \in CppNamed(from, scope, bare, symbols) : s.kind \notin CppContainer
  IN IF Has(target, "->") \/ Has(target, ".") THEN {}
     ELSE {s \in UNION {CppNamed(from, scope, bare, symbols) : scope \in FirstWith(levels, Deciding)} :
             s.kind \in CppCallable}

-----------------------------------------------------------------------------
(* C#                                                                      *)

CsType(s) == s.kind \in {"class", "struct", "interface", "record", "enum"}
CsCallable(s) == s.kind \in {"method", "function", "constructor", "destructor", "operator", "test"}

ParentsOf(s, symbols) == {p \in symbols : p.language = "csharp" /\ p.id = s.parent}

RECURSIVE DeclaringTypes(_, _)
DeclaringTypes(s, symbols) ==
  IF CsType(s) THEN {s} ELSE UNION {DeclaringTypes(p, symbols) : p \in ParentsOf(s, symbols)}

(* Members of all the partial declarations of a type.                       *)
Members(type, name, symbols) ==
  {s \in symbols : /\ s.language = "csharp" /\ CsCallable(s) /\ s.qual = In(type, ".", name)
                   /\ \E p \in ParentsOf(s, symbols) : CsType(p)}

Children(parent, name, symbols) ==
  {s \in symbols : s.language = "csharp" /\ CsCallable(s) /\ s.parent = parent /\ s.name = name}

RECURSIVE LocalFunctions(_, _, _)
(* Functions inside the calling function or one around it.                  *)
LocalFunctions(s, name, symbols) ==
  LET own == IF CsCallable(s) THEN Children(s.id, name, symbols) ELSE {}
      outer == {p \in ParentsOf(s, symbols) : ~CsType(p)}
  IN IF own # {} THEN own ELSE UNION {LocalFunctions(p, name, symbols) : p \in outer}

CsOfReceiver(owners, receiver, name, symbols) ==
  LET around == IF owners = {} THEN <<<<>>>> ELSE Scopes((CHOOSE o \in owners : TRUE).qual, ".")
      IsTypeIn(scope) == \E s \in symbols : s.language = "csharp" /\ CsType(s) /\ s.qual = In(scope, ".", receiver)
  IN CASE receiver = <<"this">> -> UNION {Members(o.qual, name, symbols) : o \in owners}
       [] receiver = <<"base">> -> {}
       [] OTHER -> UNION {Members(In(scope, ".", receiver), name, symbols) : scope \in FirstWith(around, IsTypeIn)}

CsUnqualified(from, owners, name, symbols) ==
  LET nearby == LocalFunctions(from, name, symbols) IN
  IF nearby # {} THEN nearby
  ELSE IF owners # {} THEN UNION {Members(o.qual, name, symbols) : o \in owners}
  ELSE {s \in Children(from.parent, name, symbols) : s.file = from.file}

CsResolve(from, target, symbols) ==
  LET plain == Without(target, <<"global", "::">>)
      owners == DeclaringTypes(from, symbols)
  IN IF Has(plain, ".") THEN CsOfReceiver(owners, Outer(plain, "."), Leaf(plain, "."), symbols)
     ELSE CsUnqualified(from, owners, plain, symbols)

-----------------------------------------------------------------------------
(* PHP                                                                     *)

PhpNames(from, target) ==
  LET owner == IF Has(from.qual, "::") THEN Before(from.qual, SelectInSeq(from.qual, LAMBDA w : w = "::")) ELSE from.qual
      space == Outer(owner, "\\")
  IN IF Has(target, "->") THEN <<>>
     ELSE IF IsPrefix(<<"\\">>, target) THEN <<Behind(target, 1)>>
     ELSE IF space # <<>> /\ ~Has(target, "\\") /\ ~Has(target, "::") THEN <<In(space, "\\", target), target>>
     ELSE <<In(space, "\\", target)>>

PhpCallees(from, target, symbols) ==
  LET Named(name) == {s \in symbols : /\ s.language = "php" /\ EqualFold(s.qual, name)
                                      /\ s.kind \in IF Has(name, "::") THEN {"method", "test"} ELSE {"function"}}
  IN UNION {Named(name) : name \in FirstWith(PhpNames(from, target), LAMBDA name : Named(name) # {})}

PhpClassLike == {"class", "interface", "trait", "enum"}

PhpReferences(target, kind, symbols) ==
  LET name == Without(target, <<"\\">>)
      kinds == CASE kind = "type" -> PhpClassLike
                 [] kind = "class" -> PhpClassLike \cup {"namespace"}
                 [] kind = "function" -> {"function"}
                 [] kind = "const" -> {"constant"}
  IN {s \in symbols : /\ s.language = "php" /\ s.kind \in kinds
                      /\ IF kind = "const" THEN s.qual = name ELSE EqualFold(s.qual, name)}
=============================================================================
