------------------------------ MODULE Linking -------------------------------
(***************************************************************************)
(* How the target that a relation spells finds its symbol, and the keys    *)
(* that stand for it: those a link pass looks candidates up with instead   *)
(* of trying every symbol, and those the store keeps of a relation so that *)
(* an update knows which files new symbols concern.  IncrementalIndex has  *)
(* the update itself, with matches and keys as constants; here they are    *)
(* computed from the spellings.                                            *)
(***************************************************************************)
EXTENDS NameScopes, FiniteSets

CONSTANTS
  Symbols,    \* [id, file, language, kind, name, qual, parent]: what files may declare
  References, \* [from, kind, source, target]: what symbols may refer to
  Facts,      \* [source, kind, name, target]: the metadata of the project
  MaxDeclared

VARIABLE program   \* the symbols of the index

-----------------------------------------------------------------------------
(* Paths                                                                   *)

Slashed(t) == ReplaceAll(t, "\\", "/")
Normal(t) == Folded(Slashed(t))

ExtensionAt(p) == IF LastAt(p, ".") > LastAt(p, "/") THEN LastAt(p, ".") ELSE 0
WithoutExtension(p) == IF ExtensionAt(p) = 0 THEN p ELSE Before(p, ExtensionAt(p))
Directory(p) == Outer(p, "/")
BaseName(p) == Leaf(p, "/")

RECURSIVE PartsOf(_, _)
PartsOf(t, mark) ==
  LET i == SelectInSeq(t, LAMBDA w : w = mark)
  IN IF i = 0 THEN <<t>> ELSE <<Before(t, i)>> \o PartsOf(Behind(t, i), mark)

RECURSIVE Joined(_, _)
Joined(parts, mark) ==
  IF Len(parts) <= 1 THEN FlattenSeq(parts) ELSE Head(parts) \o <<mark>> \o Joined(Tail(parts), mark)

RECURSIVE CleanParts(_, _)
CleanParts(parts, done) ==
  IF parts = <<>> THEN Joined(done, "/")
  ELSE LET up == Head(parts) = <<".", ".">> /\ done # <<>> /\ Last(done) # <<".", ".">>
       IN CleanParts(Tail(parts), CASE Head(parts) \in {<<>>, <<".">>} -> done
                                    [] up -> Front(done)
                                    [] OTHER -> Append(done, Head(parts)))

Path(dir, t) == CleanParts(PartsOf(dir, "/") \o PartsOf(t, "/"), <<>>)

(* What follows each slash of a path.                                       *)
Tails(p) == {Behind(p, i) : i \in {j \in DOMAIN p : p[j] = "/"}}

-----------------------------------------------------------------------------
(* Keys                                                                    *)

FileKeys(file) ==
  LET path == Normal(file)
      bare == WithoutExtension(path)
      dir == Directory(path)
  IN ({path, bare, ReplaceAll(bare, "/", "."), BaseName(path), dir} \cup Tails(path) \cup Tails(bare) \cup Tails(dir))
       \ {<<>>}

SymbolKeys(s) == {Normal(s.name), Normal(s.qual)} \ {<<>>}

IsCapital(t) == t # <<>> /\ t[1] \in DOMAIN LowerCase

LeadingDots(t) == IF \A i \in DOMAIN t : t[i] = "." THEN Len(t) ELSE SelectInSeq(t, LAMBDA w : w # ".") - 1

(* The module in which a dotted name declares its last part.                *)
DottedModule(t) ==
  LET parts == PartsOf(Behind(t, LeadingDots(t)), ".")
  IN Joined(IF Len(parts) > 1 /\ IsCapital(Last(parts)) THEN Front(parts) ELSE parts, "/")

ScopedModule(t) ==
  LET parts == Front(PartsOf(t, "::"))
  IN Joined(IF parts # <<>> /\ Head(parts) \in {<<"crate">>, <<"self">>, <<"super">>} THEN Tail(parts) ELSE parts, "/")

ModuleKeys(t) == IF Has(t, "::") THEN {ScopedModule(Normal(t))} \ {<<>>} ELSE {}

IsCall(kind) == kind \in {"calls", "tests"}

(* A mutant: nothing of its own for a member of C#.                         *)
KeysOfTarget(language, r) == ({Normal(r.target)} \cup ModuleKeys(Slashed(r.target))) \ {<<>>}

(* What the store keeps of a relation, by the language of its source.       *)
RelationKeys(language, r) ==
  LET target == Slashed(r.target)
      absolute == Without(r.target, <<"\\">>)
      member == Leaf(IF Has(absolute, "->") THEN Leaf(absolute, "->") ELSE Leaf(absolute, "::"), "\\")
  IN ({Folded(target)} \cup ModuleKeys(target)
        \cup (IF Has(target, ".") THEN {Folded(DottedModule(target))} ELSE {})
        \cup (IF language = "php" /\ IsCall(r.kind) THEN {Normal(absolute), Folded(member)} ELSE {})
        \cup (IF language = "csharp" /\ IsCall(r.kind) /\ Has(target, ".") THEN {Folded(Leaf(target, "."))} ELSE {}))
       \ {<<>>}

-----------------------------------------------------------------------------
(* Facts of the project                                                    *)

(* The nearest configuration decides, one without aliases too.              *)
Configurations(file) ==
  {f \in Facts : /\ f.kind \in {"project-config", "path-alias"} /\ Head(BaseName(f.source)) \in {"tsconfig", "jsconfig"}
                 /\ Directory(f.source) = <<>> \/ IsPrefix(Directory(f.source) \o <<"/">>, file)}

FactsFor(file) ==
  LET Nearest(f) == \A g \in Configurations(file) :
        \/ Len(Directory(g.source)) < Len(Directory(f.source))
        \/ Directory(g.source) = Directory(f.source) /\ (g.source = f.source \/ Head(BaseName(f.source)) = "tsconfig")
  IN {f \in Facts : f.kind # "path-alias" \/ (f \in Configurations(file) /\ Nearest(f))}

FactPath(f, t) == {Path(Directory(f.source), t)}

OfModule(f, t) ==
  IF t = f.target \/ IsPrefix(f.target \o <<"/">>, t) THEN FactPath(f, Behind(t, Len(f.target))) ELSE {}

OfNamespace(f, t) ==
  LET prefix == IF f.name = <<>> THEN <<>> ELSE Slashed(f.name) \o <<"/">>
      rest == ReplaceAll(ReplaceAll(Behind(t, Len(prefix)), "::", "/"), ".", "/")
      mapped == Path(Directory(f.source), f.target \o <<"/">> \o rest)
  IN IF IsPrefix(Folded(prefix), Folded(t)) THEN {mapped, mapped \o <<".", "php">>} ELSE {}

OfAlias(f, t) ==
  LET star == LastAt(f.name, "*")
      prefix == Before(f.name, star)
      suffix == Behind(f.name, star)
      middle == SubSeq(t, Len(prefix) + 1, Len(t) - Len(suffix))
      star2 == LastAt(f.target, "*")
  IN CASE star = 0 -> IF t = f.name THEN FactPath(f, f.target) ELSE {}
       [] star # 0 /\ Len(t) >= Len(prefix) + Len(suffix) /\ IsPrefix(prefix, t) /\ IsSuffix(suffix, t) ->
            FactPath(f, IF star2 = 0 THEN f.target ELSE Before(f.target, star2) \o middle \o Behind(f.target, star2))
       [] OTHER -> {}

(* Entry points and exports belong to the package of the same manifest.     *)
OfPackage(f, t) ==
  LET name == IF f.kind = "export" THEN Without(f.name, <<".", "/">>) ELSE <<>>
      Named(package) == t = IF name \in {<<>>, <<".">>} THEN package ELSE package \o <<"/">> \o name
  IN IF \E g \in Facts : g.source = f.source /\ g.kind = "package" /\ Named(g.target) THEN FactPath(f, f.target) ELSE {}

FactPaths(f, t) ==
  CASE f.kind \in {"main", "types", "export"} \/ (f.kind = "module" /\ BaseName(f.source) = <<"package", ".", "json">>) ->
         OfPackage(f, t)
    [] f.kind = "module" -> OfModule(f, Slashed(t))
    [] f.kind \in {"psr-4", "psr-0"} -> OfNamespace(f, Slashed(t))
    [] f.kind = "path-alias" -> OfAlias(f, Slashed(t))
    [] OTHER -> {}

MappedPaths(file, t) == UNION {FactPaths(f, t) : f \in FactsFor(file)}

-----------------------------------------------------------------------------
(* Resolution                                                              *)

IsPython(file) == file # <<>> /\ Last(file) \in {"py", "pyi"} /\ ExtensionAt(file) # 0

RECURSIVE Above(_, _)
Above(dir, levels) == IF levels = 0 THEN dir ELSE Above(Directory(dir), levels - 1)

PythonBase(importer, t) == IF LeadingDots(t) = 0 THEN <<>> ELSE Above(importer, LeadingDots(t))

SourceAt(file, path) == path # <<>> /\ (path \in {file, WithoutExtension(file)} \/ IsPrefix(path \o <<"/">>, file))

PythonModule(importer, t) == Path(PythonBase(importer, t), ReplaceAll(Behind(t, LeadingDots(t)), ".", "/"))

(* Where a target may be: beside its importer; in Python also in the module *)
(* it spells, or in the one around its last part.                           *)
NamedPaths(importer, t) ==
  {Path(Directory(importer), t)}
    \cup IF IsPython(importer) /\ LeadingDots(t) < Len(t)
           THEN {PythonModule(importer, t), Directory(PythonModule(importer, t))} ELSE {}

RustMatch(file, t) ==
  LET expected == ScopedModule(t) IN
  Has(t, "::") /\ expected # <<>> /\ \E tail \in {<<>>, <<"/", "mod">>} : IsSuffix(<<"/">> \o expected \o tail, WithoutExtension(file))

PathMatch(importer, file, t) ==
  LET bare == WithoutExtension(file)
  IN \/ file = t \/ RustMatch(file, t)
     \/ ExtensionAt(t) = 0 /\ (bare = t \/ IsSuffix(<<"/">> \o t, bare) \/ BaseName(bare) = t)
     \/ \E p \in NamedPaths(importer, t) : SourceAt(file, p)

NameEqual(s, name, t) ==
  IF s.language = "php" /\ s.kind \in {"function", "method", "class", "interface", "trait", "enum", "namespace"}
    THEN EqualFold(name, t) ELSE name = t

Compatible(from, to, kind) ==
  \/ from = to \/ kind \in {"imports", "exports", "references"}
  \/ {from, to} = {"c", "cpp"} \/ {from, to} = {"javascript", "typescript"}

FirstFound(S, T) == IF S # {} THEN S ELSE T

ByName(t, symbols) ==
  FirstFound({s \in symbols : NameEqual(s, s.qual, t)}, {s \in symbols : NameEqual(s, s.name, t)})

Narrowed(t, symbols) ==
  LET leaf == IF Has(t, "::") THEN Leaf(t, "::") ELSE Leaf(t, ".")
      Ends(s) == EqualFold(s.name, leaf) \/ IsSuffix(Folded(<<"::">> \o leaf), Folded(s.qual))
  IN IF leaf # <<>> /\ (Has(t, "::") \/ (Has(t, ".") /\ IsCapital(leaf))) THEN {s \in symbols : Ends(s)} ELSE {}

(* What a path or a name leads to that is no call.                          *)
Imported(from, r, symbols, atPath) ==
  LET t == r.target
      AtFact(paths) == {s \in symbols : \E p \in paths : SourceAt(s.file, p)}
  IN FirstFound(FirstFound(Narrowed(t, atPath), atPath),
                FirstFound(AtFact(MappedPaths(from.file, t)), ByName(t, symbols \ {from})))

Generic(from, r, symbols) ==
  LET t == r.target
      near == {s \in symbols : Compatible(from.language, s.language, r.kind)}
      others == near \ {from}
  IN IF IsCall(r.kind) /\ ~Has(t, "/") /\ ~Has(t, "\\")
       THEN ByName(t, {s \in others : s.kind \notin {"package", "module"}})
       ELSE Imported(from, r, near, {s \in others : PathMatch(from.file, s.file, Slashed(t))})

(* A file that is imported stands for its module, not for all it declares.  *)
PreferModuleOwner(from, r, found) ==
  IF /\ from.language \in {"javascript", "typescript"}
     /\ r.source \in {"jsts:import", "jsts:dynamic-import", "jsts:require", "jsts:reexport", "jsts:export"}
     /\ Cardinality({s.file : s \in found}) = 1
    THEN {s \in found : s.kind = "module" /\ s.parent = 0} ELSE found

CppModule(t, symbols) ==
  LET providers == {s \in symbols : s.language = "cpp" /\ s.kind = "module" /\ s.qual = t}
  IN IF Cardinality(providers) # 1 THEN {}
     ELSE {s \in symbols : s.kind = "translation_unit" /\ \E p \in providers : s.id = p.parent /\ s.file = p.file}

(* What a link pass looks at: the symbols that share a key with the target. *)
Indexed(from, t, symbols) ==
  LET python == IF IsPython(from.file) THEN {Path(PythonBase(from.file, t), DottedModule(t))} ELSE {}
      keys == ModuleKeys(t) \cup UNION {FileKeys(p) : p \in {t, Path(Directory(from.file), Slashed(t))} \cup python
                                                              \cup MappedPaths(from.file, t)}
  IN {s \in symbols : s # from /\ (Normal(t) \in SymbolKeys(s) \/ FileKeys(s.file) \cap keys # {})}

PhpKind(source) ==
  CASE source = "php-import-class" -> "class" [] source = "php-import-function" -> "function"
    [] source = "php-import-const" -> "const" [] source \in {"new", "inheritance", "trait-use"} -> "type" [] OTHER -> ""

Found(from, r, symbols, pool) ==
  CASE from.language = "php" /\ IsCall(r.kind) -> PhpCallees(from, r.target, symbols)
    [] from.language = "php" /\ r.kind \in {"imports", "references"} /\ PhpKind(r.source) # "" ->
         PhpReferences(r.target, PhpKind(r.source), symbols)
    [] from.language = "csharp" /\ IsCall(r.kind) -> CsResolve(from, r.target, symbols)
    [] from.language = "cpp" /\ IsCall(r.kind) -> CppResolve(from, r.target, symbols)
    [] from.language = "cpp" /\ r.source = "cpp:module-import" -> CppModule(r.target, symbols)
    [] OTHER -> PreferModuleOwner(from, r, Generic(from, r, pool))

(* Only one candidate makes a link.                                         *)
Unique(found) == IF Cardinality(found) = 1 THEN found ELSE {}

Linked(from, r, symbols) == Unique(Found(from, r, symbols, Indexed(from, r.target, symbols)))

-----------------------------------------------------------------------------
NothingDeclared == program = {}

Files(symbols) == {s.file : s \in symbols}

NextFile ==
  \E file \in Files(Symbols) \ Files(program) :
    /\ Cardinality(Files(program)) < MaxDeclared
    /\ program' = program \cup {s \in Symbols : s.file = file}

-----------------------------------------------------------------------------
Relating(symbols) == {<<s, r>> \in symbols \X References : r.from = s.id}

(* A full scan also takes what lies deeper below a directory a target names *)
(* than the files in it; no key leads there.                                *)
IsNested(from, r, symbols) ==
  LET paths == NamedPaths(from.file, r.target) \cup MappedPaths(from.file, r.target)
  IN \E p \in paths \ {<<>>}, s \in symbols : IsPrefix(p \o <<"/">>, Directory(s.file))

(* The lookup keys of a link pass are a shortcut and change no link: with   *)
(* every symbol as a candidate the same ones would be found.                *)
LookupIsComplete(from, r, linked) ==
  linked = Unique(Found(from, r, program, program \ {from})) \/ IsNested(from, r, program)

(* Targets for which the store keeps too few keys: those a fact maps, names *)
(* in Python modules that begin with a small letter, and ::f of C++.        *)
FallsShort(from, r) ==
  \/ MappedPaths(from.file, r.target) # {}
  \/ IsPython(from.file) /\ ~IsCapital(Leaf(r.target, "."))
  \/ from.language = "cpp" /\ IsPrefix(<<"::">>, r.target)

(* Whatever a file changes about a link, it shares a key with the relation, *)
(* so that an update that brings or takes the file links it again.          *)
KeysFindWhatChanges(from, r, linked) ==
  \A file \in Files(program) \ {from.file} :
    LET rest == {s \in program : s.file # file}
        keys == FileKeys(file) \cup UNION {SymbolKeys(s) : s \in program \ rest}
    IN \/ linked = Linked(from, r, rest)
       \/ RelationKeys(from.language, r) \cap keys # {} \/ FallsShort(from, r)

(* The functions, and in C++ the other names, that an unqualified call sees.*)
IsHidden(s) == Has(s.qual, Anonymous[s.file])
Named(s) ==
  LET i == LastAt(s.qual, Anonymous[s.file]) IN IF i = 0 THEN s.qual ELSE Before(s.qual, i) \o Behind(s.qual, i + 1)

CppVisible(from, name, symbols) ==
  {s \in symbols :
     /\ s.language \in {"c", "cpp"} /\ s.kind \notin CppContainer /\ s.name = name
     /\ IsPrefix(Front(Named(s)), from.qual)
     /\ s.file = from.file \/ ~IsHidden(s)}

RECURSIVE Around(_, _)
Around(s, symbols) ==
  IF CsType(s) THEN {} ELSE {s.id} \cup UNION {Around(p, symbols) : p \in ParentsOf(s, symbols)}

CsVisible(from, name, symbols) ==
  LET owners == DeclaringTypes(from, symbols)
  IN {s \in symbols :
        /\ s.language = "csharp" /\ CsCallable(s) /\ s.name = name
        /\ \/ s.parent \in Around(from, symbols) /\ \A p \in ParentsOf(s, symbols) : CsCallable(p)
           \/ \E p \in ParentsOf(s, symbols), o \in owners : CsType(p) /\ p.qual = o.qual
           \/ owners = {} /\ s.parent = from.parent /\ s.file = from.file}

PhpVisible(from, name, symbols) ==
  {s \in symbols : /\ s.language = "php" /\ s.kind = "function" /\ EqualFold(s.name, name)
                   /\ Outer(s.qual, "\\") \in {<<>>, Outer(from.qual, "\\")}}

Visible(from, name, symbols) ==
  CASE from.language = "cpp" -> CppVisible(from, name, symbols)
    [] from.language = "csharp" -> CsVisible(from, name, symbols)
    [] from.language = "php" -> PhpVisible(from, name, symbols)

(* An unqualified call goes to the innermost function it sees, if there is  *)
(* one and nothing else of the name stands before it: never to a function   *)
(* of the same name in a file, a type or a namespace that is not around it. *)
CallsReachTheNearest ==
  \A <<from, r>> \in Relating(program) :
    IsCall(r.kind) /\ Len(r.target) = 1 /\ from.language \in {"cpp", "csharp", "php"} =>
      LET seen == Visible(from, r.target, program)
          nearest == {s \in seen : \A t \in seen : Len(Named(s)) >= Len(Named(t))}
      IN Linked(from, r, program) = Unique({s \in nearest : s.kind \in CppCallable})

(* No key that is missing makes a link wait for the next rebuild: neither a *)
(* key of the pass nor one that the store keeps.                            *)
IsFound(from, r, linked) == LookupIsComplete(from, r, linked) /\ KeysFindWhatChanges(from, r, linked)

LinksAreFound == \A <<from, r>> \in Relating(program) : IsFound(from, r, Linked(from, r, program))
=============================================================================
