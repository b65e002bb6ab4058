----------------------------- MODULE MCLinking ------------------------------
(***************************************************************************)
(* Files of seven languages, in each of which one refers to the others     *)
(* with every spelling its extractor makes, and the metadata of a project. *)
(***************************************************************************)
EXTENDS Expansion, TLC

MCLower == "Foo" :> "foo" @@ "Save" :> "save" @@ "A" :> "a" @@ "B" :> "b" @@ "LogIn" :> "login" @@
           "TestLogInFails" :> "testloginfails" @@ "LogInFails" :> "loginfails"

MCHumps == "LogIn" :> <<"log", "in">> @@ "LogInFails" :> <<"log", "in", "fails">> @@ "Foo" :> <<"foo">>

Sym(id, file, lang, kind, name, qual, parent) ==
  [id |-> id, file |-> file, language |-> lang, kind |-> kind, name |-> name, qual |-> qual, parent |-> parent]

\* A file's own symbol, which has its path or its last part for a name.
Owner(id, lang, kind, file) == Sym(id, file, lang, kind, file, file, 0)
PyModule(id, file) == Sym(id, file, "python", "module", BaseName(file), BaseName(file), 0)

Refs(from, kind, source, targets) == {[from |-> from, kind |-> kind, source |-> source, target |-> t] : t \in targets}

-----------------------------------------------------------------------------
PyMain == <<"pkg", "/", "main", ".", "py">>
PyMod == <<"pkg", "/", "mod", ".", "py">>
PyDeep == <<"pkg", "/", "sub", "/", "x", ".", "py">>
PyLib == <<"lib", "/", "mod", ".", "py">>

PySymbols ==
  {PyModule(1, PyMain), PyModule(2, PyMod), Sym(3, PyMod, "python", "class", <<"Foo">>, <<"Foo">>, 2), PyModule(4, PyDeep),
   Sym(6, PyLib, "python", "class", <<"Foo">>, <<"Foo">>, 0)}
PyRefs ==
  Refs(1, "calls", "python-call", {<<"Foo">>})
    \cup Refs(1, "imports", "python-import",
              {<<"pkg", ".", "mod", ".", "Foo">>, <<".", "mod", ".", "Foo">>, <<"pkg", ".", "mod">>, <<"mod">>, <<"pkg">>,
               <<"pkg", ".", "mod", ".", "f">>, <<".", ".", "lib", ".", "mod">>})

TsMain == <<"src", "/", "m", ".", "ts">>
TsDep == <<"src", "/", "dep", ".", "ts">>
TsIndex == <<"src", "/", "dep", "/", "index", ".", "ts">>
JsLib == <<"lib", "/", "dep", ".", "js">>

TsSymbols ==
  {Owner(11, "typescript", "module", TsMain), Owner(12, "typescript", "module", TsDep),
   Sym(13, TsDep, "typescript", "function", <<"f">>, <<"f">>, 12), Owner(14, "javascript", "module", JsLib),
   Owner(15, "typescript", "module", TsIndex)}
TsRefs ==
  Refs(11, "calls", "jsts-call", {<<"f">>})
    \cup Refs(11, "imports", "jsts:import", {<<"src", "/", "dep">>, <<"dep">>, <<"@", "/", "dep">>, <<"pack">>, <<"pack", "/", "x">>})

GoOther == <<"b", "/", "b", ".", "go">>
GoSymbols ==
  {Sym(21, <<"a", "/", "a", ".", "go">>, "go", "package", <<"a">>, <<"a">>, 0), Sym(22, GoOther, "go", "package", <<"b">>, <<"b">>, 0),
   Sym(23, GoOther, "go", "function", <<"Foo">>, <<"b", ".", "Foo">>, 22),
   Sym(24, GoOther, "go", "function", <<"LogIn">>, <<"b", ".", "LogIn">>, 22),
   Sym(25, <<"b", "/", "b_test", ".", "go">>, "go", "test", <<"TestLogInFails">>, <<"b", ".", "TestLogInFails">>, 0)}
GoRefs == Refs(21, "imports", "go-ast", {<<"m", "/", "b">>, <<"m">>}) \cup Refs(21, "calls", "go-ast", {<<"Foo">>})
    \cup Refs(25, "tests", "go-ast", {<<"LogInFails">>})

RsAuth == <<"src", "/", "auth", ".", "rs">>
RsMod == <<"src", "/", "auth", "/", "mod", ".", "rs">>
RsSymbols ==
  {Owner(31, "rust", "crate_module", <<"src", "/", "lib", ".", "rs">>), Owner(32, "rust", "crate_module", RsAuth),
   Sym(33, RsAuth, "rust", "struct", <<"Foo">>, <<"auth", "::", "Foo">>, 32), Sym(34, RsMod, "rust", "struct", <<"Foo">>, <<"Foo">>, 0)}
RsRefs ==
  Refs(31, "imports", "rust-use", {<<"crate", "::", "auth", "::", "Foo">>, <<"auth", "::", "Foo">>, <<"auth">>})
    \cup Refs(31, "calls", "rust-call", {<<"Foo">>, <<"auth", "::", "Foo">>})

-----------------------------------------------------------------------------
Cpp(name) == <<name, ".", "cpp">>
CppSymbols ==
  {Sym(41, Cpp("a"), "cpp", "function", <<"run">>, <<"n", "::", "run">>, 0),
   Sym(42, Cpp("i"), "cpp", "function", <<"f">>, <<"n", "::", "f">>, 0), Sym(43, <<"b", ".", "c">>, "c", "function", <<"f">>, <<"f">>, 0),
   Sym(50, <<"b", ".", "c">>, "c", "function", <<"g">>, <<"g">>, 0),
   Sym(44, Cpp("t"), "cpp", "class", <<"f">>, <<"n", "::", "f">>, 0),
   Sym(45, Cpp("h"), "cpp", "function", <<"f">>, <<"n", "::", "(anonymous@h.cpp)", "::", "f">>, 0),
   Sym(47, Cpp("h"), "cpp", "function", <<"f">>, <<"n", "::", "f">>, 0),
   Sym(46, Cpp("a"), "cpp", "function", <<"f">>, <<"(anonymous@a.cpp)", "::", "f">>, 0),
   Owner(48, "cpp", "translation_unit", Cpp("k")), Sym(49, Cpp("k"), "cpp", "module", <<"k">>, <<"k">>, 48)}
CppRefs ==
  Refs(41, "calls", "cpp-call", {<<"f">>, <<"::", "f">>, <<"n", "::", "f">>, <<"x", ".", "g">>})
    \cup Refs(41, "imports", "cpp:include:quote", {Cpp("k")}) \cup Refs(41, "imports", "cpp:module-import", {<<"k">>})

Cs(name) == <<name, ".", "cs">>
CsSymbols ==
  {Sym(51, Cs("a"), "csharp", "class", <<"A">>, <<"N", ".", "A">>, 0), Sym(52, Cs("a"), "csharp", "method", <<"run">>, <<"N", ".", "A", ".", "run">>, 51),
   Sym(53, Cs("b"), "csharp", "class", <<"A">>, <<"N", ".", "A">>, 0), Sym(54, Cs("b"), "csharp", "method", <<"Save">>, <<"N", ".", "A", ".", "Save">>, 53),
   Sym(55, Cs("a"), "csharp", "method", <<"own">>, <<"N", ".", "A", ".", "own">>, 51),
   Sym(56, Cs("a"), "csharp", "function", <<"Save">>, <<"N", ".", "A", ".", "own", ".", "Save">>, 55),
   Sym(57, Cs("c"), "csharp", "class", <<"B">>, <<"N", ".", "B">>, 0), Sym(58, Cs("c"), "csharp", "method", <<"Save">>, <<"N", ".", "B", ".", "Save">>, 57),
   Sym(59, Cs("d"), "csharp", "class", <<"B">>, <<"B">>, 0), Sym(60, Cs("d"), "csharp", "method", <<"Save">>, <<"B", ".", "Save">>, 59)}
CsRefs ==
  Refs(52, "calls", "csharp-call",
       {<<"Save">>, <<"this", ".", "Save">>, <<"B", ".", "Save">>, <<"N", ".", "B", ".", "Save">>, <<"x", ".", "Save">>})
    \cup Refs(56, "calls", "csharp-call", {<<"Save">>}) \cup Refs(55, "calls", "csharp-call", {<<"Save">>})

Php(name) == <<name, ".", "php">>
PhpA == <<"src", "/", "A", ".", "php">>
PhpSymbols ==
  {Sym(61, Php("a"), "php", "function", <<"run">>, <<"n", "\\", "run">>, 0), Sym(62, Php("b"), "php", "function", <<"f">>, <<"n", "\\", "f">>, 0),
   Sym(63, Php("c"), "php", "function", <<"f">>, <<"f">>, 0), Sym(66, Php("b"), "php", "function", <<"f">>, <<"f">>, 0),
   Sym(64, PhpA, "php", "class", <<"A">>, <<"n", "\\", "A">>, 0),
   Sym(65, PhpA, "php", "method", <<"Save">>, <<"n", "\\", "A", "::", "Save">>, 64)}
PhpRefs ==
  Refs(61, "calls", "call", {<<"f">>, <<"\\", "f">>, <<"A", "::", "Save">>, <<"n", "\\", "f">>})
    \cup Refs(61, "imports", "php-import-class", {<<"n", "\\", "A">>}) \cup Refs(61, "references", "new", {<<"n", "\\", "A">>})
    \cup Refs(61, "imports", "include", {PhpA})

-----------------------------------------------------------------------------
Fact(source, kind, name, target) == [source |-> source, kind |-> kind, name |-> name, target |-> target]

MCFacts ==
  {Fact(<<"tsconfig", ".", "json">>, "path-alias", <<"@", "/", "*">>, <<"src", "/", "*">>),
   Fact(<<"lib", "/", "jsconfig", ".", "json">>, "project-config", <<>>, <<>>),
   Fact(<<"package", ".", "json">>, "package", <<>>, <<"pack">>), Fact(<<"package", ".", "json">>, "main", <<>>, TsDep),
   Fact(<<"package", ".", "json">>, "export", <<".", "/", "x">>, JsLib), Fact(<<"go", ".", "mod">>, "module", <<>>, <<"m">>),
   Fact(<<"composer", ".", "json">>, "psr-4", <<"n">>, <<"src">>)}

MCSymbols == PySymbols \cup TsSymbols \cup GoSymbols \cup RsSymbols \cup CppSymbols \cup CsSymbols \cup PhpSymbols
MCReferences == PyRefs \cup TsRefs \cup GoRefs \cup RsRefs \cup CppRefs \cup CsRefs \cup PhpRefs
MCAnonymous ==
  [file \in Files(MCSymbols) |-> IF file = Cpp("a") THEN "(anonymous@a.cpp)" ELSE IF file = Cpp("h") THEN "(anonymous@h.cpp)" ELSE "(anonymous)"]
=============================================================================
