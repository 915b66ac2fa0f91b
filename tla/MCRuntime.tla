------------------------------ MODULE MCRuntime ------------------------------
(* Two threads with three thread states.  Four modules: a package p with a *)
(* submodule p.s, q and e, in three programs.  Two static types and three  *)
(* that are made at run time, in two programs.  C values of five bits.     *)
(* Four codes in five programs.                                            *)
EXTENDS Runtime, TLC

CONSTANTS t1, t2

MCModules == {"p", "p.s", "q", "e"}
MCParent  == [n \in MCModules |-> IF n = "p.s" THEN "p" ELSE Null]
MCLeaf    == [n \in MCModules |-> IF n = "p.s" THEN "s" ELSE n]
MCAttrs   == {"p", "s", "q", "e", "x", "_y", "__all__"}

(* Statements and files. *)
St(op, name, attr) == [op |-> op, name |-> name, attr |-> attr, guarded |-> FALSE]
Import(n)     == St("import", n, IF n = "p.s" THEN "p" ELSE n)
From(n, a)    == St("from", n, a)
Star(n)       == St("star", n, "x")
Bind(a)       == St("assign", "p", a)
Do(op)        == St(op, "p", "x")
Add(n)        == St("add", n, "x")
Try(s)        == [s EXCEPT !.guarded = TRUE]

NoFile == [extension |-> FALSE, init |-> <<>>, source |-> "none", body |-> <<>>,
           builtin |-> FALSE, defines |-> "x", all |-> {}]
Py(body)   == [NoFile EXCEPT !.source = "good", !.body = body]
BadPy      == [NoFile EXCEPT !.source = "bad"]
Ext(init)  == [NoFile EXCEPT !.extension = TRUE, !.init = init]
Both(init, body) == [Py(body) EXCEPT !.extension = TRUE, !.init = init]
Builtin(a) == [NoFile EXCEPT !.builtin = TRUE, !.defines = a]

Files(p, ps, q, e) == [n \in MCModules |->
    CASE n = "p" -> p [] n = "p.s" -> ps [] n = "q" -> q [] n = "e" -> e]
Scripts(a, b) == t1 :> a @@ t2 :> b

MCPrograms == {
    \* packages that import their submodules, and one another
    [files |-> Files(Py(<<Bind("x"), Import("q"), Do("yield")>>),
                     Py(<<Import("p"), Bind("x")>>),
                     Py(<<Bind("_y"), Import("p.s"), Bind("x")>>), NoFile),
     scripts |-> Scripts(<<Import("q"), From("p.s", "x"), Star("q")>>,
                         <<Import("p.s"), Do("yield")>>)],
    \* a cycle that asks for a name bound before the cycle began
    [files |-> Files(Py(<<Bind("x"), Try(From("q", "x"))>>), Py(<<Do("raise")>>),
                     Py(<<Bind("x"), From("p", "x")>>), BadPy),
     scripts |-> Scripts(<<Try(Import("p.s")), Try(Import("p")), From("q", "x"), Try(Import("e"))>>,
                         <<Try(Import("p.s")), Import("p")>>)],
    \* extensions that import, add and fail, with threads between their steps
    [files |-> Files(Builtin("x"), NoFile,
                     Both(<<Do("yield"), Do("may_raise"), Bind("x")>>, <<Bind("x"), Bind("__all__"), Bind("q")>>),
                     Ext(<<Try(Import("p")), Import("q"), Add("p"), Do("yield"), Bind("e"), Bind("e")>>)),
     scripts |-> Scripts(<<Try(Import("e")), Import("p"), Import("q"), Star("q")>>,
                         <<Import("q"), From("q", "x"), Do("yield"), Import("e"), Bind("q")>>)] }

(* Types: what each will be, those an extension declares in full. *)
Later(k) == [kind |-> k, base |-> Null, size |-> 0, dictoffset |-> 0,
             slots |-> {}, attrs |-> {}]
Static(b, z, d, S, A) == [kind |-> "static", base |-> b, size |-> z, dictoffset |-> d,
                          slots |-> S, attrs |-> A]
ObjectWith(A) == Static(Null, 2, 0, {"tp_init", "tp_repr"}, A)

Program(obj, c1, c2, u1, u2, u3) ==
    "object" :> obj @@ "c1" :> c1 @@ "c2" :> c2 @@
    "u1" :> Later(u1) @@ "u2" :> Later(u2) @@ "u3" :> Later(u3)

MCDeclarations == {
    \* Python classes, with a C type that keeps two words
    Program(ObjectWith({}), Static(Null, 4, 0, {"tp_init"}, {"f"}), Later("unused"),
            "class", "class", "class"),
    \* a C type and its base, one type of each other kind
    Program(ObjectWith({"f"}), Static("c2", 0, 0, {"tp_iter"}, {}),
            Static(Null, 5, 4, {"tp_repr", "tp_iter"}, {"f"}), "spec", "class", "exception")}

MCSpecs == {[slots |-> {"tp_init"}, attrs |-> {}, size |-> 0],
            [slots |-> {"tp_iter"}, attrs |-> {"f"}, size |-> 6]}

(* Integers. *)
MCSmallMin == -2
MCLarges   == {-100, -65, -64, -33, -32, -17, -16, 0, 15, 16, 31, 32, 63, 64, 100}
Text(sign, characters) == [sign |-> sign, digits |-> Reverse(characters)]
MCTexts    == {
    Text("none", <<>>), Text("-", <<>>), Text("none", <<0>>), Text("-", <<0>>), Text("none", <<0, 0>>), Text("none", <<0, 7>>),
    Text("none", <<7>>), Text("none", <<1, 0>>), Text("+", <<1, 1>>), Text("none", <<1, 5>>), Text("none", <<1, 6>>),
    Text("-", <<1, 6>>), Text("-", <<1, 7>>), Text("-", <<1, 0, 0>>), Text("none", <<1, 2, 8>>),
    \* f, -10 as g, 1f; 0x7, 0xf and 0x1f, with a sign and without digits; 0o17, 0b101
    Text("none", <<15>>), Text("-", <<16>>), Text("none", <<1, 15>>),
    Text("none", <<0, 33, 7>>), Text("none", <<0, 33, 15>>), Text("none", <<0, 33, 1, 15>>), Text("-", <<0, 33, 7>>), Text("none", <<0, 33>>),
    Text("none", <<0, 24, 1, 7>>), Text("none", <<0, 11, 1, 0, 1>>), Text("+", <<0, 11, 1>>)}

(* Functions: signatures, functions in one another that share a variable,  *)
(* and functions, generators and callbacks that read the names around them.*)
Body(parent, assigned, nonlocals) ==
    [parent |-> parent, params |-> <<>>, defaults |-> 0, vararg |-> Null, kwonly |-> <<>>,
     kwarg |-> Null, assigned |-> assigned, nonlocals |-> nonlocals, generator |-> FALSE]
Signature(params, defaults, vararg, kwonly, kwarg) ==
    [Body("main", {}, {}) EXCEPT !.params = params, !.defaults = defaults, !.vararg = vararg,
                                 !.kwonly = kwonly, !.kwarg = kwarg]
WithC(body) == [body EXCEPT !.params = <<"c">>, !.defaults = 1]
Defs(m, f, g, h) == "main" :> Body(Null, m, {}) @@ "f" :> f @@ "g" :> g @@ "h" :> h

MCSources == {
    [defs |-> Defs({}, Signature(<<"a", "b", "c">>, 2, "r", <<>>, Null),
                   Signature(<<"a">>, 0, Null, <<"b">>, Null),
                   Signature(<<"a", "b">>, 1, "r", <<>>, "c")),
     hows |-> {"function", "method", "unbound", "class", "callback"}, args |-> 3,
     keywords |-> {"a", "b", "c", "x"}, scopes |-> 2, functions |-> 1, stores |-> 0],
    [defs |-> Defs({"x"}, WithC(Body("main", {"c"}, {})), Body("f", {"c"}, {"c"}), Body("g", {"c"}, {"c"})),
     hows |-> {"function"}, args |-> 0, keywords |-> {}, scopes |-> 4, functions |-> 3, stores |-> 2],
    [defs |-> Defs({}, WithC(Body("main", {}, {})), Body("f", {"b"}, {"c"}), Body("g", {}, {"b"})),
     hows |-> {"function"}, args |-> 0, keywords |-> {}, scopes |-> 5, functions |-> 3, stores |-> 1],
    [defs |-> Defs({}, Body("main", {"c"}, {}), Body("f", {}, {}), Body("main", {"c"}, {})),
     hows |-> {"function"}, args |-> 0, keywords |-> {}, scopes |-> 4, functions |-> 3, stores |-> 2],
    [defs |-> Defs({"x"}, Body("main", {"c"}, {}), Body("f", {}, {}),
                   [Body("main", {}, {}) EXCEPT !.generator = TRUE]),
     hows |-> {"function", "method", "callback"}, args |-> 0, keywords |-> {},
     scopes |-> 3, functions |-> 2, stores |-> 2]}
=============================================================================
