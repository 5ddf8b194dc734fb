---------------------------- MODULE MCGraphBuild ----------------------------
(***************************************************************************)
(* Projects for GraphBuild: every small inheritance hierarchy, two files   *)
(* with the artifacts of their revisions, every way a name is found and a  *)
(* call is written, and every body of two statements of a few shapes.      *)
(***************************************************************************)
EXTENDS GraphBuild

Parse == INSTANCE Parser

(***************************************************************************)
(* Syntax                                                                  *)
(***************************************************************************)
Node(t, at, text, kids) == [t |-> t, at |-> at, text |-> text, kids |-> kids, binds |-> None]
Ident(at, text) == Node("identifier", at, text, <<>>)
Numbers(at, n) == [i \in 1 .. n |-> Node("literal", at, "1", <<>>)]
Select(at, object, name) == Node("member", at, "", <<object, Ident(at + 1, name)>>)
Invoke(at, callee, args) == Node("call", at, "", <<callee>> \o Numbers(at, args))

\* A call of each shape; the receiver of `expression` ends in a name or is
\* an element of an array.
Call(at, shape, name, args, receiver, binds) ==
    LET to == CASE shape \in {"super", "this"} -> Ident(at, shape)
                [] shape = "member" -> Ident(at, receiver)
                [] shape = "cast" /\ receiver = "address" -> Node("cast", at, receiver, Numbers(at, 1))
                [] shape = "cast" -> Invoke(at, Ident(at, receiver), 1)
                [] receiver = None -> Node("index", at, "", <<Ident(at, "xs"), Numbers(at, 1)[1]>>)
                [] OTHER -> Node("binary", at, "&&", <<Numbers(at, 1)[1], Ident(at, receiver)>>)
        callee == CASE shape = "bare" -> Ident(at, name)
                    [] shape = "new"  -> Node("new", at, "", <<Ident(at, name)>>)
                    [] OTHER          -> Select(at, to, name)
    IN  [Invoke(at, callee, args) EXCEPT !.binds = binds]

Bound(node, binds) == [node EXCEPT !.binds = binds]
Read(at, name, binds) == Bound(Ident(at, name), binds)
Assign(at, name, binds) == Node("assign", at, "=", <<Bound(Ident(at, name), binds), Numbers(at, 1)[1]>>)
Local_(at, name, type) == Node("declare", at, "", <<Node("type", at, type, <<>>), Ident(at, name)>>)
Statement(t, at, name) == Node(t, at, "", <<Ident(at, name)>>)

Plainly == [selector |-> None, relations |-> {}]
Params(types) == [i \in DOMAIN types |-> [name |-> None, type |-> types[i]]]
\* A declaration without a body is given as FALSE.
Function(at, name, types, body, statements) ==
    Plainly @@ [t |-> "function", at |-> at, name |-> name, params |-> Params(types), returns |-> <<>>,
                virtual |-> TRUE, modifiers |-> <<>>,
                body |-> IF body THEN Node("block", at, "", statements) ELSE None]
Contract(at, name, ckind, bases, members) ==
    Plainly @@ [t |-> "contract", at |-> at, name |-> name, ckind |-> ckind, bases |-> bases, body |-> members]
Variable_(at, name, type) ==
    Plainly @@ [t |-> "stateVariable", at |-> at, name |-> name, type |-> type, public |-> FALSE]
Import(path, tokens) == [t |-> "import", path |-> path, tokens |-> tokens]
Pragma(name, minor) == [t |-> "pragma", name |-> name, comparators |-> <<[op |-> "^", minor |-> minor, patch |-> 0]>>]
File(minor, rest) == Parse!Parsed(<<Pragma("abicoder", 2), Pragma("solidity", minor)>> \o rest)
Unit(imports, contracts) == File(8, imports \o contracts)

Project(files, unit, artifacts, saves) ==
    [files |-> files, unit |-> unit, remappings |-> {}, sources |-> <<<<"src">>>>,
     artifacts |-> artifacts, saves |-> saves]

(***************************************************************************)
(* Hierarchies of A, B, C and D in one file.  A declares f; B, C and D may *)
(* override it.  Each of A, B and C calls f from a function of its own,    *)
(* and a client calls it on a value of each type.  X is nowhere; M is in   *)
(* two other files, one of which may be imported.                          *)
(***************************************************************************)
H == <<"src", "h">>
U == <<"src", "u">>
V == <<"src", "v">>

F(at, body, up) ==
    Function(at, "f", <<>>, body, IF up THEN <<Call(at + 1, "super", "f", 0, None, None)>> ELSE <<>>)
G(at, name) == Function(at, name, <<>>, TRUE, <<Call(at + 1, "bare", "f", 0, None, None)>>)
Client ==
    Function(501, "k", <<>>, TRUE, <<Local_(506, "a", "A"), Local_(507, "b", "B"), Local_(508, "c", "C"),
                                     Call(502, "member", "f", 0, "a", None), Call(503, "member", "f", 0, "b", None),
                                     Call(504, "member", "f", 0, "c", None), Call(505, "member", "f", 0, "c", None)>>)

Hierarchy(ckind, a, b, c, d, overriding, imports) ==
    Unit(imports,
      <<Contract(100, "A", ckind, a, <<[F(110, ckind = "contract", FALSE) EXCEPT !.virtual = ckind = "contract"]>>
                                     \o (IF ckind = "contract" THEN <<G(120, "gA")>> ELSE <<>>)),
        Contract(200, "B", "contract", b, <<G(220, "gB")>> \o (IF "B" \in overriding THEN <<F(210, TRUE, TRUE)>> ELSE <<>>)),
        Contract(300, "C", "contract", c, <<G(320, "gC")>> \o (IF "C" \in overriding THEN <<F(310, TRUE, TRUE)>> ELSE <<>>)),
        Contract(400, "D", "contract", d, IF "D" \in overriding THEN <<F(410, TRUE, FALSE)>> ELSE <<>>),
        Contract(500, "K", "contract", <<>>, <<Client>>)>>)

Other == Unit(<<>>, <<Contract(100, "M", "contract", <<>>, <<F(110, TRUE, FALSE)>>)>>)

BaseLists == {<<"A">>, <<"B">>, <<"C">>, <<"A", "B">>, <<"B", "A">>, <<"B", "C">>, <<"C", "B">>, <<"A", "C">>,
              <<"A", "B", "C">>, <<"B", "C", "A">>}

In(ckind, a, b, c, d, overriding, imports) ==
    Project(<<H, U, V>>, (H :> Hierarchy(ckind, a, b, c, d, overriding, imports)) @@ (U :> Other) @@ (V :> Other),
            <<>>, {})

Hierarchies ==
    {In(ckind, <<>>, <<"A">>, c, d, overriding, <<>>) :
        ckind \in {"contract", "interface"}, overriding \in SUBSET {"B", "C", "D"}, d \in BaseLists,
        c \in {<<>>, <<"A">>, <<"A", "B">>, <<"B", "A">>, <<"M", "A">>}}
    \cup {In("contract", a, b, c, d, {}, <<>>) :
            a \in {<<>>, <<"B">>}, b \in {<<>>, <<"A">>}, c \in {<<"A">>, <<"X", "A">>, <<"B", "A">>}, d \in BaseLists}
    \cup {In("contract", <<>>, <<"A">>, <<"M", "A">>, d, overriding, <<Import(<<".", "u">>, <<>>)>>) :
            d \in BaseLists, overriding \in {{"C"}, {"B", "D"}}}

(***************************************************************************)
(* Artifacts: `base` and `main` in two revisions each.  The compiler's     *)
(* answers are the overload of f that takes a number, N's k where the      *)
(* local of the inner block hides the outer, nothing for a low-level call. *)
(***************************************************************************)
Base == <<"src", "base">>
Main == <<"src", "main">>
Ref(key, scope, name, params) == [key |-> key, scope |-> scope, name |-> name, params |-> params]
InB(name, params) == Ref(<<"base">>, "B", name, params)

\* The calls of g in a revision.  Chained is b.k().k(), one call inside the
\* other.
Overload(o)   == Call(o + 40, "bare", "f", 1, None, InB("f", <<"uint256">>))
Odd(o)        == Call(o + 41, "bare", "f", 1, None, Ref(<<"main">>, "N", "k", <<>>))
Certain(o)    == Call(o + 42, "bare", "k", 0, None, Ref(<<"main">>, "C", "k", <<>>))
Hidden(o)     == Call(o + 43, "member", "k", 0, "b", Ref(<<"main">>, "N", "k", <<>>))
LowCall(o)    == Call(o + 44, "expression", "call", 1, None, None)
Inner(o)      == Call(o + 45, "member", "k", 0, "b", InB("k", <<>>))
Chained(o)    == Bound(Invoke(o + 45, Select(o + 45, Inner(o), "k"), 0), Ref(<<"main">>, "N", "k", <<>>))
Expression(o) == Call(o + 46, "expression", "k", 0, None, InB("k", <<>>))

Statements(list, o) ==
    CASE list = "plain"   -> <<Overload(o), Certain(o), Hidden(o), LowCall(o), Expression(o)>>
      [] list = "chained" -> <<Odd(o), Chained(o), Certain(o), LowCall(o)>>
      [] list = "certain" -> <<Certain(o)>>
CallLists == {"plain", "chained"}

Revised(unit, text) == [text |-> text] @@ unit
BaseUnit(rev) ==
    LET o == rev IN
    Revised(Unit(<<>>, <<Contract(o, "B", "contract", <<>>,
        (IF rev = 2 THEN <<Variable_(o + 1, "w", "uint256")>> ELSE <<>>)
        \o <<Variable_(o + 2, "v", "uint256"),
             Function(o + 3, "f", <<"address">>, TRUE, <<>>),
             Function(o + 4, "f", <<"uint256">>, TRUE, <<>>),
             Function(o + 5, "k", <<>>, TRUE, <<>>)>>)>>), <<"base", rev>>)

MainUnit(rev, list) ==
    LET o == rev
        calls == Statements(list, o)
        g == Function(o + 7, "g", <<>>, TRUE,
                <<Local_(o + 29, "b", "B"), Assign(o + 30, "v", InB("v", None)),
                  Read(o + 31, "x", Ref(<<"main">>, "C", "x", None))>> \o calls)
        k == [Function(o + 6, "k", <<>>, TRUE, <<>>)
                EXCEPT !.relations = {[rel |-> "base", to |-> InB("k", <<>>)]}]
    IN  Revised(Unit(<<Import(<<".", "base">>, <<>>)>>,
          <<Contract(o, "N", "contract", <<>>, (IF rev = 2 THEN <<Function(o + 1, "j", <<>>, TRUE, <<>>)>> ELSE <<>>)
                                                \o <<Function(o + 2, "k", <<>>, TRUE, <<>>)>>),
            [Contract(o + 4, "C", "contract", <<"B">>, <<Variable_(o + 5, "x", "uint256"), k, g>>)
               EXCEPT !.relations = {[rel |-> "inherits", to |-> Ref(<<"base">>, None, "B", None)]}]>>), <<"main", rev, list>>)

Artifact(status, srcs) == [status |-> status, layout |-> TRUE, srcs |-> srcs]
Source(name, unit) == [key |-> <<name>>, unit |-> unit]
Compilations(calls) ==
    {<<Source("base", BaseUnit(i)), Source("main", MainUnit(j, calls))>> : i, j \in {1, 2}}
    \cup {<<Source("main", MainUnit(j, calls)), Source("base", BaseUnit(i))>> : i, j \in {1, 2}}
    \cup {<<Source("base", BaseUnit(i))>> : i \in {1, 2}}

OnDisk(calls, i, j) == (Base :> BaseUnit(i)) @@ (Main :> MainUnit(j, calls))
Saves(calls) == {{}, {[file |-> Base, unit |-> BaseUnit(2)], [file |-> Main, unit |-> MainUnit(2, calls)]}}

Enriched ==
    UNION {{Project(<<Base, Main>>, OnDisk(calls, i, j), before \o <<Artifact("good", srcs)>>, saves) :
              i, j \in {1, 2}, srcs \in Compilations(calls), saves \in Saves(calls),
              before \in {<<>>, <<Artifact("unreadable", <<>>)>>}} : calls \in CallLists}
    \cup {Project(<<Base, Main>>, OnDisk(calls, 1, 1), <<Artifact("odd", srcs)>>, {}) :
            calls \in CallLists, srcs \in Compilations("certain")}

(***************************************************************************)
(* Names: aliases, a namespace, a remapped library, attached and free      *)
(* functions, base constructors, pointers, and every shape of call.        *)
(***************************************************************************)
Lib == <<"lib", "l">>
Free == <<"src", "free">>
User == <<"src", "user">>

LibUnit == Unit(<<>>, <<Contract(1, "L", "library", <<>>,
             <<Function(2, "add", <<"uint256", "uint256">>, TRUE, <<>>),
               Function(3, "add", <<"address", "uint256">>, TRUE, <<>>)>>)>>)

Named(at, kind, name, types) == Plainly @@ [t |-> kind, at |-> at, name |-> name, params |-> Params(types)]
FreeUnit == File(8, <<Variable_(4, "MAX", "uint256"), Named(3, "struct", "S", <<>>), Named(2, "error", "Bad", <<>>),
                      Function(1, "scale", <<"uint256">>, TRUE, <<>>)>>)

Shapes == <<Call(40, "bare", "require", 1, None, None), Call(41, "bare", "grow", 1, None, None),
            Call(42, "bare", "hook", 0, None, None), Call(43, "bare", "S", 1, None, None),
            Call(44, "bare", "nowhere", 0, None, None), Call(45, "member", "scale", 1, "F", None),
            Call(46, "member", "add", 2, "L", None), Call(47, "member", "add", 1, "n", None),
            Call(48, "member", "push", 1, "n", None), Call(49, "member", "call", 1, "n", None),
            Call(50, "member", "zip", 1, "n", None), Call(51, "member", "m", 0, "unknown", None),
            Call(52, "cast", "call", 1, "address", None), Call(53, "cast", "total", 0, "P", None),
            Call(54, "new", "P", 0, None, None), Call(55, "new", "Q", 0, None, None),
            Call(56, "new", "uint256", 1, None, None), Call(57, "this", "go", 0, None, None),
            Call(58, "this", "gone", 0, None, None), Call(59, "expression", "call", 0, "abi", None),
            Call(60, "bare", "n", 0, None, None), Call(61, "member", "encode", 1, "abi", None)>>

UserUnit(minor, calls) ==
    LET guard == [Function(4, "guard", <<>>, TRUE, <<>>) EXCEPT !.t = "modifier"]
        ctor  == [Function(5, "constructor", <<>>, TRUE, <<>>) EXCEPT !.t = "constructor", !.virtual = FALSE]
        go    == [Function(15, "go", <<>>, TRUE,
                     <<Local_(30, "n", "uint256"), Assign(31, "total", None), Assign(32, "total", None),
                       Ident(33, "MAX"), Ident(34, "n"), Statement("emit", 35, "Went"), Statement("emit", 36, "Lost"),
                       Statement("revert", 37, "Bad")>> \o calls)
                    EXCEPT !.modifiers = <<"guard", "ghost">>]
    IN  File(minor,
          <<Import(<<"@l", "l">>, <<>>), Import(<<".", "free">>, <<"{", "scale", "as", "grow", "}">>),
            Import(<<".", "free">>, <<>>), Import(<<".", "free">>, <<"*", "as", "F">>), Import(<<".", "lost">>, <<"Lost">>),
            Contract(1, "P", "contract", <<>>,
              <<[Variable_(2, "total", "uint256") EXCEPT !.public = TRUE], Named(3, "event", "Went", <<"uint256">>),
                guard, ctor>>),
            Contract(11, "R", "contract", <<"P">>,
              <<[t |-> "using", library |-> "L", type |-> "uint256", functions |-> {}],
                Variable_(12, "hook", "function"), [ctor EXCEPT !.at = 13, !.modifiers = <<"P">>],
                [guard EXCEPT !.at = 14], go, [go EXCEPT !.at = 16]>>)>>)

NameProjects ==
    {[Project(<<Lib, Free, User>>, (Lib :> LibUnit) @@ (Free :> FreeUnit) @@ (User :> UserUnit(minor, calls)), <<>>, {})
        EXCEPT !.remappings = {[context |-> <<>>, prefix |-> <<"@l">>, target |-> <<"lib">>],
                               [context |-> <<>>, prefix |-> <<>>, target |-> <<"vendor">>]}] :
        minor \in {7, 8}, calls \in {Shapes, SubSeq(Shapes, 1, 7)}}

(***************************************************************************)
(* Bodies of a statement and another, over a contract with two variables   *)
(* and two functions, one of one argument and one of two.                  *)
(***************************************************************************)
Element(at, name, by) == Node("index", at, "", <<Ident(at, name), by>>)
Target(at, t, target) == Node(t, at, "", <<target, Ident(at + 9, "s")>>)
Options(at, callee, key) ==
    Node("options", at, "", <<callee, Node("field", at + 5, "", <<Ident(at + 5, key), Ident(at + 6, "s")>>)>>)
Given(at, name, args) == Node("call", at, "", <<Ident(at, name)>> \o args)
SenderIs(at) == Node("binary", at, "==", <<Select(at, Ident(at, "msg"), "sender"), Ident(at + 7, "s")>>)

Pool(at) ==
    {Target(at, "assign", Ident(at, "s")), Target(at, "assign", Element(at, "m", Ident(at + 1, "s"))),
     Target(at, "assign", Node("paren", at, "", <<Ident(at, "m")>>)),
     Target(at, "assign", Node("tuple", at, "", <<Element(at, "s", Ident(at + 1, "p")), Ident(at + 2, "m")>>)),
     Target(at, "augment", Select(at, Ident(at, "s"), "field")),
     Target(at, "assign", Element(at, "m", Given(at + 1, "one", Numbers(at + 2, 1)))),
     Target(at, "assign", Select(at, Given(at, "one", Numbers(at, 1)), "field")),
     Node("update", at, "", <<Ident(at, "m")>>), Node("delete", at, "", <<Element(at, "m", Ident(at + 1, "s"))>>),
     Local_(at, "s", "uint256"), Local_(at, "one", "function"),
     Call(at, "member", "push", 1, "m", None),
     Given(at, "one", <<Given(at + 1, "two", <<Ident(at + 2, "s"), Ident(at + 3, "m")>>)>>),
     Invoke(at, Select(at, Invoke(at, Ident(at, "one"), 1), "gone"), 0),
     Invoke(at, Select(at, Invoke(at, Ident(at, "two"), 2), "gone"), 0),
     Invoke(at, Select(at, Invoke(at, Ident(at, "W"), 1), "one"), 1),
     Invoke(at, Options(at, Ident(at, "two"), "value"), 2),
     Invoke(at, Options(at, Node("new", at, "", <<Ident(at + 1, "W")>>), "salt"), 0),
     Invoke(at, Node("member", at, "", <<Ident(at, "s")>>), 0),
     Node("if", at, "", <<SenderIs(at), Given(at + 8, "selfdestruct", Numbers(at + 8, 1))>>),
     Node("assembly", at, "", <<Node("yul", at, "sstore", <<>>), Node("yul", at, "add", <<>>), Ident(at, "s")>>),
     Node("try", at, "", <<Call(at, "this", "one", 1, None, None), Node("unchecked", at + 3, "", <<Ident(at + 3, "m")>>)>>)}

Wallet(statements) ==
    Unit(<<>>, <<Contract(1, "W", "contract", <<>>,
        <<Function(2, "one", <<"uint256">>, TRUE, <<>>), Variable_(3, "s", "uint256"),
          Function(4, "two", <<"uint256", "uint256">>, TRUE, <<>>), Variable_(5, "m", "uint256"),
          [Function(6, "go", <<"uint256">>, TRUE, statements)
             EXCEPT !.params = <<[name |-> "p", type |-> "uint256"]>>]>>)>>)

Bodies ==
    {Project(<<User>>, User :> Wallet(<<x, y>>), <<>>, {}) :
        x \in Pool(20), y \in {Local_(40, "s", "uint256"), Local_(40, "one", "function"), Call(40, "bare", "one", 1, None, None)}}

MCProjects == Hierarchies \cup Enriched \cup NameProjects \cup Bodies
=============================================================================
