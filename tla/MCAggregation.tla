--------------------------- MODULE MCAggregation ---------------------------
(***************************************************************************)
(* Two contracts and an interface in three directories, a test beside      *)
(* them, and every choice of relations between their members.             *)
(***************************************************************************)
EXTENDS Aggregation, TLC

CONSTANTS src, lib, deep, test,         \* directories; deep is in lib, lib in src
          A, B, I, T,                   \* contracts and the test
          a, b, c, i, t, v, q           \* functions, a variable, a placeholder

MCParent == (src :> None) @@ (lib :> src) @@ (deep :> lib) @@ (test :> None)

Node(kind, scope, dir, scaffold, bases, sub, vis, mut, guard) ==
    [kind |-> kind, scope |-> scope, dir |-> dir, scaffold |-> scaffold, bases |-> bases,
     sub |-> sub, vis |-> vis, mut |-> mut, guard |-> guard]

ContractNode(id, dir, scaffold, bases) == Node("Contract", None, dir, scaffold, {id} \cup bases, "contract", "none", "none", "none")
FunctionNode(scope, dir, vis, mut, guard) == Node("Function", scope, dir, FALSE, {}, "function", vis, mut, guard)

NodeOf ==
       (A :> ContractNode(A, src, FALSE, {I})) @@ (B :> ContractNode(B, lib, FALSE, {}))
    @@ (I :> ContractNode(I, deep, FALSE, {})) @@ (T :> ContractNode(T, test, TRUE, {}))
    @@ (a :> FunctionNode(A, src, "external", "payable", "none"))
    @@ (b :> FunctionNode(B, lib, "public", "nonpayable", "high"))
    @@ (c :> FunctionNode(B, lib, "internal", "view", "none"))
    @@ (i :> FunctionNode(I, deep, "external", "nonpayable", "none"))
    @@ (t :> FunctionNode(T, test, "external", "nonpayable", "none"))
    @@ (v :> Node("StateVariable", B, lib, FALSE, {}, "variable", "internal", "none", "none"))
    @@ (q :> Node("Unresolved", None, src, FALSE, {}, "not-found", "none", "none", "none"))

Edge(kind, from, to, sub, res, count, possible) ==
    [kind |-> kind, from |-> from, to |-> to, sub |-> sub, res |-> res, count |-> count, possible |-> possible]

Declared == {Edge("declares", NodeOf[m].scope, m, "none", "semantic", 1, {}) : m \in {a, b, c, i, t, v}}

Optional ==
    {{Edge("inherits", A, I, "none", "heuristic", 1, {})},
     {Edge("calls", a, b, "external", "heuristic", 2, {}), Edge("calls", a, c, "external", "semantic", 1, {})},
     {Edge("calls", a, i, "external", "ambiguous", 1, {b, i})},
     {Edge("creates", a, B, "none", "semantic", 1, {})},
     {Edge("calls", b, c, "internal", "heuristic", 1, {}), Edge("calls", b, q, "lowlevel", "unresolved", 1, {})},
     {Edge("calls", i, b, "external", "semantic", 3, {})},
     {Edge("calls", t, a, "external", "heuristic", 1, {})},
     {Edge("writes", b, v, "none", "semantic", 1, {}), Edge("calls", c, a, "external", "semantic", 1, {})}}

\* Every choice of these relations.
MCGraphs == {[node |-> NodeOf, edge |-> Declared \cup UNION chosen] : chosen \in SUBSET Optional}

Request(view, focus, hops, tests, expand, cap, auto) ==
    [view |-> view, focus |-> focus, hops |-> hops, tests |-> tests, expand |-> expand, cap |-> cap, auto |-> auto]

MCRequests ==
       {Request("protocol", None, 0, tests, {}, cap, TRUE) : tests \in BOOLEAN, cap \in {3, 5, 7, 9}}
    \cup {Request("protocol", None, 0, TRUE, expand, cap, auto) :
            expand \in {{lib}, {test, lib}}, cap \in {6, 12}, auto \in BOOLEAN}
    \cup {Request("contract", focus, 0, FALSE, {}, 6, TRUE) : focus \in {None, B, b, q}}
    \cup {Request("call", focus, 2, FALSE, {}, 6, TRUE) : focus \in {B, b}}
    \cup {Request("state-access", focus, 0, FALSE, {}, 6, TRUE) : focus \in {None, B}}
    \cup {Request("inheritance", None, 0, FALSE, {}, 6, TRUE)}
=============================================================================
