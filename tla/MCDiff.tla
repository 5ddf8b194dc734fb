------------------------------- MODULE MCDiff -------------------------------
(***************************************************************************)
(* Pairs of small revisions for Diff: two contracts of one name in two     *)
(* files, functions f and g with two signatures, state variables.          *)
(***************************************************************************)
EXTENDS Diff

MCIds == 1..11
MCNames == {"A", "f", "g", "v", "w"}

(* f and g are alike enough to be a rename, nothing else is. *)
MCLikeness ==
  [p \in MCNames \X MCNames |->
     IF p[1] = p[2] THEN 10 ELSE IF p \in {<<"f", "g">>, <<"g", "f">>} THEN 5 ELSE 0]

Node(kind, name, file, scope) ==
  [kind |-> kind, name |-> name, file |-> file, scope |-> scope, hash |-> None,
   params |-> 0, returns |-> 0, mutability |-> "nonpayable", guard |-> "none", flags |-> {},
   reachable |-> FALSE, entry |-> FALSE, offset |-> 0, slot |-> FALSE]

(* A.f(x), A.f(y), A.g(x) and a free f(x) in the first file, A.f(x) and       *)
(* A.g(x) in the second.                                                     *)
Universe ==
  <<Node("Contract", "A", "p", None), Node("Contract", "A", "q", None),
    Node("Function", "f", "p", 1), [Node("Function", "f", "p", 1) EXCEPT !.params = 1],
    Node("Function", "g", "p", 1), Node("Function", "f", "q", 2), Node("Function", "g", "q", 2),
    Node("StateVariable", "v", "p", 1), Node("StateVariable", "w", "p", 1),
    Node("StateVariable", "v", "q", 2), Node("Function", "f", "p", None)>>

FunctionIds == {3, 4, 5, 6, 7, 11}

Calls(from, to, subkind) ==
  [kind |-> "calls", subkind |-> subkind, from |-> from, to |-> to, count |-> 1]
Declares(n) ==
  [kind |-> "declares", subkind |-> "", from |-> Universe[n].scope, to |-> n, count |-> 1]

Graph(ids, attributes, calls) ==
  LET members == {n \in ids : Universe[n].scope # None} IN
  [nodes |-> [n \in ids |-> attributes[n]],
   edges |-> {Declares(n) : n \in members} \cup calls]

(* Which function is which: two files, any few functions, any bodies. *)
Bodied(functions, bodies) ==
  {[n \in MCIds |-> IF n \in functions THEN [Universe[n] EXCEPT !.hash = h[n]] ELSE Universe[n]] :
     h \in [functions -> bodies]}

WithFunctions(scopes, most, bodies) ==
  UNION {{Graph((scopes \ {None}) \cup fs, attributes, calls) :
            attributes \in Bodied(fs, bodies),
            calls \in {{}, {Calls(5, n, "internal") : n \in {m \in fs \ {5} : 5 \in fs}}}} :
         fs \in {s \in SUBSET {n \in FunctionIds : Universe[n].scope \in scopes} :
                   Cardinality(s) <= most}}

Matched ==
  [before : WithFunctions({1, 2}, 3, {None, "h", "k"}), after : WithFunctions({1, 2}, 2, {None, "h"})]
  \cup [before : WithFunctions({1}, 2, {None, "h", "k"}), after : WithFunctions({1}, 3, {None, "h", "k"})]
  \cup [before : WithFunctions({None, 1}, 2, {None, "h"}),
        after : WithFunctions({None, 2}, 2, {None, "h"})]

(* One function and its callee, and all there is to report of them. *)
Reported(caller, callee) ==
  {Graph({1, caller, callee},
         [Universe EXCEPT
            ![caller] = [@ EXCEPT !.hash = "h", !.mutability = m, !.guard = g, !.flags = fl,
                                  !.reachable = r # "no", !.entry = r = "entry"],
            ![callee] = [@ EXCEPT !.hash = "k"]],
         {Calls(caller, callee, s)}) :
     m \in {"view", "payable"}, g \in {"none", "low", "high"}, fl \in {{}, {"hasAssembly"}},
     r \in {"no", "internal", "entry"}, s \in {"internal", "external"}}

Exposed ==
  [before : Reported(3, 5), after : Reported(3, 5) \cup Reported(4, 5)]
  \cup [before : WithFunctions({1}, 1, {"k"}), after : Reported(3, 5)]

(* Storage: variables in either order, some of them constants. *)
WithVariables ==
  UNION {{Graph({1} \cup vs,
                [n \in MCIds |-> IF n \in vs
                   THEN [Universe[n] EXCEPT !.slot = n \in slots, !.offset = at[n]]
                   ELSE Universe[n]], {}) :
            slots \in SUBSET vs, at \in {f \in [vs -> 1..2] : \A i, j \in vs : i # j => f[i] # f[j]}} :
         vs \in SUBSET {8, 9}}

(* A recovered parse may give one id to a variable and to a function.        *)
Mistaken ==
  LET function == [Universe EXCEPT ![8] = [Universe[3] EXCEPT !.name = "v", !.hash = "h"]]
  IN  {[before |-> Graph({1, 8}, Universe, {}), after |-> Graph({1, 8}, function, {})]}

MCInputs == Mistaken \cup Matched \cup Exposed \cup [before : WithVariables, after : WithVariables]
=============================================================================
