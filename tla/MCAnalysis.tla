----------------------------- MODULE MCAnalysis -----------------------------
(***************************************************************************)
(* Small graphs for Analysis, one family for what each pass must get right.*)
(***************************************************************************)
EXTENDS Analysis, TLC

MCIds == 1..9
MCNames == {"run", "onlyOwner", "checked", "nonReentrant", "whenNotPaused"}

(* Contract 1 inherits from 2; 3 is an interface. *)
Contract(kind, bases) == [kind |-> "Contract", name |-> "C", contractKind |-> kind, bases |-> bases]
Contracts ==
  [c \in 1..3 |-> CASE c = 1 -> Contract("contract", {2}) [] c = 2 -> Contract("abstract", {})
                    [] c = 3 -> Contract("interface", {})]

Function(scope, subkind) ==
  [kind |-> "Function", name |-> "run", subkind |-> subkind, open |-> TRUE, hasBody |-> TRUE,
   scope |-> scope, sender |-> FALSE, writes |-> FALSE]
Internal(scope) == [Function(scope, "function") EXCEPT !.open = FALSE]
Modifier(name, sender) == [Function(2, "modifier") EXCEPT !.name = name, !.sender = sender]
NotFound(name) == [kind |-> "Unresolved", name |-> name]

Edge(kind, subkind, from, to, targets, sites) ==
  [kind |-> kind, subkind |-> subkind, from |-> from, to |-> to, targets |-> targets, sites |-> sites]
Calls(from, to) == Edge("calls", "internal", from, to, {}, {1})
Modified(from, to) == Edge("modifiedBy", "", from, to, {}, {1})

Settings(entrypoints) ==
  [entrypoints |-> entrypoints, accessControlModifiers |-> {"onlyOwner"},
   reentrancyGuards |-> {"nonReentrant"}]
Input(functions, edges, entrypoints) ==
  [graph |-> [nodes |-> Contracts @@ functions, edges |-> edges]] @@ Settings(entrypoints)

(* Every call graph on three entrypoints: with two bits to a word the second *)
(* has the sign bit and the third starts a word.                             *)
Cycles ==
  {Input([f \in 4..6 |-> Function(1, "function")], {Calls(c[1], c[2]) : c \in calls}, {}) :
     calls \in SUBSET ((4..6) \X (4..6))}

(* A call on interface 3, its implementation 6 on base 2, a free function    *)
(* that deploys contract 2, whose constructor runs a modifier's body.        *)
ReachEdges ==
  {Edge("calls", "external", 4, 5, {6}, {1}), Calls(6, 7), Edge("creates", "", 7, 2, {}, {1}),
   Modified(8, 9), Calls(9, 6)}
ReachInputs ==
  {Input([f \in 4..9 |->
            CASE f = 4 -> Function(1, "function")
              [] f = 5 -> [Function(3, "function") EXCEPT !.hasBody = body]
              [] f = 6 -> IF public THEN Function(2, "function") ELSE Internal(2)
              [] f = 7 -> Internal(None)
              [] f = 8 -> Function(2, "constructor")
              [] f = 9 -> Modifier("checked", FALSE)],
         edges, entrypoints) :
     body \in BOOLEAN, public \in BOOLEAN, edges \in SUBSET ReachEdges,
     entrypoints \in {{}, {2}, {3}, {5, 7}, {8, 9}}}

(* A function under any modifiers, found or not, in any order. *)
GuardedBy ==
  {Input([f \in 4..9 |->
            CASE f = 4 -> [Function(1, "function") EXCEPT !.sender = own]
              [] f = 5 -> Modifier("onlyOwner", listed)
              [] f = 6 -> Modifier("checked", checked)
              [] f = 7 -> NotFound("onlyOwner")
              [] f = 8 -> Modifier("nonReentrant", FALSE)
              [] f = 9 -> NotFound("whenNotPaused")],
         {Modified(4, m) : m \in modifiers}, {}) :
     own \in BOOLEAN, listed \in BOOLEAN, checked \in BOOLEAN, modifiers \in SUBSET (5..9)}

(* 4 calls 5 and 6, whose calls leave the contract, write, or reach 7, which *)
(* does either; 5 also stands for an interface's function that 7 implements. *)
ShapeCalls == {Calls(5, 7), Edge("calls", "internal", 5, 8, {7}, {1}), Calls(7, 6),
               Edge("calls", "lowlevel", 7, 9, {}, {1}), Edge("calls", "external", 6, 8, {7}, {1})}
Shapes ==
  {Input([f \in 4..9 |->
            CASE f = 4 -> Function(1, "function")
              [] f \in 5..7 -> [Internal(2) EXCEPT !.writes = f \in writers]
              [] f = 8 -> [Function(3, "function") EXCEPT !.hasBody = FALSE]
              [] f = 9 -> NotFound("call")],
         calls \cup {Edge("calls", "internal", 4, 5, {}, at), Edge("calls", "internal", 4, 6, {}, {2})}
               \cup own, {}) :
     writers \in {{}, {6}, {7}}, calls \in SUBSET ShapeCalls, at \in {{1}, {3}},
     own \in {{}, {Edge("writes", "", 4, 1, {}, {2})}}}

(* Mutual recursion among the entrypoints, no function calling itself. *)
MCRecursion == {i \in Cycles : \A e \in i.graph.edges : e.from # e.to}

MCInputs == Cycles \cup ReachInputs \cup GuardedBy \cup Shapes
=============================================================================
