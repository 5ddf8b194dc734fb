------------------------------- MODULE Query -------------------------------
(***************************************************************************)
(* The questions asked of a graph: core/src/query, one operator per query. *)
(* A graph is [node, edge]: `node` gives every id its attributes, `edge`   *)
(* is the set of GraphEdge records.  Source ranges, names and notes are    *)
(* left out; `dir` is the directory of a node's file, `scaffold` is        *)
(* isTest || isMock, `bases` the linearized bases, itself included.        *)
(*                                                                         *)
(* Aggregation.tla is the program that turns a selection into what is      *)
(* drawn.                                                                  *)
(***************************************************************************)
EXTENDS Naturals, FiniteSets, FiniteSetsExt

CONSTANT None

CallKinds == {"calls", "creates"}

Rank(resolution) ==
    CASE resolution = "semantic" -> 0 [] resolution = "heuristic" -> 1
      [] resolution = "ambiguous" -> 2 [] resolution = "unresolved" -> 3

\* An aggregate is as certain as its least certain member (Worst).
Best(edges) == CHOOSE r \in {e.res : e \in edges} : \A e \in edges : Rank(e.res) >= Rank(r)
Worst(edges) == CHOOSE r \in {e.res : e \in edges} : \A e \in edges : Rank(e.res) <= Rank(r)
Calls(edges) == {e \in edges : e.kind \in CallKinds}
Sites(edges) == MapThenSumSet(LAMBDA e : e.count, edges)
Nodes(g) == DOMAIN g.node
OfKind(g, k) == {n \in Nodes(g) : g.node[n].kind = k}

(***************************************************************************)
(* traverse.ts: call hops both ways round, virtual arms included, and a    *)
(* breadth-first walk along them.                                          *)
(***************************************************************************)
CallSteps(g) ==
    UNION {{<<e.from, t>> : t \in {e.to} \cup (e.possible \cap Nodes(g))} : e \in Calls(g.edge)}

Neighbours(g, id, direction) ==
    IF direction = "callees" THEN {s[2] : s \in {x \in CallSteps(g) : x[1] = id}}
                             ELSE {s[1] : s \in {x \in CallSteps(g) : x[2] = id}}

\* The ids first seen at each depth; the origin is never a hit.
Frontier(g, origin, direction, depth) ==
    LET walk[d \in 0 .. depth] ==
            IF d = 0 THEN [at |-> {origin}, seen |-> {origin}]
            ELSE LET last == walk[d - 1]
                     next == (UNION {Neighbours(g, n, direction) : n \in last.at}) \ last.seen
                 IN  [at |-> next, seen |-> last.seen \cup next]
    IN  walk[depth].at

Traverse(g, origin, direction, limit) ==
    UNION {{[id |-> n, depth |-> d] : n \in Frontier(g, origin, direction, d)} : d \in 1 .. limit}

\* reachableFrom and callPath have no depth limit; the length of the path is
\* the depth of the hit, 0 for a node and itself and None without one.
ReachableFrom(g, origin) == Traverse(g, origin, "callees", Cardinality(Nodes(g)))

CallPathLength(g, from, to) ==
    IF from = to THEN 0
    ELSE LET hits == {h \in ReachableFrom(g, from) : h.id = to}
         IN  IF hits = {} THEN None ELSE (CHOOSE h \in hits : TRUE).depth

(***************************************************************************)
(* inspect.ts: one node's relations, and the lists of the CLI.             *)
(***************************************************************************)
Relation(e, other, virtual) ==
    [id |-> other, kind |-> e.kind, sub |-> e.sub, virtual |-> virtual, count |-> e.count,
     res |-> IF virtual THEN "ambiguous" ELSE e.res]

Arms(g, e) == (e.possible \ {e.to}) \cap Nodes(g)

Members(g, id) == {e.to : e \in {x \in g.edge : x.kind = "declares" /\ x.from = id}}

Outgoing(g, id) ==
    UNION {{Relation(e, e.to, FALSE)} \cup {Relation(e, t, TRUE) : t \in Arms(g, e)} :
           e \in {x \in g.edge : x.from = id /\ x.kind # "declares"}}

InEdgesOnly(g, id) ==
    {Relation(e, e.from, FALSE) : e \in {x \in g.edge : x.to = id /\ x.kind # "declares"}}

\* The in-edges, and a pass over every edge for those that may reach the node.
Incoming(g, id) ==
       {Relation(e, e.from, FALSE) : e \in {x \in g.edge : x.to = id /\ x.kind # "declares"}}
    \cup {Relation(e, e.from, TRUE) : e \in {x \in g.edge : x.to # id /\ id \in x.possible}}

AccessorsOf(g, variable, kind) ==
    {e.from : e \in {x \in g.edge : x.to = variable /\ x.kind = kind /\ g.node[x.from].kind = "Function"}}

Callable(n) == n.kind = "Function" /\ n.sub \notin {"modifier", "constructor"} /\ n.vis \in {"public", "external"}

Externals(g, unprotected, payable) ==
    {id \in Nodes(g) :
        LET n == g.node[id] IN
        /\ Callable(n)
        /\ unprotected => n.mut \notin {"view", "pure"} /\ n.guard = "none"
        /\ payable => n.mut = "payable"}

UnresolvedEdges(g) == {e \in g.edge : e.res = "unresolved" /\ g.node[e.to].kind = "Unresolved"}

\* The counts of `axiomap stats` that are about more than one attribute.
GraphStats(g) ==
    [real        |-> Cardinality({c \in OfKind(g, "Contract") : ~g.node[c].scaffold}),
     callable    |-> Cardinality({f \in Nodes(g) : Callable(g.node[f])}),
     unprotected |-> Cardinality({f \in Nodes(g) : Callable(g.node[f])
                                       /\ g.node[f].mut \notin {"view", "pure"} /\ g.node[f].guard = "none"}),
     unresolved  |-> Cardinality({e \in g.edge : e.res = "unresolved"})]

\* lenses.ts: the counts above a function; only `calls`, distinct callers.
FileLens(g, id) ==
    LET calls == {e \in g.edge : e.kind = "calls"}
    IN  [callers   |-> {e.from : e \in {x \in calls : id \in {x.to} \cup x.possible}},
         externals |-> Sites({e \in calls : e.from = id /\ e.sub \in {"external", "delegatecall", "lowlevel"}}),
         writes    |-> {e.to : e \in {x \in g.edge : x.kind = "writes" /\ x.from = id}},
         reads     |-> {e.to : e \in {x \in g.edge : x.kind = "reads" /\ x.from = id}}]

(***************************************************************************)
(* views.ts: the five selections.  A selection is [nodes, edges]; an error *)
(* is a ViewError.                                                         *)
(***************************************************************************)
ViewError == [nodes |-> {}, edges |-> {}, error |-> TRUE]
Selection(nodes, edges) == [nodes |-> nodes, edges |-> edges, error |-> FALSE]

Scaffolding(g, id) ==
    LET n == g.node[id] IN
    IF n.kind = "Contract" THEN n.scaffold
    ELSE n.scope \in Nodes(g) /\ g.node[n.scope].kind = "Contract" /\ g.node[n.scope].scaffold

Induced(g, keep, accept) == {e \in g.edge : e.from \in keep /\ e.to \in keep /\ e.kind \in accept}

ContainerOf(g, id) ==
    IF id \notin Nodes(g) THEN None
    ELSE IF g.node[id].kind = "Contract" THEN id
    ELSE IF g.node[id].scope \in Nodes(g) THEN g.node[id].scope ELSE None

Contracts(g, tests) == {c \in OfKind(g, "Contract") : tests \/ ~Scaffolding(g, c)}

\* Calls between two contracts become one edge, counted and no more certain
\* than the least certain.  Its kind is that of the first edge met, and the
\* order differs between a graph just built and the same graph read back:
\* `lead` is the kind met first where a pair has both.
RolledUp(g, keep, lead) ==
    LET ends(e)    == <<ContainerOf(g, e.from), ContainerOf(g, e.to)>>
        crossing   == {e \in Calls(g.edge) : ends(e)[1] # ends(e)[2] /\ {ends(e)[1], ends(e)[2]} \subseteq keep}
        between(p) == {e \in crossing : ends(e) = p}
        kinds(p)   == {e.kind : e \in between(p)}
    IN  {[kind  |-> IF lead \in kinds(p) THEN lead ELSE CHOOSE k \in kinds(p) : TRUE,
          from  |-> p[1], to |-> p[2], sub |-> "rollup", possible |-> {},
          count |-> Sites(between(p)), res |-> Worst(between(p))] : p \in {ends(e) : e \in crossing}}

ProtocolView(g, tests, lead) ==
    LET keep == Contracts(g, tests)
    IN  Selection(keep, Induced(g, keep, {"inherits"}) \cup RolledUp(g, keep, lead))

EdgeKinds == CallKinds \cup {"inherits", "overrides", "implements", "reads", "writes", "declares"}

\* A member asked for its contract is answered with its contract.
ContractView(g, requested) ==
    LET focus == IF ContainerOf(g, requested) # None THEN ContainerOf(g, requested) ELSE requested
        own   == {e.to : e \in {x \in g.edge : x.from = focus /\ x.kind \in {"declares", "inherits"}}}
        bases == (g.node[focus].bases \ {focus}) \cap Nodes(g)
        keep  == {focus} \cup own \cup bases \cup UNION {Members(g, b) : b \in bases}
    IN  IF g.node[focus].kind # "Contract" THEN ViewError
        ELSE Selection(keep, Induced(g, keep, EdgeKinds))

CallView(g, focus, up, down) ==
    LET keep == {focus} \cup {h.id : h \in Traverse(g, focus, "callers", up)}
                        \cup {h.id : h \in Traverse(g, focus, "callees", down)}
    IN  IF Calls(g.edge) = {} THEN ViewError ELSE Selection(keep, Induced(g, keep, CallKinds))

StateAccessView(g, focus, tests) ==
    LET touching == {e \in g.edge :
            /\ e.kind \in {"reads", "writes"}
            /\ tests \/ (~Scaffolding(g, e.from) /\ ~Scaffolding(g, e.to))
            /\ focus # None => focus \in {ContainerOf(g, e.from), ContainerOf(g, e.to)}}
    IN  Selection({e.from : e \in touching} \cup {e.to : e \in touching}, touching)

InheritanceView(g, tests) ==
    LET contracts == Contracts(g, tests)
        members   == {e \in g.edge : e.kind \in {"overrides", "implements"}
                                     /\ {ContainerOf(g, e.from), ContainerOf(g, e.to)} \subseteq contracts}
    IN  Selection(contracts \cup {e.from : e \in members} \cup {e.to : e \in members},
                  Induced(g, contracts, {"inherits"}) \cup members)

SelectView(g, req, lead) ==
    CASE req.view = "protocol"     -> ProtocolView(g, req.tests, lead)
      [] req.view = "inheritance"  -> InheritanceView(g, req.tests)
      [] req.view = "state-access" -> StateAccessView(g, req.focus, req.tests)
      [] req.view \in {"contract", "call"} ->
            IF req.focus \notin Nodes(g) THEN ViewError
            ELSE IF req.view = "contract" THEN ContractView(g, req.focus)
            ELSE CallView(g, req.focus, req.hops, req.hops)
=============================================================================
