---------------------------- MODULE Aggregation ----------------------------
(***************************************************************************)
(* aggregate.ts: a view request is answered with what is drawn, or refused *)
(* by name.  The protocol map is clustered by directory: what was asked to *)
(* be open is drawn or refused, then further directories are opened one    *)
(* at a time, shallowest first, while the result fits under the cap.       *)
(*                                                                         *)
(* Directories are model values with their parents (null above a root);    *)
(* directories of one depth are taken by name, here in any order.          *)
(***************************************************************************)
EXTENDS Query

CONSTANTS Graphs,     \* the graphs that may be held
          Requests,   \* [view, focus, hops, tests, expand, cap, auto]
          Parent      \* of every directory, None for a root

Dirs == DOMAIN Parent

\* A path is longer than its parent's: going up ends at a root.
ASSUME DirAssumption ==
    /\ IsFiniteSet(Dirs) /\ None \notin Dirs
    /\ \A d \in Dirs : Parent[d] \in Dirs \cup {None}
    /\ \A S \in SUBSET Dirs : S # {} => \E d \in S : Parent[d] \notin S
\* graphology: an edge has its ends in the graph.  graph/schema.ts: its count
\* and its resolution.  resolve/index.ts:566, 889: only a call has further
\* targets.
ASSUME GraphAssumption ==
    \A g \in Graphs :
        /\ IsFiniteSet(Nodes(g)) /\ IsFiniteSet(g.edge)
        /\ Nodes(g) \cap (Dirs \cup {None}) = {}
        /\ \A n \in Nodes(g) : g.node[n].dir \in Dirs
        /\ \A e \in g.edge :
              /\ {e.from, e.to} \subseteq Nodes(g)
              /\ e.count \in Nat /\ e.res \in {"semantic", "heuristic", "ambiguous", "unresolved"}
              /\ e.possible # {} => e.kind \in CallKinds
ASSUME RequestAssumption ==
    \A r \in Requests :
        /\ r = [view |-> r.view, focus |-> r.focus, hops |-> r.hops, tests |-> r.tests,
                expand |-> r.expand, cap |-> r.cap, auto |-> r.auto]
        /\ r.cap \in Nat /\ r.auto \in BOOLEAN

VARIABLES graph,   \* held by the host
          asked,   \* the request, or None
          lead,    \* the call kind the graph's own edge order meets first
          open,    \* directories open in the layout
          queue,   \* directories still to be tried
          pc,      \* "idle", "opening", "answered", "refused" or "failed"
          before   \* the answer the request feeds back in, or None

vars == <<graph, asked, lead, open, queue, pc, before>>

(***************************************************************************)
(* Directories                                                             *)
(***************************************************************************)
UpClosed(S) == \A d \in S : Parent[d] \in S \cup {None}
Ancestors(d) == {x \in Dirs : \A S \in SUBSET Dirs : d \in S /\ UpClosed(S) => x \in S}

Above == [d \in Dirs |-> Ancestors(d)]
Depth(d) == Cardinality(Above[d])

\* buildTree: the directories of a selection's files and all above them.
Tree(sel) == UNION {Above[graph.node[n].dir] : n \in sel.nodes}
Children(sel, d) == {c \in Tree(sel) : Parent[c] = d}

\* Expanding a leaf opens the path to it.
Closure(expand) == UNION {Above[d] : d \in expand}

(***************************************************************************)
(* layOut: one expansion state, drawn.                                     *)
(***************************************************************************)
Present(sel, opened) == {d \in Tree(sel) : Above[d] \ {d} \subseteq opened}
DrawnNodes(sel, opened) == {n \in sel.nodes : Above[graph.node[n].dir] \subseteq opened}

\* A node that is not drawn is represented by its nearest directory that is.
Representative(sel, opened, n) ==
    LET dir == graph.node[n].dir IN
    IF Above[dir] \subseteq opened THEN n
    ELSE CHOOSE d \in Above[dir] : /\ Above[d] \ {d} \subseteq opened
                                   /\ d \notin opened

Layout(sel, opened) ==
    LET rep      == [n \in sel.nodes |-> Representative(sel, opened, n)]
        plain    == {e \in sel.edges : rep[e.from] = e.from /\ rep[e.to] = e.to}
        lifted   == sel.edges \ plain
        inside   == {e \in lifted : rep[e.from] = rep[e.to]}
        key(e)   == <<e.kind, rep[e.from], rep[e.to]>>
        across   == lifted \ inside
        fold(k)  == {e \in across : key(e) = k}
    IN  [dirs       |-> Present(sel, opened),
         nodes      |-> DrawnNodes(sel, opened),
         edges      |-> plain,
         aggregates |-> {[key |-> k, count |-> Sites(fold(k)), pairs |-> Cardinality(fold(k)), res |-> Worst(fold(k))]
                         : k \in {key(e) : e \in across}},
         internal   |-> [d \in Present(sel, opened) |-> Sites({e \in inside : rep[e.from] = d})],
         collapsed  |-> Present(sel, opened) \ opened]

Elements(l) == Cardinality(l.dirs) + Cardinality(l.nodes) + Cardinality(l.edges) + Cardinality(l.aggregates)

\* Unclustered, a member is nested in its contract when that is drawn, and
\* the `declares` edge that said so is dropped.
Nested(sel, n) ==
    LET scope == graph.node[n].scope IN scope \in sel.nodes /\ graph.node[scope].kind = "Contract"

Flat(sel) ==
    [dirs |-> {}, nodes |-> sel.nodes, aggregates |-> {}, internal |-> <<>>, collapsed |-> {},
     edges |-> {e \in sel.edges : ~(e.kind = "declares" /\ Nested(sel, e.to) /\ graph.node[e.to].scope = e.from)}]

Clustered(req) == req.view = "protocol"
Selected == SelectView(graph, asked, lead)
Drawing == IF Clustered(asked) THEN Layout(Selected, open) ELSE Flat(Selected)
NodesFit(sel, opened) == Cardinality(DrawnNodes(sel, opened)) + Cardinality(Present(sel, opened)) <= asked.cap
Fits(sel, opened) == Elements(Layout(sel, opened)) <= asked.cap

(***************************************************************************)
(* Actions                                                                 *)
(***************************************************************************)
\* aggregate(): the selection, the directories asked for, the cap.
Answer(req) ==
    LET sel    == SelectView(graph, req, lead)
        opened == Closure(req.expand)
    IN  /\ asked' = req
        /\ IF sel.error \/ (Clustered(req) /\ ~(req.expand \subseteq Tree(sel)))
             THEN pc' = "failed" /\ open' = {} /\ queue' = {}
           ELSE IF ~Clustered(req)
             THEN /\ pc' = IF Elements(Flat(sel)) > req.cap THEN "refused" ELSE "answered"
                  /\ open' = {} /\ queue' = {}
           ELSE IF Elements(Layout(sel, opened)) > req.cap
             THEN pc' = "refused" /\ open' = opened /\ queue' = {}
           ELSE /\ open' = opened
                /\ queue' = IF req.auto THEN Layout(sel, opened).collapsed ELSE {}
                /\ pc' = IF queue' = {} THEN "answered" ELSE "opening"

Init ==
    /\ graph \in Graphs
    /\ lead \in CallKinds
    /\ asked = None
    /\ open = {} /\ queue = {}
    /\ pc = "idle"
    /\ before = None

Ask ==
    /\ pc = "idle"
    /\ \E req \in Requests : Answer(req)
    /\ UNCHANGED <<graph, lead, before>>

ThenNothing(path) == {}

\* Each directory is tried once; one that does not fit stays shut, one that
\* does brings its own directories into the queue.
Then(path) == Children(Selected, path)

TryOpen ==
    /\ pc = "opening"
    /\ \E path \in queue :
         /\ \A other \in queue : Depth(path) <= Depth(other)
         /\ LET fits == Fits(Selected, open \cup {path})
            IN  /\ open' = IF fits THEN open \cup {path} ELSE open
                /\ queue' = (queue \ {path}) \cup (IF fits THEN Then(path) ELSE {})
    /\ pc' = IF queue' = {} THEN "answered" ELSE "opening"
    /\ UNCHANGED <<graph, asked, lead, before>>

\* The user touches a directory: what is open is fed back as `expand`, less
\* a directory and those inside it when one is closed.
Again(expand) ==
    /\ before = None /\ Clustered(asked)
    /\ before' = open
    /\ LET same == [asked EXCEPT !.expand = expand] IN Answer([same EXCEPT !.auto = FALSE])
    /\ UNCHANGED <<graph, lead>>

FeedBack == pc = "answered" /\ Again(open)
CloseOne == pc = "answered" /\ \E d \in open : Again({x \in open : d \notin Above[x]})
OpenOne  == pc = "answered" /\ \E d \in Drawing.collapsed : Again(open \cup {d})

Next == Ask \/ TryOpen \/ FeedBack \/ CloseOne \/ OpenOne

Spec == Init /\ [][Next]_vars

(***************************************************************************)
(* Properties                                                              *)
(***************************************************************************)
\* Through the roll-up to contracts and the lifting to directories no call
\* site is lost, counted twice or made more certain: between two elements of
\* the map there are exactly the call sites of the graph between what they
\* stand for, no more certain than the least certain of them (views.ts:
\* "an aggregate is only as certain as its least certain member").
CallSitesConserved ==
    pc = "answered" /\ Clustered(asked) =>
        LET sel   == Selected
            d     == Drawing
            stand == [c \in sel.nodes |-> Representative(sel, open, c)]
            cross == {e \in Calls(graph.edge) :
                        LET tail == ContainerOf(graph, e.from) head == ContainerOf(graph, e.to)
                        IN  tail # head /\ {tail, head} \subseteq sel.nodes}
            ends(e)     == <<stand[ContainerOf(graph, e.from)], stand[ContainerOf(graph, e.to)]>>
            under(p)    == {e \in cross : ends(e) = p}
            drawn(p)    == {e \in Calls(d.edges) : <<e.from, e.to>> = p}
            lifted(p)   == {a \in d.aggregates : <<a.key[2], a.key[3]>> = p /\ a.key[1] \in CallKinds}
        IN  /\ \A p \in {ends(e) : e \in cross} : p[1] # p[2] =>
                  /\ Sites(under(p)) = Sites(drawn(p)) + Sites(lifted(p))
                  /\ \E e \in drawn(p) \cup lifted(p) : \A u \in under(p) : Rank(u.res) <= Rank(e.res)
            /\ \A p \in {ends(e) : e \in cross} : p[1] = p[2] =>
                  d.internal[p[1]] = Sites(under(p)) + Sites({e \in sel.edges : e.kind = "inherits"
                                            /\ stand[e.from] = p[1] /\ stand[e.to] = p[1]})
            /\ Sites(d.edges) + Sites(d.aggregates) + MapThenSumSet(LAMBDA x : d.internal[x], d.dirs)
                 = Sites(cross) + Sites({e \in sel.edges : e.kind = "inherits"})

\* The default map is opened as far as it fits (aggregate.ts: "clusters are
\* opened breadth-first for as long as the result stays under the cap"): it
\* is under the cap, and no directory left shut could be opened under it.
OpensAsFarAsItFits ==
    pc = "answered" /\ Clustered(asked) =>
        /\ Elements(Drawing) <= asked.cap
        /\ asked.auto => \A d \in Drawing.collapsed : ~Fits(Selected, open \cup {d})

\* What an answer says is open can be fed back to keep it, and the way out a
\* refusal offers, to collapse a directory, never leads to another refusal:
\* only opening a directory may be refused.
ClosingIsAWayOut ==
    before # None =>
        /\ asked.expand = before => pc = "answered" /\ open = before
        /\ asked.expand \subseteq before => pc = "answered" /\ open = asked.expand

\* The inspector, the traversals, the lenses and the lists walk the edges
\* each in their own way and tell one story: a relation seen from one end is
\* seen from the other, the calls one hop away are the inspector's, the
\* callers above a function those of its inspector, and the number of
\* unguarded entrypoints is the length of their list.
OneStory ==
    pc = "idle" =>
        /\ \A a, b \in Nodes(graph) : \A v \in BOOLEAN, k \in EdgeKinds :
              (\E r \in Outgoing(graph, a) : r.id = b /\ r.virtual = v /\ r.kind = k)
                <=> (\E r \in Incoming(graph, b) : r.id = a /\ r.virtual = v /\ r.kind = k)
        /\ \A a \in Nodes(graph) :
              /\ {h.id : h \in Traverse(graph, a, "callees", 1)}
                   = {r.id : r \in {x \in Outgoing(graph, a) : x.kind \in CallKinds}} \ {a}
              /\ {h.id : h \in Traverse(graph, a, "callers", 1)}
                   = {r.id : r \in {x \in Incoming(graph, a) : x.kind \in CallKinds}} \ {a}
              /\ graph.node[a].kind = "Function" =>
                   FileLens(graph, a).callers = {r.id : r \in {x \in Incoming(graph, a) : x.kind = "calls"}}
              /\ \A h \in Traverse(graph, a, "callers", Cardinality(Nodes(graph))) :
                   CallPathLength(graph, h.id, a) = h.depth
              /\ graph.node[a].kind = "StateVariable" =>
                   AccessorsOf(graph, a, "writes") = {f \in OfKind(graph, "Function") : a \in FileLens(graph, f).writes}
        /\ GraphStats(graph).unprotected = Cardinality(Externals(graph, TRUE, FALSE))
        /\ GraphStats(graph).callable = Cardinality(Externals(graph, FALSE, FALSE))
        /\ UnresolvedEdges(graph) \subseteq graph.edge
=============================================================================
