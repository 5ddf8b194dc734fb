----------------------------- MODULE GraphBuild -----------------------------
(***************************************************************************)
(* core/src/ingest.ts and graph/build.ts: a project becomes a graph.  The  *)
(* files are parsed, the artifacts are read one after the other, contracts *)
(* are linearized, names are resolved, the compiler's answers applied, and *)
(* the drafts collapsed into the edges that are written.                   *)
(*                                                                         *)
(* The user may save a file between the parse and the artifacts: the table *)
(* is of the bytes that were parsed, the artifacts are matched against the *)
(* bytes on disk.                                                          *)
(***************************************************************************)
EXTENDS Resolution, Edges

CONSTANTS Projects,    \* [files, remappings, sources, artifacts, unit, saves]: `saves` is a
                       \* set of [file, unit] a user may write during the build
          Threshold    \* the share of confident call sites, in percent

VARIABLES project,     \* what is being built
          disk,        \* file -> unit
          loaded,      \* the artifacts read so far
          unread,      \* the ones that are left
          overlay,     \* what they say together, or None
          drafts,      \* the resolver's edges, one per site
          stage,
          graph        \* the result, or None

vars == <<project, disk, table, lines, loaded, unread, overlay, drafts, stage, graph>>

Enrich == INSTANCE Enrichment

ContractIds == {id \in DOMAIN table.sym : IsContract(id)}

Init ==
    /\ project \in Projects
    /\ disk = project.unit
    /\ table = EmptyTable
    /\ unread = project.artifacts
    /\ lines = <<>> /\ loaded = <<>> /\ drafts = <<>>
    /\ overlay = None /\ graph = None
    /\ stage = "parse"

\* ingestProject.
Ingest ==
    /\ stage = "parse"
    /\ table' = SymbolTable(project)
    /\ stage' = "artifacts"
    /\ UNCHANGED <<project, disk, lines, loaded, unread, overlay, drafts, graph>>

Save ==
    /\ stage = "artifacts"
    /\ \E s \in project.saves : disk[s.file].text # s.unit.text /\ disk' = [disk EXCEPT ![s.file] = s.unit]
    /\ UNCHANGED <<project, table, lines, loaded, unread, overlay, drafts, stage, graph>>

\* One build-info file; one that cannot be read is skipped.
ReadBuildInfo ==
    /\ stage = "artifacts" /\ unread # <<>>
    /\ unread' = Tail(unread)
    /\ loaded' = IF Head(unread).status = "unreadable" THEN loaded
                 ELSE Append(loaded, Enrich!Load(Head(unread), table.files, disk))
    /\ UNCHANGED <<project, disk, table, lines, overlay, drafts, stage, graph>>

\* An artifact of a shape nobody has met makes the whole tier throw, which
\* buildProjectGraph catches: no overlay.
Index ==
    /\ stage = "artifacts" /\ unread = <<>>
    /\ overlay' = IF \E i \in DOMAIN project.artifacts : project.artifacts[i].status = "odd"
                  THEN None ELSE Enrich!Overlay(loaded, table)
    /\ stage' = "resolve"
    /\ UNCHANGED <<project, disk, table, lines, loaded, unread, drafts, graph>>

\* ProjectScope: the next contract in the order of the table, and with it the
\* bases it needs.
Linearize ==
    /\ stage = "resolve" /\ DOMAIN lines # ContractIds
    /\ LET next == SelectSeq(table.order, LAMBDA id : IsContract(id) /\ id \notin DOMAIN lines)[1]
       IN  lines' = Linearise(next, {}, lines).known
    /\ UNCHANGED <<project, disk, table, loaded, unread, overlay, drafts, stage, graph>>

ResolveProject ==
    /\ stage = "resolve" /\ DOMAIN lines = ContractIds
    /\ drafts' = Resolved
    /\ stage' = "build"
    /\ UNCHANGED <<project, disk, table, lines, loaded, unread, overlay, graph>>

(***************************************************************************)
(* graph/build.ts and graph/score.ts                                       *)
(***************************************************************************)
CallKinds == {"calls", "creates"}

\* One placeholder for each name the resolver could not place.
UnresolvedTargets == {d.to : d \in {x \in ToSet(drafts) : x.res = "unresolved"}}
KnownNodes == ToSet(table.files) \cup DOMAIN table.sym \cup UnresolvedTargets

SelectMode(overall, calls) ==
    IF overall.semantic > 0 THEN "full"
    ELSE IF Total(calls) = 0 THEN "structural"
    ELSE IF 100 * (calls.semantic + calls.heuristic) >= Threshold * Total(calls) THEN "heuristic"
    ELSE "structural"

\* Every function in the chain has a body, the first of a signature deciding.
FullyImplemented(id) ==
    LET order == Linearization(id).order
        fns   == SelectSeq(FlattenSeq([i \in DOMAIN order |-> Sym(order[i]).members]),
                           LAMBDA m : Sym(m).kind = "function" /\ Sym(m).sub # "constructor")
        Same(i, j) == Sym(fns[i]).name = Sym(fns[j]).name /\ Sym(fns[i]).params = Sym(fns[j]).params
    IN  /\ Sym(id).ckind # "interface"
        /\ \A i \in DOMAIN fns : Sym(fns[i]).hasBody \/ \E j \in 1 .. i - 1 : Same(i, j)

\* buildGraph.  Functions are marked by the edges they have before structural
\* mode drops the call edges; placeholders nothing refers to go with them.
BuildGraph ==
    /\ stage = "build"
    /\ LET sites   == IF overlay = None THEN drafts ELSE Enrich!Applied(drafts, overlay)
           edges   == Collapse(sites, KnownNodes)
           overall == Scored(edges, {k[3] : k \in DOMAIN edges} \ {"declares"}, table.excluded)
           calls   == Scored(edges, CallKinds, table.excluded)
           mode    == SelectMode(overall, calls)
           kept    == {k \in DOMAIN edges : mode # "structural" \/ k[3] \notin CallKinds}
           nodes   == {n \in KnownNodes : n \in UnresolvedTargets => \E k \in kept : n \in {k[1], k[2]}}
           to(n, kind) == {k[2] : k \in {x \in DOMAIN edges : x[1] = n /\ x[3] = kind}}
           functions == {n \in DOMAIN table.sym : Sym(n).kind \in {"function", "modifier"}}
       IN  graph' = [mode |-> mode, overall |-> overall, calls |-> calls, nodes |-> nodes,
                     edges |-> [k \in kept |-> edges[k]],
                     marks |-> [n \in functions |-> [flags  |-> Sym(n).flags,
                                                     reads  |-> "assemblyReadsState" \in Sym(n).flags \/ to(n, "reads") # {},
                                                     writes |-> "assemblyWritesState" \in Sym(n).flags \/ to(n, "writes") # {},
                                                     modifiers |-> to(n, "modifiedBy")]],
                     complete |-> {c \in ContractIds : FullyImplemented(c)},
                     selector |-> [n \in functions |-> IF overlay = None THEN {} ELSE Enrich!Selector(overlay, n)],
                     slot |-> [n \in {v \in DOMAIN table.sym : Sym(v).kind = "stateVariable"} |->
                                  IF overlay = None THEN {} ELSE Enrich!Slot(overlay, n)]]
    /\ stage' = "done"
    /\ UNCHANGED <<project, disk, table, lines, loaded, unread, overlay, drafts>>

Next == Ingest \/ Save \/ ReadBuildInfo \/ Index \/ Linearize \/ ResolveProject \/ BuildGraph

Spec == Init /\ [][Next]_vars

-----------------------------------------------------------------------------
(***************************************************************************)
(* Correctness                                                             *)
(***************************************************************************)
\* The bases of a contract, last first, when every name is one contract.
BaseSets(c) == [i \in DOMAIN Sym(c).bases |-> ToSet(ContractsNamed(Sym(c).file, Sym(c).bases[i]))]
Clear(c) == \A i \in DOMAIN BaseSets(c) : Cardinality(BaseSets(c)[i]) = 1

\* A certain linearization is one Solidity allows: the contract, then exactly
\* its ancestors, each base's own order kept, and a base named later before
\* one named earlier.  It is uncertain only when a base is, when a name is
\* not one contract, or when no order does all of this (scope.ts:162-212).
LinearizedAsSolidity ==
    stage = "build" =>
        \A c \in ContractIds :
            LET line   == lines[c]
                direct == UNION {BaseSets(c)[i] : i \in DOMAIN BaseSets(c)}
                all    == {c} \cup UNION {ToSet(lines[b].order) : b \in direct}
                first(x, y) ==
                    \/ \E b \in direct : Before(lines[b].order, x, y)
                    \/ \E i, j \in DOMAIN BaseSets(c) : i > j /\ x \in BaseSets(c)[i] /\ y \in BaseSets(c)[j]
                stuck  == \E knot \in SUBSET (all \ {c}) :
                             knot # {} /\ \A y \in knot : \E x \in knot : first(x, y)
            IN  /\ line.order[1] = c /\ IsInjective(line.order)
                /\ line.certain => /\ ToSet(line.order) = all
                                    /\ \A x, y \in all : first(x, y) => Before(line.order, x, y)
                /\ ~line.certain => \/ ~Clear(c) \/ stuck
                                     \/ \E b \in direct : c \in ToSet(lines[b].order) \/ ~lines[b].certain

(***************************************************************************)
(* Dispatch                                                                *)
(***************************************************************************)
Declares1(c, name, params) ==
    {m \in ToSet(Sym(c).members) : Sym(m).kind = "function" /\ Sym(m).name = name /\ Sym(m).params = params}

\* Contracts the compiler accepts for this signature: one declarer in the
\* chain derives from all the others.
Deployable(d, name, params) ==
    LET declarers == {c \in ToSet(lines[d].order) : Declares1(c, name, params) # {}}
    IN  /\ lines[d].certain /\ d \in graph.complete
        /\ \E m \in declarers : declarers \subseteq ToSet(lines[m].order)

\* The function a deployed contract runs.
Runs(d, name, params) ==
    LET has == SelectSeq(lines[d].order, LAMBDA c : Declares1(c, name, params) # {})
    IN  CHOOSE m \in Declares1(has[1], name, params) : TRUE

Reached(from, src) ==
    LET at == {k \in DOMAIN graph.edges : k[1] = from /\ k[3] = "calls" /\ Contains(graph.edges[k].sites, src)}
    IN  {k[2] : k \in at} \cup UNION {graph.edges[k].possible : k \in at}

\* The contract whose function a call names: its own for a bare call, the
\* declared type of the receiver for a member call.  A local of that name
\* hides it.
StaticType(fn, call) ==
    IF call.shape = "bare" THEN IF fn.scope = None \/ Local(fn, call.name) # <<>> THEN {} ELSE {fn.scope}
    ELSE IF call.shape = "member" /\ Local(fn, call.receiver) # <<>>
    THEN ToSet(ContractsNamed(fn.file, Local(fn, call.receiver)[1].type)) ELSE {}

\* Whatever contract of the project is deployed, the function it runs for a
\* virtual call is the target of the edge or one of its possible targets.
DispatchIsCovered ==
    stage = "done" /\ graph.mode # "structural" /\ overlay = None =>
        \A f \in DOMAIN graph.marks : \A i \in DOMAIN Sym(f).calls :
            LET call == Sym(f).calls[i] IN
            \A c \in StaticType(Sym(f), call) : \A m \in ToSet(MembersNamed(c, call.name)) :
                Sym(m).kind = "function" /\ Len(Sym(m).params) = call.args =>
                    \A d \in {x \in ContractIds : Contains(lines[x].order, c)} :
                        Deployable(d, call.name, Sym(m).params) =>
                            Runs(d, call.name, Sym(m).params) \in Reached(f, Site(Sym(f), call))

(***************************************************************************)
(* The compiler                                                            *)
(***************************************************************************)
\* An artifact speaks for a file when it compiled the bytes on disk.
Speaks(artifact, file) ==
    \E i \in DOMAIN artifact.srcs : artifact.srcs[i].unit.text = disk[file].text /\ IsSuffix(artifact.srcs[i].key, file)

\* The node a reference of the compiler means, by name.
Meant(artifact, ref) ==
    IF ref = None THEN {}
    ELSE {s \in DOMAIN table.sym :
            /\ IsSuffix(ref.key, table.sym[s].file) /\ Speaks(artifact, table.sym[s].file)
            /\ Sym(s).name = ref.name
            /\ ref.scope = IF Sym(s).scope = None THEN None ELSE Sym(Sym(s).scope).name
            /\ Sym(s).kind \in {"function", "modifier", "event", "error"} => Sym(s).params = ref.params}

\* The references of a function at one byte that answer for one kind of edge.
AtByte(fn, kind, src) ==
    LET in(refs) == {r \in ToSet(refs) : r.at = src[2]}
    IN  CASE kind \in {"calls", "creates"} -> in(fn.calls)
          [] kind \in {"reads", "writes"} -> in(fn.uses) \cup {r \in in(fn.calls) : r.binds # None /\ r.binds.params = None}
          [] kind = "emits"   -> in(fn.emits)
          [] kind = "reverts" -> in(fn.reverts)

TargetsOf(edges, d) == {k[2] : k \in {x \in DOMAIN edges : /\ x[1] = d.from /\ x[3] = d.kind
                                                            /\ Contains(edges[x].sites, d.src)}}

\* With one artifact and no save during the build: at a site of a file the
\* artifact speaks for, the compiler's answer is the only target there is,
\* unless the resolver hesitated between others, which leaves no edge; at
\* every other site the resolver's targets stay.  A variable has the slot the
\* compiler gives it for the bytes on disk, or none.
CompilerHasTheLastWord ==
    stage = "done" /\ graph.mode = "full" /\ disk = project.unit /\ Len(loaded) = 1 =>
        LET artifact == (CHOOSE i \in DOMAIN project.artifacts : project.artifacts[i].status # "unreadable")
            a == project.artifacts[artifact] IN
        /\ \A d \in {x \in ToSet(drafts) : x.kind \in DOMAIN Enrich!ReferenceClass} :
               LET here  == AtByte(Sym(d.from), d.kind, d.src)
                   guess == {x.to : x \in {y \in ToSet(drafts) : Enrich!SiteKey(y) = Enrich!SiteKey(d)}}
                   said  == IF Speaks(a, d.src[1]) THEN UNION {Meant(a, r.binds) : r \in here} ELSE {}
               IN  Cardinality(here) = 1 =>
                     TargetsOf(graph.edges, d) =
                        IF said = {} THEN guess
                        ELSE IF Cardinality(guess) > 1 /\ ~(said \subseteq guess) THEN {} ELSE said
        /\ \A v \in DOMAIN graph.slot :
               LET now == Enrich!Compiled([i \in DOMAIN table.files |->
                                               [key |-> table.files[i], unit |-> disk[table.files[i]]]])
                   c   == SelectInSeq(now, LAMBDA e : e.key = Sym(v).file /\ e.d.at = Sym(Sym(v).scope).at)
                   id  == SelectInSeq(now, LAMBDA e : e.key = Sym(v).file /\ e.d.at = Sym(v).at)
               IN  graph.slot[v] \subseteq {SelectInSeq(Enrich!Storage(now, c), LAMBDA x : x = id) - 1}

(***************************************************************************)
(* The collapse and the score                                              *)
(***************************************************************************)
\* No site is lost or counted twice: an edge stands for its drafts and is as
\* weak as the weakest, the score counts every site of a supported file, an
\* edge has both its ends and a placeholder an edge, and structural mode
\* takes away the calls and nothing else.  Where the compiler has been heard,
\* the site of a reference is counted as often as the resolver had targets for
\* it, and of those it hesitated between only for the compiler's
\* (build.ts:315-358, score.ts:78-102, semantic.ts:135-222).
SitesAreCounted ==
    stage = "done" =>
        /\ \A k \in DOMAIN graph.edges : {k[1], k[2]} \subseteq graph.nodes
        /\ \A n \in graph.nodes \cap UnresolvedTargets : \E k \in DOMAIN graph.edges : k[2] = n
        /\ overlay = None =>
             LET made(k) == SelectSeq(drafts, LAMBDA d : EdgeKey(d) = k)
                 keys == {EdgeKey(d) : d \in ToSet(drafts)}
             IN  /\ DOMAIN graph.edges = {k \in keys : graph.mode # "structural" \/ k[3] \notin CallKinds}
                 /\ \A k \in DOMAIN graph.edges :
                      /\ graph.edges[k].count = Len(made(k))
                      /\ \E d \in ToSet(made(k)) : d.res = graph.edges[k].res
                      /\ \A d \in ToSet(made(k)) : Confidence[graph.edges[k].res] <= Confidence[d.res]
                      /\ graph.edges[k].possible = UNION {d.possible : d \in ToSet(made(k))}
                 /\ Total(graph.overall) =
                      Len(SelectSeq(drafts, LAMBDA d : d.kind # "declares" /\ d.src[1] \notin table.excluded))
                 /\ Total(graph.calls) =
                      Len(SelectSeq(drafts, LAMBDA d : d.kind \in CallKinds /\ d.src[1] \notin table.excluded))
        /\ overlay # None =>
             \A d \in {x \in ToSet(drafts) : x.kind \in DOMAIN Enrich!ReferenceClass} :
                 LET answer == IF Enrich!Covers(overlay, d.src[1])
                               THEN Enrich!Reference(overlay, Enrich!ReferenceClass[d.kind], d.src) ELSE None
                     left   == SelectSeq(drafts, LAMBDA x : /\ Enrich!SiteKey(x) = Enrich!SiteKey(d)
                                                            /\ answer = None \/ x.res # "ambiguous" \/ x.to = answer)
                     onEdge(k) == Len(SelectSeq(graph.edges[k].sites, LAMBDA src : src = d.src))
                 IN  graph.mode # "structural" \/ d.kind \notin CallKinds =>
                       FoldSet(LAMBDA k, n : n + onEdge(k), 0,
                               {k \in DOMAIN graph.edges : k[1] = d.from /\ k[3] = d.kind}) = Len(left)

(***************************************************************************)
(* From the text to the graph                                              *)
(***************************************************************************)
RECURSIVE Within(_)
Within(n) == {n} \cup IF n.t = "assembly" THEN {} ELSE UNION {Within(n.kids[i]) : i \in DOMAIN n.kids}

RECURSIVE Leftmost(_)
Leftmost(n) == IF n.kids = <<>> THEN n ELSE Leftmost(n.kids[1])

StateVariable(fn, n) ==
    IF n.t = "identifier" /\ Local(fn, n.text) = <<>> /\ Variable(fn, n.text) # None THEN {Variable(fn, n.text)} ELSE {}

\* What an assignment, a deletion or an increment writes to.
Written(n) ==
    LET target == n.kids[1]
    IN  IF n.t \notin {"assign", "augment", "update", "delete"} THEN {}
        ELSE {x \in IF target.t = "tuple" THEN ToSet(target.kids) ELSE {target} :
                 \A k \in Within(x) : k.t = "call" => Leftmost(k) # Leftmost(x)}

\* What a body says reaches the graph: a call of a function of the contract
\* by its name and with its number of arguments has that function among its
\* targets, a variable that is assigned is written, one that is given to a
\* call is read, whatever surrounds it.  One call is lost: f(x).g() is taken
\* for a cast (treesitter-bodies.ts:618-628, resolve/index.ts:691-710).
WrittenIsFollowed ==
    stage = "done" /\ graph.mode # "structural" /\ overlay = None =>
        \A f \in {x \in DOMAIN graph.marks : Sym(x).body # None} :
            LET fn   == Sym(f)
                all  == Within(fn.body)
                edge(kind, v) == <<f, v, kind, None>> \in DOMAIN graph.edges
                callee(n) == IF n.kids[1].t = "options" THEN n.kids[1].kids[1] ELSE n.kids[1]
                cast(n) == /\ Len(n.kids) = 2
                           /\ \E c \in all : c.t = "call" /\ callee(c).t = "member" /\ callee(c).kids[1] = n
            IN  /\ fn.scope # None => \A n \in {x \in all : x.t = "call" /\ callee(x).t = "identifier" /\ ~cast(x)} :
                       \A m \in ToSet(InChain(fn, callee(n).text, {"function"})) :
                          Len(Sym(m).params) = Len(n.kids) - 1 /\ Local(fn, callee(n).text) = <<>>
                             => m \in Reached(f, <<fn.file, n.at>>)
                /\ \A n \in all : \A x \in Written(n) : \A v \in StateVariable(fn, Leftmost(x)) : edge("writes", v)
                /\ \A n \in {x \in all : x.t = "call"} : \A i \in 2 .. Len(n.kids) :
                       \A v \in StateVariable(fn, n.kids[i]) : edge("reads", v)
=============================================================================
