------------------------------- MODULE Export -------------------------------
(***************************************************************************)
(* The exported page: export/html.ts walks from the opening view to every  *)
(* view a click can ask for and embeds what the budget allows; the page    *)
(* answers the interface from it (webview/src/static.ts, StaticBridge).    *)
(*                                                                         *)
(* Views come from Query and Aggregation, what a click asks for from       *)
(* Navigation.  A size is a number of units: one for the frame of a view   *)
(* and one for each element of it, for a node and for its relations, two   *)
(* for its source.  Requests are those of Navigation with `tests`.         *)
(***************************************************************************)
EXTENDS Query, Integers, Sequences, SequencesExt

CONSTANTS Graphs,       \* the graphs exported
          Parent,       \* of every directory, None for a root
          Budgets,      \* the sizes a page may have
          Openings,     \* the views `--view` asks for, as [view, focus]
          Hops,         \* hop counts of the export and of the toolbar
          DefaultHops,  \* callDefaults()
          Caps,         \* choices for DEFAULT_RENDER_CAP
          MaxClicks     \* bound on what the reader does

Dirs == DOMAIN Parent

\* graphology's graphs and the directories of a project are finite; views.ts
\* names the views; hop counts, budget and cap are whole numbers.
ASSUME ExportAssumption ==
    /\ IsFiniteSet(Dirs)
    /\ \A g \in Graphs : /\ IsFiniteSet(Nodes(g)) /\ IsFiniteSet(g.edge)
                          /\ \A n \in Nodes(g) : g.node[n].dir \in Dirs
    /\ \A o \in Openings : o.view \in {"protocol", "contract", "call", "state-access", "inheritance"}
    /\ Hops \subseteq Nat /\ Budgets \subseteq Nat /\ Caps \subseteq Nat
    /\ None \notin Int

VARIABLES
    graph,
    hops,         \* meta.callDefaults of this page
    opening,      \* the initial request
    budget,
    cap,          \* the render cap
    phase,        \* "quota", "drain", "count", "inspect", "source", "written",
                  \* "read" or "aborted"
    turn,         \* the kind of the round whose turn it is
    progressed,   \* progressed, and draining: somebody had something this round
    queues,       \* [Kinds -> sequence of requests]
    seen,         \* keys of the requests ever queued
    views,        \* the views embedded, as [request, view]
    nodeTable,    \* nodes of the views, stored once
    spent, used,  \* sizes by kind and together
    closed,       \* kinds that take no more turns
    viewsOmitted,
    ids,          \* nodes still to be inspected, or to be sliced
    inspections, sources,
    truncated,    \* sourceTruncated
    nav,          \* the reader's navigation state
    held,         \* the entry of `views` the page answered with last, or 0
    refusal,      \* the request refused last, and by what gesture, or None
    panel,        \* what the inspector was answered, or None
    clicks

options == <<graph, hops, opening, budget, cap>>
rounds  == <<phase, turn, progressed>>
growing == <<queues, seen, views, nodeTable, spent, used, closed, viewsOmitted>>
details == <<ids, inspections, sources, truncated>>
reader  == <<nav, held, refusal, panel, clicks>>
vars    == <<options, rounds, growing, details, reader>>

\* Aggregation for its operators alone.
Agg == INSTANCE Aggregation
    WITH Requests <- {}, asked <- None, lead <- "calls", open <- {}, queue <- {}, pc <- "idle", before <- None

Inside == {p \in Dirs \X Dirs : p[1] # p[2] /\ p[2] \in Agg!Above[p[1]]}

Nav == INSTANCE Navigation WITH Ids <- Nodes(graph), Paths <- Dirs, DefaultHops <- hops

(***************************************************************************)
(* Sizes.  Shares are fractions of the view budget, as whole numbers.      *)
(***************************************************************************)
Unit == 1000
Kinds == <<"map", "contract", "call">>
Quota == [map |-> 15, contract |-> 35, call |-> 50]
ViewBudget == (budget * Unit * 4) \div 10
Allowance(kind) == (ViewBudget * Quota[kind]) \div 100

\* quotaKind.
QuotaKind(req) == IF req.view \in {"contract", "call"} THEN req.view ELSE "map"

(***************************************************************************)
(* selectAggregatedView, as Aggregation does it: what was asked to be open *)
(* and then, unless the reader has taken over, one more directory at a     *)
(* time while the result fits.                                             *)
(***************************************************************************)
Fits(sel, opened) == Agg!Elements(Agg!Layout(sel, opened)) <= cap

TryOpen(sel, s, path) ==
    IF Fits(sel, s.open \cup {path})
    THEN [open |-> s.open \cup {path}, queue |-> (s.queue \ {path}) \cup Agg!Children(sel, path)]
    ELSE [s EXCEPT !.queue = @ \ {path}]

Shallowest(queue) == CHOOSE p \in queue : \A q \in queue : Agg!Depth(p) <= Agg!Depth(q)

AutoOpen(sel, first) ==
    LET run[i \in 0 .. Cardinality(Dirs)] ==
            IF i = 0 THEN [open |-> first, queue |-> Agg!Layout(sel, first).collapsed]
            ELSE IF run[i - 1].queue = {} THEN run[i - 1]
            ELSE TryOpen(sel, run[i - 1], Shallowest(run[i - 1].queue))
    IN  run[Cardinality(Dirs)].open

Opened(sel, req, first) == IF req.auto THEN AutoOpen(sel, first) ELSE first

Drawing(sel, req) ==
    IF req.view # "protocol" THEN Agg!Flat(sel)
    ELSE Agg!Layout(sel, Opened(sel, req, Agg!Closure(ToSet(req.expand))))

\* dehydrateView: what is drawn, by the ids of its nodes.
DehydrateView(d) ==
    [nodes |-> d.nodes, shut |-> d.collapsed, open |-> d.dirs \ d.collapsed,
     error |-> FALSE, refused |-> Agg!Elements(d) > cap, size |-> Unit * (1 + Agg!Elements(d))]

NoView == [nodes |-> {}, shut |-> {}, open |-> {}, error |-> TRUE, refused |-> FALSE, size |-> 0]

Answered(sel, req) == IF sel.error THEN NoView ELSE DehydrateView(Drawing(sel, req))
SelectAggregatedView(req) == Answered(SelectView(graph, req, "calls"), req)

(***************************************************************************)
(* nextRequests: what a click in a view asks for.                          *)
(***************************************************************************)
Ask(view, focus, n) ==
    [view |-> view, focus |-> focus, hops |-> n, expand |-> <<>>, auto |-> TRUE, tests |-> FALSE]

NextRequestsDefault(req, view) ==
       {[req EXCEPT !.expand = Append(@, d)] : d \in view.shut}
    \cup {Ask("contract", c, None) : c \in view.nodes \cap OfKind(graph, "Contract")}
    \cup {Ask("call", f, DefaultHops) : f \in view.nodes \cap OfKind(graph, "Function")}

NextRequests(req, view) ==
       {[req EXCEPT !.expand = Append(@, d)] : d \in view.shut}
    \cup {Ask("contract", c, None) : c \in view.nodes \cap OfKind(graph, "Contract")}
    \cup {Ask("call", f, hops) : f \in view.nodes \cap OfKind(graph, "Function")}

RequestKey(req) == [req EXCEPT !.expand = ToSet(@)]

\* A node that an earlier view stored costs nothing.
CostTwice(view) == view.size + Unit * Cardinality(view.nodes)
Cost(view) == view.size + Unit * Cardinality(view.nodes \ nodeTable)

(***************************************************************************)
(* embed                                                                   *)
(***************************************************************************)
Status(view, limit) ==
    CASE view.error   -> "aborted"
      [] view.refused -> "refused"
      [] limit # None /\ Cost(view) > limit -> "over"
      [] OTHER        -> "embedded"

\* The new requests wait behind those queued, in some order of the view.
InOrder(set) == SetToSeq(set)

Queued(rest, fresh) ==
    [k \in DOMAIN rest |-> rest[k] \o InOrder({r \in fresh : QuotaKind(r) = k})]

Embed(kind, view) ==
    LET req   == Head(queues[kind])
        fresh == {r \in NextRequests(req, view) : RequestKey(r) \notin seen}
    IN  /\ views' = Append(views, [request |-> req, view |-> view])
        /\ nodeTable' = nodeTable \cup view.nodes
        /\ used' = used + Cost(view)
        /\ spent' = IF phase = "quota" THEN [spent EXCEPT ![kind] = @ + Cost(view)] ELSE spent
        /\ seen' = seen \cup {RequestKey(r) : r \in fresh}
        /\ queues' = Queued([queues EXCEPT ![kind] = Tail(@)], fresh)
        /\ UNCHANGED <<closed, viewsOmitted>>

\* The cap is refused by the page as well, and counted.
Omit(kind) ==
    /\ queues' = [queues EXCEPT ![kind] = Tail(@)]
    /\ viewsOmitted' = viewsOmitted + 1
    /\ UNCHANGED <<seen, views, nodeTable, spent, used, closed>>

Drop(kind) ==
    /\ closed' = closed \cup {kind}
    /\ queues' = [queues EXCEPT ![kind] = IF @ = <<>> THEN @ ELSE Tail(@)]
    /\ UNCHANGED <<seen, views, nodeTable, spent, used, viewsOmitted>>

\* What did not fit goes back to the head of its queue.
Close(kind) ==
    /\ closed' = closed \cup {kind}
    /\ UNCHANGED <<queues, seen, views, nodeTable, spent, used, viewsOmitted>>

Kind == Kinds[turn]
Waiting == queues[Kind] # <<>>

\* Whose turn is next; a round is over after the last kind.
Advance(progress, another, next) ==
    LET went == progressed \/ progress IN
    /\ turn' = IF turn = Len(Kinds) THEN 1 ELSE turn + 1
    /\ progressed' = IF turn = Len(Kinds) THEN FALSE ELSE went
    /\ phase' = IF turn = Len(Kinds) /\ ~(another /\ went) THEN next ELSE phase

(***************************************************************************)
(* buildPayload                                                            *)
(***************************************************************************)
Init ==
    /\ graph \in Graphs
    /\ hops \in Hops
    /\ budget \in Budgets
    /\ cap \in Caps
    /\ \E o \in Openings, tests \in BOOLEAN :
          opening = [Ask(o.view, o.focus, IF o.view = "call" THEN hops ELSE None) EXCEPT !.tests = tests]
    /\ phase = "quota" /\ turn = 1 /\ progressed = FALSE
    /\ queues = [k \in ToSet(Kinds) |-> IF k = QuotaKind(opening) THEN <<opening>> ELSE <<>>]
    /\ seen = {RequestKey(opening)}
    /\ views = <<>> /\ nodeTable = {}
    /\ spent = [k \in ToSet(Kinds) |-> 0] /\ used = 0
    /\ closed = {} /\ viewsOmitted = 0
    /\ ids = {} /\ inspections = {} /\ sources = {} /\ truncated = FALSE
    /\ nav = Nav!InitialNav
    /\ held = 0 /\ refusal = None /\ panel = None /\ clicks = 0

\* The first view is embedded whatever it costs.
QuotaCap == IF views = <<>> THEN None ELSE Allowance(Kind) - spent[Kind]

\* Only the cap is an answer: another refusal of the engine ends the export.
Abort == phase' = "aborted" /\ UNCHANGED <<turn, progressed, growing>>

QuotaTurn ==
    /\ phase = "quota" /\ Kind \notin closed /\ Waiting
    /\ \E view \in {SelectAggregatedView(Head(queues[Kind]))} :
          LET status == Status(view, QuotaCap) IN
          \/ status = "embedded" /\ Embed(Kind, view) /\ Advance(TRUE, TRUE, "drain")
          \/ status = "refused" /\ Omit(Kind) /\ Advance(TRUE, TRUE, "drain")
          \/ status = "over" /\ Close(Kind) /\ Advance(TRUE, closed' # ToSet(Kinds), "drain")
          \/ status = "aborted" /\ Abort
    /\ UNCHANGED <<options, details, reader>>

\* An empty queue closes its kind, though another view may fill it again.
QuotaIdle ==
    /\ phase = "quota"
    /\ Kind \in closed \/ ~Waiting
    /\ Close(Kind)
    /\ Advance(FALSE, closed' # ToSet(Kinds), "drain")
    /\ UNCHANGED <<options, details, reader>>

\* What no kind claimed, round-robin, while there is any of it.
Remaining == ViewBudget - used
Drained == turn = 1 /\ Remaining <= 0

DrainTurn ==
    /\ phase = "drain" /\ ~Drained /\ Waiting
    /\ \E view \in {SelectAggregatedView(Head(queues[Kind]))} :
          LET status == Status(view, Remaining) IN
          \/ status = "embedded" /\ Embed(Kind, view) /\ Advance(TRUE, TRUE, "count")
          \/ status = "refused" /\ Omit(Kind) /\ Advance(TRUE, TRUE, "count")
          \/ status = "over" /\ UNCHANGED growing /\ Advance(FALSE, TRUE, "count")
          \/ status = "aborted" /\ Abort
    /\ UNCHANGED <<options, details, reader>>

DrainIdle ==
    /\ phase = "drain" /\ ~Drained /\ ~Waiting
    /\ Advance(FALSE, TRUE, "count")
    /\ UNCHANGED <<options, growing, details, reader>>

DrainEnds ==
    /\ phase = "drain" /\ Drained
    /\ phase' = "count"
    /\ UNCHANGED <<options, turn, progressed, growing, details, reader>>

\* Everything still queued is omitted.
DrawnNodes == UNION {v.view.nodes : v \in ToSet(views)}

StillQueued == Len(queues["map"]) + Len(queues["contract"]) + Len(queues["call"])

CountOmitted ==
    /\ phase = "count"
    /\ phase' = "inspect"
    /\ viewsOmitted' = viewsOmitted + StillQueued
    /\ ids' = DrawnNodes
    /\ UNCHANGED <<options, turn, progressed, queues, seen, views, nodeTable, spent, used, closed,
                   inspections, sources, truncated, reader>>

\* Then what was drawn is inspected, and sliced, in the order of the ids.
NextId == CHOOSE id \in ids : TRUE

InspectNext ==
    /\ phase = "inspect"
    /\ IF ids = {} \/ used * 10 > budget * Unit * 7
         THEN phase' = "source" /\ ids' = DrawnNodes /\ UNCHANGED <<inspections, used>>
         ELSE /\ ids' = ids \ {NextId}
              /\ inspections' = inspections \cup {NextId}
              /\ used' = used + Unit
              /\ UNCHANGED phase
    /\ UNCHANGED <<options, turn, progressed, queues, seen, views, nodeTable, spent, closed,
                   viewsOmitted, sources, truncated, reader>>

\* A placeholder has no source.
SliceNext ==
    /\ phase = "source"
    /\ IF ids = {} \/ used > budget * Unit
         THEN phase' = "written" /\ truncated' = (ids # {}) /\ UNCHANGED <<ids, sources, used>>
         ELSE LET sliced == graph.node[NextId].kind # "Unresolved" IN
              /\ ids' = ids \ {NextId}
              /\ sources' = IF sliced THEN sources \cup {NextId} ELSE sources
              /\ used' = IF sliced THEN used + 2 * Unit ELSE used
              /\ UNCHANGED <<phase, truncated>>
    /\ UNCHANGED <<options, turn, progressed, queues, seen, views, nodeTable, spent, closed,
                   viewsOmitted, inspections, reader>>

(***************************************************************************)
(* The reader, before the page: App's requests answered by StaticBridge.   *)
(***************************************************************************)
SameViewRequest(a, b) == RequestKey(a) = RequestKey(b)
ToRequest(n) ==
    LET r == Nav!ToRequest(n)
    IN  [view |-> r.view, focus |-> r.focus, hops |-> r.hops, expand |-> r.expand, auto |-> r.auto,
         tests |-> FALSE]

\* view: the first entry for the request, if its nodes are carried.
StaticView(req) ==
    LET found == SelectInSeq(views, LAMBDA v : SameViewRequest(v.request, req))
    IN  IF found # 0 /\ views[found].view.nodes \subseteq nodeTable THEN found ELSE 0

\* A refused view leaves the last one held, and nothing drawn when it is for
\* another tab.
Answer(req, by) ==
    IF StaticView(req) # 0 THEN held' = StaticView(req) /\ refusal' = None
    ELSE refusal' = [request |-> req, by |-> by] /\ UNCHANGED held

\* A gesture asks when it changes what is to be shown.
Show(n, by) ==
    /\ nav' = n
    /\ IF Nav!Ready(n) /\ ToRequest(n) # ToRequest(nav) THEN Answer(ToRequest(n), by)
       ELSE UNCHANGED <<held, refusal>>

OnScreen == IF held # 0 /\ views[held].request.view = nav.view THEN views[held].view
            ELSE NoView

OpenPage ==
    /\ phase = "written"
    /\ phase' = "read"
    /\ Answer(ToRequest(nav), "opening")
    /\ UNCHANGED <<options, turn, progressed, growing, details, nav, panel, clicks>>

Click ==
    /\ phase = "read" /\ clicks < MaxClicks
    /\ clicks' = clicks + 1
    /\ UNCHANGED <<options, rounds, growing, details>>

PickNode(id) ==
    /\ Click
    /\ id \in OnScreen.nodes
    /\ Show(Nav!PickNode(nav, graph.node[id].kind, id), "node")
    /\ UNCHANGED panel

PickDirectory(path) ==
    /\ Click
    /\ path \in OnScreen.open \cup OnScreen.shut
    /\ Show(Nav!PickCluster(nav, path, path \in OnScreen.open, InOrder(OnScreen.open)), "directory")
    /\ UNCHANGED panel

ChooseView(view) ==
    /\ Click
    /\ Nav!TabEnabled(nav, view, FALSE, FALSE)
    /\ Show(Nav!OnView(nav, view), "tab")
    /\ UNCHANGED panel

\* search offers what inspect can then show, and a row is picked.
Find(id) ==
    /\ Click
    /\ id \in inspections \cap nodeTable
    /\ panel' = [id |-> id, source |-> id \in sources, truncated |-> truncated]
    /\ Show(Nav!PickNode(nav, graph.node[id].kind, id), "node")

\* inspect and source of a node that is selected.
Inspect(id) ==
    /\ Click
    /\ id \in OnScreen.nodes
    /\ panel' = IF id \in inspections \cap nodeTable
                THEN [id |-> id, source |-> id \in sources, truncated |-> truncated] ELSE None
    /\ UNCHANGED <<nav, held, refusal>>

Exporting == \/ QuotaTurn \/ QuotaIdle \/ DrainTurn \/ DrainIdle \/ DrainEnds
             \/ CountOmitted \/ InspectNext \/ SliceNext

Reading == \/ OpenPage
           \/ \E id \in Nodes(graph) : PickNode(id) \/ Find(id) \/ Inspect(id)
           \/ \E path \in Dirs : PickDirectory(path)
           \/ \E view \in {"protocol", "contract", "call"} : ChooseView(view)

Next == Exporting \/ Reading

Spec == Init /\ [][Next]_vars

(***************************************************************************)
(* Properties                                                              *)
(***************************************************************************)
\* A node drawn in the page opens: whatever path of clicks led to it, its
\* contract or call view is in the file, spelled as the interface spells it,
\* unless the file says that views are missing (html.ts:172 "A view the UI
\* can reach and the exporter did not embed is a dead click").
NodeClicksAreAnswered ==
    refusal # None /\ refusal.by = "node" => viewsOmitted > 0

\* What the file says is missing is what is missing: of the views one click
\* from those it holds, each one is embedded once or counted once, through
\* the rounds, the requests put back and the kinds that closed early.
OmittedIsWhatIsMissing ==
    phase \in {"inspect", "source", "written", "read"} =>
        LET next == UNION {{RequestKey(r) : r \in NextRequests(v.request, v.view)} : v \in ToSet(views)}
            here == {RequestKey(v.request) : v \in ToSet(views)}
        IN  /\ Cardinality(here) = Len(views)
            /\ viewsOmitted = Cardinality((next \cup {RequestKey(opening)}) \ here)

Sizes(entries) ==
    LET upTo[i \in 0 .. Len(entries)] == IF i = 0 THEN 0 ELSE upTo[i - 1] + entries[i].view.size
    IN  upTo[Len(entries)]

FirstCost ==
    IF views = <<>> THEN 0 ELSE views[1].view.size + Unit * Cardinality(views[1].view.nodes)

\* `bytes` is the size of what the file carries, and it is kept: beyond the
\* opening view the views stay within their share, and everything within the
\* budget but for the one inspection or slice that crossed it.
BytesAreWhatIsCarried ==
    phase \in {"inspect", "source", "written", "read"} =>
        LET drawn == Sizes(views) + Unit * Cardinality(nodeTable)
            first == FirstCost
        IN  /\ used = drawn + Unit * Cardinality(inspections) + 2 * Unit * Cardinality(sources)
            /\ drawn <= ViewBudget + first
            /\ used <= budget * Unit + first + 2 * Unit
=============================================================================
