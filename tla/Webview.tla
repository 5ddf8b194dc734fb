------------------------------ MODULE Webview -------------------------------
(***************************************************************************)
(* The webview user interface: App.tsx (state, request effects, gestures)  *)
(* with GraphCanvas.tsx (drawing, layout, the memory of arrangements) and  *)
(* layout/client.ts, against a host that answers requests in any order.    *)
(*                                                                         *)
(* A gesture or an answer sets state; the next Commit renders it and runs  *)
(* the effects whose dependencies changed, as React does.  Several changes *)
(* may share one Commit, and an answer may arrive before the Commit that   *)
(* would have cancelled it; only what a click or a key does is committed   *)
(* before anything else happens.  Gestures see the screen of the last      *)
(* Commit while reducers see the latest state.                             *)
(*                                                                         *)
(* Left out: wording (hints, notes), the trait filter, and the gestures    *)
(* that move, lock, zoom or reset what is drawn.                           *)
(***************************************************************************)
EXTENDS Navigation, FiniteSets

CONSTANTS Files,         \* what is asked once for each graph: "meta", "audit"
          Details,       \* what the inspector asks of a node: "inspect", "source"
          Kind,          \* [Ids -> the node kinds]
          Calls,         \* the functions with a call edge
          DrawnFor(_),   \* the ids a request is answered with, directories included
          Order,         \* the directories, sorted
          AutoOpened,    \* those the engine opens while it is left to choose
          Tabs,          \* the tabs of the toolbar that are tried
          Structural,    \* BOOLEAN: the project's mode withholds the call graph
          MaxEvents, MaxRefreshes, MaxThemes  \* bounds

ASSUME WebviewAssumption ==
    /\ Files \subseteq {"meta", "audit"}
    /\ Details \subseteq {"inspect", "source"}
    /\ None \notin Nat /\ None \notin {"view", "meta"}
    /\ Kind \in [Ids -> {"Contract", "Function", "Event"}]
    /\ Calls \subseteq Ids
    /\ Order \in Seq(Paths) /\ Range(Order) = Paths
    /\ AutoOpened \subseteq Paths
    /\ \A dirs \in SUBSET Paths : None \notin {dirs, Without(Order, dirs)}
    /\ Tabs \subseteq Views
    /\ Structural \in BOOLEAN
    /\ {MaxEvents, MaxRefreshes, MaxThemes} \subseteq Nat

Channels == Files \cup {"view"} \cup Details
Loading  == {"view"} \cup Details     \* the channels with a busy flag

VARIABLES
    graph,        \* the host's graph, as a version
    unseen,       \* refresh messages posted and not received
    nav,          \* the reducer's state
    generation,   \* the `at` of the last refresh received
    selected,     \* the inspector's node
    hopsApplied,  \* the `applied` ref: the host's hop defaults were taken
    held,         \* [Channels -> the last answer taken, or None]
    error,        \* what setError holds: the request that failed, or NoError
    busy,         \* [Channels -> BOOLEAN]: busy, inspecting, slicing
    asked,        \* [Channels -> the dependencies of the effect's last run]
    flight,       \* [Channels -> sequence of requests not yet answered]
    screen,       \* what the last Commit rendered, closed over by the gestures
    theme,        \* the palette, replaced when the host changes its theme
    canvas,       \* the canvas's current effect run and what it remembers
    layouts,      \* the graphs laid out in the worker for a run that is not over
    wanted,       \* history: the directories the clicks ask for, or None
    flush,        \* a click or a key was handled and is about to be committed
    events        \* gestures, messages, refreshes, themes and failures so far

vars == <<graph, unseen, nav, generation, selected, hopsApplied, held, error, busy, asked,
          flight, screen, theme, canvas, layouts, wanted, flush, events>>

NoError == [channel |-> None, what |-> None]

\* The dependencies of an effect that has not run.
NeverRun == [what |-> None, at |-> None]

requesting == <<held, error, busy, asked, flight>>
drawing    == <<screen, canvas, layouts>>

\* Everything that disturbs the interface is counted against one bound.
Counted == events < MaxEvents /\ events' = events + 1

-----------------------------------------------------------------------------
(* The request effects *)

\* The dependency list of each effect.
Deps(c) ==
    CASE c = "view"            -> [what |-> ToRequest(nav), at |-> generation]
      [] c \in Files           -> [what |-> None, at |-> generation]
      [] OTHER                 -> [what |-> selected, at |-> generation]

Stale(c) == asked[c] # Deps(c)

\* Whether an effect that runs asks anything.
Asks(c) ==
    CASE c = "view"    -> Ready(nav)
      [] c \in Details -> selected # None
      [] OTHER         -> TRUE

\* A new run cancels what the last one is waiting for: an answer that finds
\* `cancelled` set does nothing, so the request is not followed any further.
AllFollowed(requests) == requests
NotCancelled(requests) == <<>>

\* `version` is the graph the host answers with, once it has; which version of
\* the project's files is answered makes no difference to anything below.
Request(c) == [what |-> Deps(c).what, version |-> IF c \in Files THEN 0 ELSE None]

\* The effects whose dependencies changed.  A node that is deselected clears
\* what was known of it and leaves the busy flag as it is.
RunEffects ==
    /\ asked'  = [c \in Channels |-> Deps(c)]
    /\ flight' = [c \in Channels |->
                    IF ~Stale(c) THEN flight[c]
                    ELSE NotCancelled(flight[c]) \o (IF Asks(c) THEN <<Request(c)>> ELSE <<>>)]
    /\ busy'   = [c \in Channels |->
                    IF ~Stale(c) \/ (c \in Details /\ ~Asks(c)) THEN busy[c]
                    ELSE Asks(c) /\ c \in Loading]
    /\ held'   = [c \in Channels |->
                    IF Stale(c) /\ c \in Details /\ ~Asks(c) THEN None ELSE held[c]]

\* The host answers with the graph it has at that moment.
HostAnswers(c, i) ==
    /\ flight[c][i].version = None
    /\ flight' = [flight EXCEPT ![c][i].version = graph]
    /\ UNCHANGED <<graph, unseen, nav, generation, selected, hopsApplied, held, error, busy,
                   asked, theme, wanted, flush, events, drawing>>

\* Directories with those around each.
Surrounded(open) == open \cup {p \in Paths : \E q \in open : <<q, p>> \in Inside}

\* The directories the engine has open in its answer, sorted: those asked for
\* and those around them, with its own choice where it is left one.
Opened(req) ==
    IF req.view \notin Clustered THEN {}
    ELSE Surrounded(Range(req.expand)) \cup (IF req.auto THEN AutoOpened ELSE {})

OpenFor(req) == Without(Order, Paths \ Opened(req))

Answer(c, r) ==
    IF c = "view" THEN [req |-> r.what, version |-> r.version,
                        nodes |-> DrawnFor(r.what), open |-> OpenFor(r.what)]
                  ELSE [what |-> r.what, version |-> r.version]

\* `.then`: the state the effect sets.  The first meta also sets the hops.
Arrives(c, i) ==
    LET r == flight[c][i]
    IN  /\ r.version # None
        /\ flight' = [flight EXCEPT ![c] = RemoveAt(@, i)]
        /\ held' = [held EXCEPT ![c] = Answer(c, r)]
        /\ busy' = [busy EXCEPT ![c] = FALSE]
        /\ error' = IF c = "view" THEN NoError ELSE error
        /\ hopsApplied' = (hopsApplied \/ c = "meta")
        /\ nav' = IF c = "meta" /\ ~hopsApplied THEN OnHops(nav, DefaultHops) ELSE nav
        /\ UNCHANGED <<graph, unseen, generation, selected, asked, theme, wanted, flush, events, drawing>>

\* `.catch`: the host refused the request, or could not be reached.  A view
\* that fails stays on screen under the error; the other answers are dropped,
\* except the project's meta.
Fails(c, i) ==
    /\ Counted
    /\ flight[c][i].version = None
    /\ flight' = [flight EXCEPT ![c] = RemoveAt(@, i)]
    /\ held' = IF c \in {"audit"} \cup Details THEN [held EXCEPT ![c] = None] ELSE held
    /\ busy' = [busy EXCEPT ![c] = FALSE]
    /\ error' = IF c \in {"meta", "view"} THEN [channel |-> c, what |-> flight[c][i].what] ELSE error
    /\ UNCHANGED <<graph, unseen, nav, generation, selected, hopsApplied, asked, theme,
                   wanted, flush, drawing>>

\* The artifact watch: the host has another graph and says so; Date.now() of
\* its receipt is the generation (two receipts are never in one millisecond).
HostRefreshes ==
    /\ Counted
    /\ graph < MaxRefreshes
    /\ graph' = graph + 1
    /\ unseen' = unseen + 1
    /\ UNCHANGED <<nav, generation, selected, hopsApplied, theme, wanted, flush, requesting, drawing>>

OnRefresh ==
    /\ unseen > 0
    /\ unseen' = unseen - 1
    /\ generation' = generation + 1
    /\ UNCHANGED <<graph, nav, selected, hopsApplied, theme, wanted, flush, events, requesting, drawing>>

ThemeChanges ==
    /\ Counted
    /\ theme < MaxThemes
    /\ theme' = theme + 1
    /\ UNCHANGED <<graph, unseen, nav, generation, selected, hopsApplied, wanted, flush, requesting, drawing>>

-----------------------------------------------------------------------------
(* The canvas *)

\* The elements memo: the answer held, unless it is for another view than the
\* toolbar is on.
Elements == IF held["view"] = None \/ held["view"].req.view # nav.view THEN None ELSE held["view"]

NodesOf(elements) == IF elements = None THEN {} ELSE elements.nodes

\* The cleanup of an effect run: what is drawn is remembered under the key it
\* was drawn with, unless there is nothing or it was never laid out.
Remembering ==
    IF ~canvas.arranged \/ NodesOf(canvas.elements) = {} THEN canvas.memory
    ELSE [k \in DOMAIN canvas.memory \cup {canvas.key} |->
            IF k = canvas.key
            THEN [nodes |-> canvas.elements.nodes, at |-> canvas.at]
            ELSE canvas.memory[k]]

\* `abandoned`, and the client's "superseded": a layout asked for by an earlier
\* run is dropped when it returns, so it is not followed any further.
NotAbandoned(runs) == <<>>

\* A graph is held out of sight until its layout; an empty canvas is not.
HiddenAtFirst(elements) == TRUE
Hidden(elements) == NodesOf(elements) # {}

\* The drawing effect: nodes in a grid, hidden, and a layout asked for; or an
\* empty canvas, which has nothing to wait for.
Draw ==
    LET fresh == [elements |-> Elements, key |-> ToRequest(nav), theme |-> theme]
        same  == [elements |-> canvas.elements, key |-> canvas.key, theme |-> canvas.theme]
    IN  IF fresh = same THEN UNCHANGED <<canvas, layouts>>
        ELSE /\ canvas' = [elements |-> fresh.elements, key |-> fresh.key, theme |-> theme,
                           at |-> "grid", arranged |-> FALSE,
                           hidden |-> Hidden(fresh.elements),
                           memory |-> Remembering]
             /\ layouts' = NotAbandoned(layouts)
                             \o (IF NodesOf(fresh.elements) = {} THEN <<>> ELSE <<fresh.elements>>)

Complete(key) ==
    key \in DOMAIN canvas.memory /\ canvas.elements.nodes \subseteq canvas.memory[key].nodes

\* Positions return: the remembered arrangement when it covers every node,
\* else the ones just computed.
LaidOut(i) ==
    /\ layouts' = RemoveAt(layouts, i)
    /\ canvas' = [canvas EXCEPT !.at = IF Complete(canvas.key) THEN canvas.memory[canvas.key].at
                                                                ELSE "elk",
                                 !.arranged = TRUE,
                                 !.hidden = FALSE]
    /\ UNCHANGED <<graph, unseen, nav, generation, selected, hopsApplied, requesting, screen,
                   theme, wanted, flush, events>>

\* The engine fails: the grid is shown, with the reason.
LayoutFails(i) ==
    /\ Counted
    /\ layouts' = RemoveAt(layouts, i)
    /\ canvas' = [canvas EXCEPT !.hidden = FALSE]
    /\ UNCHANGED <<graph, unseen, nav, generation, selected, hopsApplied, held, error, busy, asked,
                   flight, screen, theme, wanted, flush>>

\* A render, and the effects it makes due.
Rendered == [elements |-> Elements, nav |-> nav, busy |-> busy["view"],
             open |-> IF held["view"] = None THEN None ELSE held["view"].open]

Due == (\E c \in Channels : Stale(c)) \/ screen # Rendered \/ canvas.theme # theme

Commit ==
    /\ Due \/ flush
    /\ RunEffects
    /\ Draw
    /\ screen' = Rendered
    /\ flush' = FALSE
    /\ UNCHANGED <<graph, unseen, nav, generation, selected, hopsApplied, error, theme, wanted,
                   events>>

-----------------------------------------------------------------------------
(* The gestures *)

\* What every gesture, and every message of the editor, leaves alone.  A
\* gesture is flushed; a message waits for the next Commit.
Handled == Counted /\ UNCHANGED <<graph, unseen, generation, hopsApplied, theme, requesting, drawing>>

Gesture == Handled /\ flush' = TRUE
Message == Handled /\ UNCHANGED flush

\* What can be clicked: the nodes drawn, once they are shown.
Clickable == IF canvas.hidden THEN {} ELSE NodesOf(screen.elements)

\* The directories the clicks ask for: a click on a closed one asks for it, a
\* click on an open one withdraws it with those inside it.
Toggled(open, path, expanded) ==
    IF expanded THEN open \ ({path} \cup {p \in Paths : <<p, path>> \in Inside})
                ELSE open \cup {path}

\* Where the reducer takes the expansion back to the engine, it is wanted no
\* longer.
Forget(next) == IF next.auto THEN None ELSE wanted

ClickDirectory(path) ==
    LET expanded == path \in Range(screen.elements.open)
    IN  /\ Gesture
        /\ path \in Paths \cap Clickable
        /\ nav' = PickCluster(nav, path, expanded, screen.open)
        /\ wanted' = Toggled(IF wanted = None THEN Range(screen.elements.open) ELSE wanted, path, expanded)
        /\ UNCHANGED selected

\* A contract is focused, a function without call edges is only selected, and
\* any other node opens the view that is about it.
ClickNode(id) ==
    /\ Gesture
    /\ id \in Ids \cap Clickable
    /\ selected' = id
    /\ nav' = CASE Kind[id] = "Contract" -> OnFocus(nav, id)
                [] Kind[id] = "Function" /\ id \notin Calls -> nav
                [] OTHER -> PickNode(nav, Kind[id], id)
    /\ wanted' = Forget(nav')

DoubleClick(id) ==
    /\ Gesture
    /\ id \in Ids \cap Clickable
    /\ nav' = PickNode(nav, Kind[id], id)
    /\ wanted' = Forget(nav')
    /\ UNCHANGED selected

\* The editor's focus command: any node.  The search palette's row does the
\* same and is flushed, which is one of the ways this can go on.
GoTo(id) ==
    /\ Message
    /\ selected' = id
    /\ nav' = PickNode(nav, Kind[id], id)
    /\ wanted' = Forget(nav')

\* The inspector's focus chip: the node inside its contract.
ShowInContract(id) ==
    /\ Gesture
    /\ selected # None
    /\ selected' = id
    /\ nav' = Open(nav, "contract", id)
    /\ wanted' = Forget(nav')

\* The editor's cursor; and, flushed, an inspector relation or its closing.
Select(id) ==
    /\ IF id = None THEN Gesture ELSE Message
    /\ selected' = id
    /\ UNCHANGED <<nav, wanted>>

\* The toolbar: its controls are enabled by what was last rendered.
ChooseView(view) ==
    /\ Gesture
    /\ TabEnabled(screen.nav, view, Structural /\ held["meta"] # None, screen.busy)
    /\ nav' = OnView(nav, view)
    /\ wanted' = Forget(nav')
    /\ UNCHANGED selected

ClearFocus ==
    /\ Gesture
    /\ screen.nav.focus # None
    /\ selected' = None
    /\ nav' = OnFocus(nav, None)
    /\ wanted' = Forget(nav')

StepHops(hops) ==
    /\ Gesture
    /\ screen.nav.view = "call"
    /\ nav' = OnHops(nav, hops)
    /\ UNCHANGED <<selected, wanted>>

-----------------------------------------------------------------------------
NoScreen == [elements |-> None, nav |-> InitialNav, busy |-> TRUE, open |-> None]

\* Nothing is rendered yet: the first Commit runs every effect.
Init ==
    /\ graph = 0 /\ unseen = 0 /\ generation = 0 /\ theme = 0
    /\ nav = InitialNav
    /\ selected = None
    /\ hopsApplied = FALSE
    /\ held = [c \in Channels |-> None]
    /\ error = NoError
    /\ busy = [c \in Channels |-> c = "view"]
    /\ asked = [c \in Channels |-> NeverRun]
    /\ flight = [c \in Channels |-> <<>>]
    /\ screen = NoScreen
    /\ canvas = [elements |-> None, key |-> None, theme |-> 0, at |-> "grid",
                 arranged |-> FALSE, hidden |-> FALSE, memory |-> <<>>]
    /\ layouts = <<>>
    /\ wanted = None
    /\ events = 0 /\ flush = FALSE

Transport(c) ==
    \E i \in 1 .. Len(flight[c]) : HostAnswers(c, i) \/ Arrives(c, i)

Step ==
    \/ HostRefreshes \/ OnRefresh \/ ThemeChanges
    \/ \E c \in Channels : Transport(c) \/ \E i \in 1 .. Len(flight[c]) : Fails(c, i)
    \/ \E i \in 1 .. Len(layouts) : LaidOut(i) \/ LayoutFails(i)
    \/ \E path \in Paths : ClickDirectory(path)
    \/ \E id \in Ids : ClickNode(id) \/ DoubleClick(id) \/ GoTo(id) \/ ShowInContract(id)
    \/ \E id \in Ids \cup {None} : Select(id)
    \/ \E view \in Tabs : ChooseView(view)
    \/ ClearFocus
    \/ \E hops \in Hops : StepHops(hops)

Next == Commit \/ (~flush /\ Step)

\* React commits, the host answers (or the bridge gives up on it), messages
\* are delivered, and the worker lays out what it is given.
Fairness ==
    /\ WF_vars(Commit) /\ WF_vars(OnRefresh)
    /\ \A c \in Channels : WF_vars(Transport(c))
    /\ WF_vars(\E i \in 1 .. Len(layouts) : LaidOut(i))

Spec == Init /\ [][Next]_vars /\ Fairness
-----------------------------------------------------------------------------
(* Properties *)

Waiting(c) == Stale(c) \/ flight[c] # <<>>

\* No event is under way that could change what the user looks at.
Settled == unseen = 0 /\ ~flush /\ ~Due

\* Whatever the order in which requests are sent, cancelled, answered, refused
\* and overtaken by refreshes, once nothing is awaited the view on screen is the
\* host's present answer to the request the navigation describes; or there is an
\* error, and if it is the view's it is about that request (one of another
\* channel is said nothing of); and the inspector speaks of the node selected,
\* or of none (App.tsx:198-301, the `cancelled` flags).
ScreenIsCurrent ==
    Settled =>
        /\ ~Waiting("view") /\ error = NoError =>
              /\ held["view"].req = ToRequest(nav) /\ held["view"].version = graph
              /\ canvas.elements = held["view"] /\ canvas.key = ToRequest(nav)
        /\ ~Waiting("view") /\ error.channel = "view" => error.what = ToRequest(nav)
        /\ \A c \in Details : ~Waiting(c) =>
              held[c] = None \/ (held[c].what = selected /\ held[c].version = graph)
        /\ busy["view"] = Waiting("view")

\* The focus is never lost under a view that needs one: neither the toolbar's
\* tabs, enabled by what was last rendered, nor clearing the focus leads to
\* the notice that a focus is needed (navigation.ts:111-131).
NeverADeadEnd == Ready(nav)

\* The directories open on the map are those that were open on screen when the
\* user first touched one, with every click since applied in turn, and those
\* around them: a stale view and clicks before its answer change nothing of that
\* (navigation.ts:141-176, App.tsx:369-435).
OpenIsWhatWasClicked ==
    Settled /\ ~Waiting("view") /\ error = NoError /\ nav.view = "protocol" /\ wanted # None =>
        Range(held["view"].open) = Surrounded(wanted)

\* A canvas held blank is revealed, by the layout of its own run or by that
\* run's failure (GraphCanvas.tsx:582-674).
CanvasIsRevealed == canvas.hidden ~> ~canvas.hidden
=============================================================================
