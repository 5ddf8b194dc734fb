----------------------------- MODULE Navigation -----------------------------
(***************************************************************************)
(* What a click means: webview/src/ui/navigation.ts, with the facts about  *)
(* the views that presets.ts states and the toolbar's disabled controls.   *)
(* Everything here is a pure function of the navigation state; Webview.tla *)
(* is the program around it.                                               *)
(*                                                                         *)
(* Directories are model values; Within(p, q) says that the path p lies    *)
(* inside the path q (p.startsWith(q + "/")).  `up` and `down` are one     *)
(* number, the pair the toolbar sets together.                             *)
(***************************************************************************)
EXTENDS Naturals, Sequences, SequencesExt

CONSTANTS Ids,           \* nodes of the graph
          Paths,         \* directories, drawn as clusters
          Inside,        \* pairs <<p, q>>: p lies inside q, at any depth
          Hops,          \* the hop counts the steppers offer
          DefaultHops,   \* what the host's meta says they start at
          None

ASSUME NavigationAssumption ==
    /\ None \notin Ids \cup Paths
    /\ Inside \subseteq Paths \X Paths
    /\ DefaultHops \in Hops

Views == {"protocol", "contract", "call", "state-access", "inheritance"}

\* The fields of PRESETS that decide something.
NeedsFocus == {"contract", "call"}
UsesFocus  == NeedsFocus \cup {"state-access"}
Clustered  == {"protocol"}

Navs == [view : Views, focus : Ids \cup {None}, hops : Hops, expand : Seq(Paths), auto : BOOLEAN]

InitialNav == [view |-> "protocol", focus |-> None, hops |-> DefaultHops, expand |-> <<>>, auto |-> TRUE]

\* Every arrival at another view drops the directories that were open.
Arrive(nav, view, focus) ==
    [nav EXCEPT !.view = view, !.focus = focus, !.expand = <<>>, !.auto = TRUE]

\* s.filter(entry => !gone.has(entry)).
Without(s, gone) == FoldLeft(LAMBDA kept, x : IF x \in gone THEN kept ELSE Append(kept, x), <<>>, s)

CloseOnly(expand, path) == Without(expand, {path})

\* A directory closes with those inside it.
Close(expand, path) == Without(expand, {path} \cup {p \in Paths : <<p, path>> \in Inside})

OnView(nav, view) ==
    IF view = nav.view THEN nav ELSE Arrive(nav, view, nav.focus)

FocusOnly(nav, focus) == [nav EXCEPT !.focus = focus]

OnFocus(nav, focus) ==
    IF focus = None /\ nav.view \in NeedsFocus THEN Arrive(nav, "protocol", None)
    ELSE [nav EXCEPT !.focus = focus]

OnHops(nav, hops) == [nav EXCEPT !.hops = hops]

\* `open` and `pick` of a node: unless the view already is about it.
Open(nav, view, id) ==
    IF nav.view = view /\ nav.focus = id THEN nav ELSE Arrive(nav, view, id)

\* A pick of a directory toggles what is drawn: `expanded` comes from the
\* element, `open` from the view on screen, None when the caller has no view.
PickCluster(nav, path, expanded, open) ==
    LET base == IF nav.auto /\ open # None THEN open ELSE nav.expand
    IN  [nav EXCEPT !.auto = FALSE,
                    !.expand = IF expanded THEN Close(base, path) ELSE Append(base, path)]

PickNode(nav, kind, id) ==
    CASE kind = "Contract" -> Open(nav, "contract", id)
      [] kind = "Function" -> Open(nav, "call", id)
      [] OTHER             -> nav

\* The request a state describes; a field the view does not use is None.
ToRequest(nav) ==
    [view   |-> nav.view,
     focus  |-> IF nav.view \in UsesFocus THEN nav.focus ELSE None,
     hops   |-> IF nav.view = "call" THEN nav.hops ELSE None,
     expand |-> IF nav.view \in Clustered THEN nav.expand ELSE <<>>,
     auto   |-> nav.view \in Clustered => nav.auto]

Ready(nav) == nav.view \notin NeedsFocus \/ nav.focus # None

\* The toolbar's tab for a view is disabled without the focus it needs, in
\* structural mode for the call graph, and while a view is being loaded.
TabEnabled(nav, view, structural, busy) ==
    /\ view \in NeedsFocus => nav.focus # None
    /\ ~(view = "call" /\ structural)
    /\ ~busy
=============================================================================
