------------------------------ MODULE MCExport ------------------------------
(***************************************************************************)
(* Three contracts in three directories, one inside another, and the same  *)
(* project in structural mode, without a call.                             *)
(***************************************************************************)
EXTENDS Export

CONSTANTS src, lib, ext, A, B, C, a, b, c, v, q

MCParent == (src :> None) @@ (lib :> src) @@ (ext :> None)

Node(kind, scope, dir, bases) ==
    [kind |-> kind, scope |-> scope, dir |-> dir, scaffold |-> FALSE, bases |-> bases, sub |-> "function",
     vis |-> "public", mut |-> "nonpayable", guard |-> "none"]

NodeOf == (A :> Node("Contract", None, src, {A})) @@ (B :> Node("Contract", None, lib, {B}))
       @@ (C :> Node("Contract", None, ext, {C})) @@ (c :> Node("Function", C, ext, {}))
       @@ (a :> Node("Function", A, src, {})) @@ (b :> Node("Function", B, lib, {}))
       @@ (v :> Node("StateVariable", B, lib, {})) @@ (q :> Node("Unresolved", None, src, {}))

Edge(kind, from, to) ==
    [kind |-> kind, from |-> from, to |-> to, sub |-> "external", res |-> "heuristic", count |-> 1, possible |-> {}]

Written == {Edge("declares", A, a), Edge("declares", B, b), Edge("declares", C, c),
            Edge("declares", B, v), Edge("writes", b, v)}
Called  == {Edge("calls", a, b), Edge("calls", b, q), Edge("calls", c, a)}

MCGraphs == {[node |-> NodeOf, edge |-> Written], [node |-> NodeOf, edge |-> Written \cup Called]}

MCOpenings == {[view |-> "protocol", focus |-> None], [view |-> "state-access", focus |-> None],
               [view |-> "call", focus |-> a], [view |-> "contract", focus |-> B]}
=============================================================================
