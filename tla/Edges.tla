-------------------------------- MODULE Edges --------------------------------
(***************************************************************************)
(* core/src/graph/build.ts, collapse: the resolver's drafts, one per site, *)
(* become one edge per source, target, kind and subkind.                   *)
(* core/src/graph/score.ts, scoreEdges: how sure the graph is of them.     *)
(***************************************************************************)
EXTENDS Naturals, Sequences, FiniteSets, FiniteSetsExt

Confidence == [semantic |-> 3, heuristic |-> 2, ambiguous |-> 1, unresolved |-> 0]
Weaker(a, b) == IF Confidence[a] < Confidence[b] THEN a ELSE b

EdgeKey(d) == <<d.from, d.to, d.kind, d.sub>>

\* A draft with an end that is no node is dropped.
Drawn(d, known) == {d.from, d.to} \subseteq known

\* An edge starts at the source of its first site and keeps the weakest
\* confidence; targets and the boundary mark are united.
Opened(d) == [res |-> d.res, src |-> d.src, sites |-> <<d.src>>, count |-> 1, possible |-> d.possible, cross |-> d.cross]
Joined(old, d) ==
    [res      |-> Weaker(d.res, old.res),
     src      |-> old.src,
     sites    |-> Append(old.sites, d.src),
     count    |-> old.count + 1,
     possible |-> old.possible \cup d.possible,
     cross    |-> old.cross \/ d.cross]

Added(edges, d, known) ==
    LET key == EdgeKey(d)
        new == IF key \in DOMAIN edges THEN Joined(edges[key], d) ELSE Opened(d)
    IN  IF Drawn(d, known) THEN [k \in DOMAIN edges \cup {key} |-> IF k = key THEN new ELSE edges[k]] ELSE edges

Collapse(sites, known) ==
    LET merged[i \in 0 .. Len(sites)] == IF i = 0 THEN <<>> ELSE Added(merged[i - 1], sites[i], known)
    IN  merged[Len(sites)]

EdgesCounted(edges, kinds, excluded) ==
    [res \in DOMAIN Confidence |->
        Cardinality({k \in DOMAIN edges : k[3] \in kinds /\ edges[k].res = res /\ edges[k].src[1] \notin excluded})]

\* Sites are scored, not edges; files of other compilers are left out.
Counted(edges, kinds, excluded, res) ==
    {k \in DOMAIN edges : k[3] \in kinds /\ edges[k].res = res /\ edges[k].src[1] \notin excluded}
Sites(edges, keys) == FoldSet(LAMBDA k, n : n + edges[k].count, 0, keys)
Scored(edges, kinds, excluded) ==
    [res \in DOMAIN Confidence |-> Sites(edges, Counted(edges, kinds, excluded, res))]
Total(score) == score.semantic + score.heuristic + score.ambiguous + score.unresolved
=============================================================================
