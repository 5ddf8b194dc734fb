-------------------------------- MODULE Diff --------------------------------
(***************************************************************************)
(* core's diffGraphs: the matching of DiffMatch, then diff/classify.ts,    *)
(* which says what became of every node and edge, then diff/findings.ts,   *)
(* the list an auditor reads: what is newly exposed, less guarded, or laid *)
(* out differently, and whether the node itself was edited.                *)
(***************************************************************************)
EXTENDS DiffMatch

VARIABLES nodes, edges,  \* GraphDiff.nodes and .edges
          findings

diff == <<nodes, edges, findings>>
diffVars == <<vars, diff>>

DiffInit == Init /\ nodes = {} /\ edges = {} /\ findings = {}

-----------------------------------------------------------------------------
(* classify.ts *)

(* The attributes compared.  Positions, what a compiler knew, metrics and    *)
(* the transitive fields are not.                                            *)
Compared(kind) ==
  CASE kind = "Function" -> {"name", "file", "scope", "hash", "params", "returns",
                             "mutability", "guard", "flags"}
    [] kind = "StateVariable" -> {"name", "file", "scope", "slot"}
    [] OTHER -> {"name", "file", "scope"}

Differing(b, a) ==
  LET m == before.nodes[b]
      n == after.nodes[a]
  IN  IF m.kind # n.kind THEN {"kind"} ELSE {f \in Compared(m.kind) : m[f] # n[f]}

(* Moved before renamed before modified. *)
Status(b, a) ==
  LET changes == Differing(b, a) IN
  CASE changes = {} -> "unchanged"
    [] changes \cap {"file", "scope"} # {} -> "moved"
    [] "name" \in changes -> "renamed"
    [] OTHER -> "modified"

NodeChanges ==
  {[status |-> Status(b, byBefore[b].after), before |-> b, after |-> byBefore[b].after] :
     b \in NodesOf(before) \ UnmatchedBefore}
  \cup {[status |-> "removed", before |-> b, after |-> None] : b \in UnmatchedBefore}
  \cup {[status |-> "added", before |-> None, after |-> a] : a \in UnmatchedAfter}

(* Both sides in before-space. *)
EdgeKey(e, from, to) == <<e.kind, e.subkind, from, to>>
KeyBefore(e) == EdgeKey(e, e.from, e.to)

(* Faulty: the ids as they are. *)
KeyAsIs(e) == EdgeKey(e, e.from, e.to)

KeyAfter(e) == EdgeKey(e, ProjectBack(e.from), ProjectBack(e.to))

(* A map holds one edge of a key, the last.  Ids tell kinds apart (ids.ts:   *)
(* 8-25), and then no two edges of a graph share a key.                      *)
Shadowed == {f \in after.edges : \E g \in after.edges \ {f} : KeyAfter(g) = KeyAfter(f)}
OneOfEachKey(kept) ==
  \A f \in after.edges : \E g \in kept : \A h \in kept : KeyAfter(h) = KeyAfter(f) <=> h = g

EdgeChanges(kept) ==
  {[status |-> IF p[1].count = p[2].count THEN "unchanged" ELSE "modified",
    before |-> p[1], after |-> p[2]] :
     p \in {q \in before.edges \X kept : KeyBefore(q[1]) = KeyAfter(q[2])}}
  \cup {[status |-> "removed", before |-> e, after |-> None] :
          e \in {e \in before.edges : \A f \in kept : KeyAfter(f) # KeyBefore(e)}}
  \cup {[status |-> "added", before |-> None, after |-> f] :
          f \in {f \in kept : \A e \in before.edges : KeyBefore(e) # KeyAfter(f)}}

Classify ==
  /\ phase = "matched" /\ phase' = "classified"
  /\ nodes' = NodeChanges
  /\ \E lost \in SUBSET Shadowed :
       /\ OneOfEachKey(after.edges \ lost)
       /\ edges' = EdgeChanges(after.edges \ lost)
  /\ UNCHANGED <<graphs, matching, hashes, bucket, candidates, findings>>

-----------------------------------------------------------------------------
(* findings.ts *)

Finding(kind, n, evidence) == [kind |-> kind, node |-> n, evidence |-> evidence]
When(condition, finding) == IF condition THEN {finding} ELSE {}

IsExternal(e) == e.kind = "calls" /\ e.subkind \in {"external", "delegatecall", "lowlevel"}
ExternalBefore == {c.before.from : c \in {d \in edges : d.before # None /\ IsExternal(d.before)}}
ExternalAfter ==
  {ProjectBack(c.after.from) : c \in {d \in edges : d.after # None /\ IsExternal(d.after)}}

(* Faulty: a new function is no news but for being callable. *)
EntrypointsOnly(c) ==
  LET n == after.nodes[c.after] IN
  When(n.entry, Finding("new-external-entrypoint", c.after, "direct"))

OfAdded(c) ==
  LET n == after.nodes[c.after] IN
  When(n.entry, Finding("new-external-entrypoint", c.after, "direct"))
  \cup {Finding("new-dangerous-op", c.after, "direct") : flag \in n.flags}

Rank == [none |-> 0, low |-> 1, high |-> 2]

OfMatched(c) ==
  LET m == before.nodes[c.before]
      n == after.nodes[c.after]
      evidence == IF c.status = "unchanged" THEN "consequence" ELSE "direct"
  IN  When(m.mutability # "payable" /\ n.mutability = "payable",
           Finding("became-payable", c.after, evidence))
      \cup When(n.mutability \in {"nonpayable", "payable"} /\ Rank[n.guard] < Rank[m.guard],
                Finding("access-control-weakened", c.after, evidence))
      \cup When(~ m.reachable /\ n.reachable,
                Finding("became-externally-reachable", c.after, evidence))
      \cup When(c.before \notin ExternalBefore /\ c.before \in ExternalAfter,
                Finding("new-external-call", c.after, evidence))
      \cup {Finding("new-dangerous-op", c.after, evidence) : flag \in n.flags \ m.flags}

(* The variables that occupy a slot, in declaration order: each with how     *)
(* many come before it.                                                      *)
StorageOrder(graph, contract) ==
  LET variables == {n \in NodesOf(graph) : /\ graph.nodes[n].kind = "StateVariable"
                                           /\ graph.nodes[n].scope = contract
                                           /\ graph.nodes[n].slot}
      earlier(n) == {m \in variables : graph.nodes[m].offset < graph.nodes[n].offset}
  IN  {<<graph.nodes[n].name, Cardinality(earlier(n))>> : n \in variables}

IsFunction(graph, n) == n # None /\ graph.nodes[n].kind = "Function"

Derived ==
  (UNION {OfAdded(c) : c \in {d \in nodes : d.status = "added" /\ IsFunction(after, d.after)}})
  \cup (UNION {OfMatched(c) : c \in {d \in nodes : IsFunction(before, d.before)
                                                   /\ IsFunction(after, d.after)}})
  \cup {Finding("storage-layout-changed", c.after, "direct") :
          c \in {d \in nodes : /\ d.before # None /\ d.after # None
                               /\ after.nodes[d.after].kind = "Contract"
                               /\ StorageOrder(before, d.before) # StorageOrder(after, d.after)}}

Derive ==
  /\ phase = "classified" /\ phase' = "done"
  /\ findings' = Derived
  /\ UNCHANGED <<graphs, matching, hashes, bucket, candidates, nodes, edges>>

DiffNext == (MatchNext /\ UNCHANGED diff) \/ Classify \/ Derive

Spec == DiffInit /\ [][DiffNext]_diffVars

-----------------------------------------------------------------------------
(* Properties *)

Statuses == {"unchanged", "moved", "renamed", "modified", "removed", "added"}

TypeOK ==
  /\ MatchTypeOK
  /\ \A c \in nodes : /\ c.status \in Statuses /\ c.before \in Ids \cup {None}
                      /\ c.after \in Ids \cup {None}
  /\ \A f \in findings : f.node \in Ids /\ f.evidence \in {"direct", "consequence"}

(* classify.ts:242-245 "a renamed function's edges are the same edges rather *)
(* than a matching pair of additions and removals": an edge whose two ends   *)
(* have counterparts, and the edge between those, are never reported gone    *)
(* and new.                                                                  *)
EdgesFollowTheirNodes ==
  phase = "done" =>
    \A e \in before.edges, f \in after.edges :
      /\ byBefore[e.from] # None /\ byBefore[e.from].after = f.from
      /\ byBefore[e.to] # None /\ byBefore[e.to].after = f.to
      /\ e.kind = f.kind /\ e.subkind = f.subkind
      => \A c \in edges : c.before = e \/ c.after = f => c.before = e /\ c.after = f

(* findings.ts:144-240, over all branches — whatever can be called from      *)
(* outside now, or does something dangerous, and could or did not in the     *)
(* node it is matched with, is reported, however that node was matched and   *)
(* whether it is new, moved or renamed.                                      *)
SurfaceIsReported ==
  phase = "done" =>
    \A a \in NodesOf(after) :
      LET n == after.nodes[a]
          was == IF byAfter[a] = None THEN None ELSE byAfter[a].before
      IN n.kind = "Function" =>
           /\ n.entry /\ (was = None \/ ~ before.nodes[was].reachable)
                => \E f \in findings : f.node = a /\ f.kind \in {"new-external-entrypoint",
                                                                 "became-externally-reachable"}
           /\ n.flags # {} /\ (was = None \/ before.nodes[was].flags = {})
                => Finding("new-dangerous-op", a, "direct") \in findings
=============================================================================
