----------------------------- MODULE DiffMatch ------------------------------
(***************************************************************************)
(* core's diff/match.ts: which node of one revision is which node of the   *)
(* next.  Stable ids do not survive a rename or a move, so nodes are       *)
(* matched in four tiers, each over what the ones before it left: by id,   *)
(* by body hash, by container and name, and by likeness.  A step is one    *)
(* decision of the code: the ids of a body-hash bucket are visited one by  *)
(* one, the candidates of the last tier are taken best first.              *)
(***************************************************************************)
EXTENDS Integers, FiniteSets

CONSTANTS Ids,        \* node ids, as numbers: sort() is <
          None,       \* no node, no scope, no body
          Names,
          Likeness,   \* nameSimilarity of two names, in tenths
          Threshold,  \* fuzzyThreshold, in parts of FullScore
          Inputs      \* the pairs of graphs to diff: [before, after]

VARIABLES before, after,      \* the graphs
          byBefore, byAfter,  \* NodeMatching's two maps
          phase,
          hashes,             \* tier 2: the buckets to come
          left, right, todo,  \* tier 2: the bucket, and who is to be visited
          candidates          \* tier 4

graphs == <<before, after>>
matching == <<byBefore, byAfter>>
bucket == <<left, right, todo>>
vars == <<graphs, matching, phase, hashes, bucket, candidates>>

FullScore == 1200
Tiers == {"exact", "body", "signature", "fuzzy"}
Match == [before : Ids, after : Ids, tier : Tiers, score : 0..FullScore]
Phases == {"exact", "body", "name", "scope", "lone", "signature", "weigh", "greedy", "matched",
           "classified", "done"}

ASSUME MatchAssumption ==
  /\ Ids \subseteq Nat /\ None \notin Ids /\ None \notin Names
  /\ None \notin [before : Ids, after : Ids, tier : {"exact", "body", "signature", "fuzzy"},
                  score : 0..1200]
  /\ Likeness \in [Names \X Names -> 0..10]
  /\ \A i \in Inputs : \A graph \in {i.before, i.after} :
       /\ DOMAIN graph.nodes \subseteq Ids
       /\ \A n \in DOMAIN graph.nodes :
            /\ graph.nodes[n].name \in Names
            /\ graph.nodes[n].kind = "Function" /\ graph.nodes[n].entry => graph.nodes[n].reachable
       /\ IsFiniteSet(graph.edges) /\ None \notin graph.edges
       /\ \A e, f \in graph.edges :
            /\ e.from \in DOMAIN graph.nodes /\ e.to \in DOMAIN graph.nodes
            /\ <<e.kind, e.subkind, e.from, e.to>> = <<f.kind, f.subkind, f.from, f.to>> => e = f

Init ==
  /\ \E i \in Inputs : before = i.before /\ after = i.after
  /\ byBefore = [n \in Ids |-> None] /\ byAfter = [n \in Ids |-> None]
  /\ phase = "exact"
  /\ hashes = {} /\ left = {} /\ right = {} /\ todo = {} /\ candidates = {}

-----------------------------------------------------------------------------
(* A graph: its nodes with their attributes, its edges.  An attribute may be *)
(* a model value for whatever the code compares as a whole.                  *)

NodesOf(graph) == DOMAIN graph.nodes

(* unmatchedBefore, unmatchedAfter *)
UnmatchedBefore == {n \in NodesOf(before) : byBefore[n] = None}
UnmatchedAfter == {n \in NodesOf(after) : byAfter[n] = None}

Pairing(b, a, tier, score) == [before |-> b, after |-> a, tier |-> tier, score |-> score]

(* pair: both maps, whatever they hold. *)
Pair(b, a, tier, score) ==
  /\ byBefore' = [byBefore EXCEPT ![b] = Pairing(b, a, tier, score)]
  /\ byAfter' = [byAfter EXCEPT ![a] = Pairing(b, a, tier, score)]

(* An after id in before-space: byAfter.get(id)?.before ?? id, and           *)
(* projectScope.                                                             *)
ProjectBack(n) == IF n = None \/ byAfter[n] = None THEN n ELSE byAfter[n].before

-----------------------------------------------------------------------------
(* Tier 1: the same id, and the same kind. *)

SameNode(n) ==
  /\ n \in NodesOf(before) \cap NodesOf(after)
  /\ before.nodes[n].kind = after.nodes[n].kind

HashesLeft(graph, ids) ==
  {graph.nodes[n].hash : n \in {i \in ids : graph.nodes[i].kind = "Function"}} \ {None}

Exact ==
  LET exact == [n \in Ids |-> IF SameNode(n) THEN Pairing(n, n, "exact", FullScore) ELSE None]
      rest == {n \in Ids : ~ SameNode(n)}
  IN
  /\ phase = "exact" /\ phase' = "body"
  /\ byBefore' = exact /\ byAfter' = exact
  /\ hashes' = HashesLeft(before, NodesOf(before) \cap rest)
                 \cup HashesLeft(after, NodesOf(after) \cap rest)
  /\ UNCHANGED <<graphs, bucket, candidates>>

-----------------------------------------------------------------------------
(* Tier 2: the same body.  The buckets are disjoint, and may be taken in any *)
(* order.                                                                    *)

HasHash(graph, n, h) == graph.nodes[n].kind = "Function" /\ graph.nodes[n].hash = h

TakeBucket(h) ==
  /\ phase = "body" /\ h \in hashes
  /\ hashes' = hashes \ {h}
  /\ left' = {n \in UnmatchedBefore : HasHash(before, n, h)}
  /\ right' = {n \in UnmatchedAfter : HasHash(after, n, h)}
  /\ todo' = left'
  /\ phase' = IF left' = {} \/ right' = {} THEN "body" ELSE "name"
  /\ UNCHANGED <<graphs, matching, candidates>>

(* take's key: the name, then the scope. *)
Key(graph, n) == IF phase = "name" THEN graph.nodes[n].name ELSE graph.nodes[n].scope

CandidatesFor(b) ==
  {a \in right : byAfter[a] = None /\ Key(after, a) = Key(before, b)}

Visited(b) == byBefore[b] = None /\ Key(before, b) # None

(* One turn of take's loop. *)
Take ==
  /\ phase \in {"name", "scope"} /\ todo # {}
  /\ \E b \in todo :
     /\ \A o \in todo : b <= o
     /\ todo' = todo \ {b}
     /\ IF Visited(b) /\ Cardinality(CandidatesFor(b)) = 1
        THEN \E a \in CandidatesFor(b) : Pair(b, a, "body", 1140)
        ELSE UNCHANGED matching
  /\ UNCHANGED <<graphs, phase, hashes, left, right, candidates>>

TakeEnds ==
  /\ phase \in {"name", "scope"} /\ todo = {}
  /\ IF phase = "name" THEN phase' = "scope" /\ todo' = left
                       ELSE phase' = "lone" /\ UNCHANGED todo
  /\ UNCHANGED <<graphs, matching, hashes, left, right, candidates>>

(* By elimination: a lone remaining pair. *)
TakeLone ==
  LET restLeft == {b \in left : byBefore[b] = None}
      restRight == {a \in right : byAfter[a] = None}
  IN
  /\ phase = "lone" /\ phase' = "body"
  /\ IF Cardinality(restLeft) = 1 /\ Cardinality(restRight) = 1
     THEN \E b \in restLeft, a \in restRight : Pair(b, a, "body", 1140)
     ELSE UNCHANGED matching
  /\ UNCHANGED <<graphs, hashes, bucket, candidates>>

BucketsEnd ==
  /\ phase = "body" /\ hashes = {} /\ phase' = "signature"
  /\ left' = {} /\ right' = {} /\ todo' = {}
  /\ UNCHANGED <<graphs, matching, hashes, candidates>>

-----------------------------------------------------------------------------
(* Tier 3: the same container and name, unique on both sides.  All keys are  *)
(* made before any pair.                                                     *)

LeftKey(b) == LET n == before.nodes[b] IN <<n.kind, n.scope, n.name>>
RightKey(a) == LET n == after.nodes[a] IN <<n.kind, ProjectBack(n.scope), n.name>>

OnlyPair(b, a) ==
  /\ b \in UnmatchedBefore /\ a \in UnmatchedAfter
  /\ {n \in UnmatchedBefore : LeftKey(n) = LeftKey(b)} = {b}
  /\ {n \in UnmatchedAfter : RightKey(n) = LeftKey(b)} = {a}

Signature ==
  /\ phase = "signature" /\ phase' = "weigh"
  /\ byBefore' = [b \in Ids |->
       IF \E a \in Ids : OnlyPair(b, a)
       THEN Pairing(b, CHOOSE a \in Ids : OnlyPair(b, a), "signature", 960) ELSE byBefore[b]]
  /\ byAfter' = [a \in Ids |->
       IF \E b \in Ids : OnlyPair(b, a)
       THEN Pairing(CHOOSE b \in Ids : OnlyPair(b, a), a, "signature", 960) ELSE byAfter[a]]
  /\ UNCHANGED <<graphs, hashes, bucket, candidates>>

-----------------------------------------------------------------------------
(* Tier 4: functions of one container, by likeness. *)

Neighbours(graph, n) ==
  {IF e.from = n THEN e.to ELSE e.from :
     e \in {e \in graph.edges : e.kind # "declares" /\ n \in {e.from, e.to}}} \ {n}

(* Parts of 1200: 0.4 for the signature (of which half the parameters, a     *)
(* quarter the returns, a quarter the mutability), 0.3 for the name, 0.3 for *)
(* the neighbourhood.                                                        *)
SignatureScore(b, a) ==
  LET m == before.nodes[b]
      n == after.nodes[a]
  IN  (IF m.params = n.params THEN 240 ELSE 0) + (IF m.returns = n.returns THEN 120 ELSE 0)
        + (IF m.mutability = n.mutability THEN 120 ELSE 0)

NeighbourScore(b, a) ==
  LET ours == Neighbours(before, b)
      theirs == {ProjectBack(n) : n \in Neighbours(after, a)}
  IN  IF ours \cup theirs = {} THEN 0
      ELSE (360 * Cardinality(ours \cap theirs)) \div Cardinality(ours \cup theirs)

Score(b, a) ==
  SignatureScore(b, a) + 36 * Likeness[<<before.nodes[b].name, after.nodes[a].name>>]
    + NeighbourScore(b, a)

Comparable(b, a) ==
  /\ before.nodes[b].kind = "Function" /\ after.nodes[a].kind = "Function"
  /\ before.nodes[b].scope = ProjectBack(after.nodes[a].scope)

Weigh ==
  /\ phase = "weigh" /\ phase' = "greedy"
  /\ candidates' = {Pairing(p[1], p[2], "fuzzy", Score(p[1], p[2])) :
                      p \in {q \in UnmatchedBefore \X UnmatchedAfter :
                               Comparable(q[1], q[2]) /\ Score(q[1], q[2]) >= Threshold}}
  /\ UNCHANGED <<graphs, matching, hashes, bucket>>

(* Faulty: the after side may be claimed twice. *)
FreeBefore(c) == byBefore[c.before] = None

Free(c) == byBefore[c.before] = None /\ byAfter[c.after] = None

(* Faulty: in the order of the ids. *)
ById(c, d) ==
  c.before < d.before \/ (c.before = d.before /\ c.after <= d.after)

(* Descending score, ties by the before id and then by the after id. *)
Precedes(c, d) ==
  \/ c.score > d.score
  \/ c.score = d.score /\ c.before < d.before
  \/ c.score = d.score /\ c.before = d.before /\ c.after <= d.after

(* One turn of the loop, the skipped candidates with it. *)
TakeBest ==
  LET free == {c \in candidates : Free(c)} IN
  /\ phase = "greedy"
  /\ IF free = {} THEN phase' = "matched" /\ UNCHANGED matching
     ELSE \E c \in free : /\ \A d \in free : Precedes(c, d)
                          /\ Pair(c.before, c.after, "fuzzy", c.score)
                          /\ UNCHANGED phase
  /\ UNCHANGED <<graphs, hashes, bucket, candidates>>

MatchNext ==
  \/ Exact
  \/ \E h \in hashes : TakeBucket(h)
  \/ Take \/ TakeEnds \/ TakeLone \/ BucketsEnd
  \/ Signature \/ Weigh \/ TakeBest

-----------------------------------------------------------------------------
(* Properties *)

MatchTypeOK ==
  /\ byBefore \in [Ids -> Match \cup {None}] /\ byAfter \in [Ids -> Match \cup {None}]
  /\ phase \in Phases
  /\ left \subseteq NodesOf(before) /\ right \subseteq NodesOf(after) /\ todo \subseteq left
  /\ candidates \subseteq Match

(* match.ts:178-185 and its header — the two maps are one matching: whatever *)
(* tiers decide in whatever order, no node is claimed twice, and a match is  *)
(* of two nodes that exist and are of one kind.  ReviewStore's migration     *)
(* relies on it.                                                             *)
MatchingIsOneToOne ==
  /\ \A b \in Ids : byBefore[b] # None =>
       /\ byBefore[b].before = b /\ byAfter[byBefore[b].after] = byBefore[b]
       /\ b \in NodesOf(before) /\ byBefore[b].after \in NodesOf(after)
       /\ before.nodes[b].kind = after.nodes[byBefore[b].after].kind
  /\ \A a \in Ids : byAfter[a] # None =>
       /\ byAfter[a].after = a /\ byAfter[a].before \in NodesOf(before)
       /\ byBefore[byAfter[a].before] = byAfter[a]

(* match.ts:17-18 "each one only sees what the previous left over, so a      *)
(* confident answer is never displaced by a speculative one".                *)
MatchesStand ==
  [][\A n \in Ids : /\ byBefore[n] # None => byBefore'[n] = byBefore[n]
                    /\ byAfter[n] # None => byAfter'[n] = byAfter[n]]_matching

(* match.ts:364-379 — a probable rename is never reported where a likelier   *)
(* one was to be had: each candidate not taken lost one of its ends to a     *)
(* candidate at least as likely.                                             *)
FuzzyIsStable ==
  phase = "matched" =>
    \A c \in candidates :
      \E m \in {byBefore[c.before], byAfter[c.after]} \ {None} : m.score >= c.score
=============================================================================
