----------------------------- MODULE DiffProofs -----------------------------
(***************************************************************************)
(* The matching of two revisions, for graphs of any size: it is one to one *)
(* and between nodes of one kind, no decision is ever taken back, and the  *)
(* last tier pairs the likeliest first.  What is reported over it: an edge *)
(* follows its ends, and what is newly exposed does not go unsaid.         *)
(***************************************************************************)
EXTENDS Diff, FiniteSetTheorems, TLAPS

MapsAreTotal ==
  /\ DOMAIN byBefore = Ids /\ byBefore = [n \in Ids |-> byBefore[n]]
  /\ DOMAIN byAfter = Ids /\ byAfter = [n \in Ids |-> byAfter[n]]

GraphsAreOfIds == NodesOf(before) \subseteq Ids /\ NodesOf(after) \subseteq Ids

(* The first tier finds the maps empty. *)
FreshAtFirst ==
  phase = "exact" => \A n \in Ids : byBefore[n] = None /\ byAfter[n] = None

(* A bucket and a candidate are functions of the revisions. *)
FunctionsAmong(graph, ids) ==
  \A n \in ids : n \in NodesOf(graph) /\ graph.nodes[n].kind = "Function"

BucketOfFunctions ==
  /\ FunctionsAmong(before, left) /\ FunctionsAmong(after, right) /\ todo \subseteq left

CandidatesAreFunctions ==
  \A c \in candidates : /\ c = Pairing(c.before, c.after, "fuzzy", c.score)
                        /\ FunctionsAmong(before, {c.before})
                        /\ FunctionsAmong(after, {c.after})

IInv ==
  /\ MapsAreTotal /\ GraphsAreOfIds /\ FreshAtFirst /\ BucketOfFunctions
  /\ CandidatesAreFunctions /\ MatchingIsOneToOne

(* What MatchesStand asks of a step. *)
Stands ==
  \A n \in Ids : /\ byBefore[n] # None => byBefore'[n] = byBefore[n]
                 /\ byAfter[n] # None => byAfter'[n] = byAfter[n]

-----------------------------------------------------------------------------
(* Pairing. *)

(* match.ts:182-185 — pairing two free nodes of one kind keeps the matching   *)
(* one to one and takes nothing back.                                        *)
LEMMA PairKeeps ==
  ASSUME MapsAreTotal, GraphsAreOfIds, MatchingIsOneToOne, UNCHANGED graphs,
         NEW b, NEW a, NEW tier, NEW score, Pair(b, a, tier, score),
         b \in NodesOf(before), a \in NodesOf(after),
         before.nodes[b].kind = after.nodes[a].kind,
         byBefore[b] = None, byAfter[a] = None
  PROVE  MapsAreTotal' /\ MatchingIsOneToOne' /\ Stands
<1>. DEFINE m == Pairing(b, a, tier, score)
<1>1. b \in Ids /\ a \in Ids /\ m.before = b /\ m.after = a
  BY DEF GraphsAreOfIds, Pairing
<1>2. /\ byBefore'[b] = m /\ \A n \in Ids \ {b} : byBefore'[n] = byBefore[n]
      /\ byAfter'[a] = m /\ \A n \in Ids \ {a} : byAfter'[n] = byAfter[n]
  BY <1>1 DEF Pair, MapsAreTotal
<1>3. MapsAreTotal'
  BY <1>1 DEF Pair, MapsAreTotal
<1>4. before' = before /\ after' = after
  BY DEF graphs
<1>5. ASSUME NEW n \in Ids, byBefore'[n] # None
      PROVE  /\ byBefore'[n].before = n /\ byAfter'[byBefore'[n].after] = byBefore'[n]
             /\ n \in NodesOf(before) /\ byBefore'[n].after \in NodesOf(after)
             /\ before.nodes[n].kind = after.nodes[byBefore'[n].after].kind
  <2>1. CASE n = b
    BY <1>1, <1>2, <2>1
  <2>2. CASE n # b
    <3>1. byBefore'[n] = byBefore[n] /\ byBefore[n] # None
      BY <1>2, <1>5, <2>2
    <3>2. /\ byBefore[n].before = n /\ byAfter[byBefore[n].after] = byBefore[n]
          /\ n \in NodesOf(before) /\ byBefore[n].after \in NodesOf(after)
          /\ before.nodes[n].kind = after.nodes[byBefore[n].after].kind
      BY <3>1 DEF MatchingIsOneToOne
    <3>3. byBefore[n].after # a /\ byBefore[n].after \in Ids
      BY <3>1, <3>2 DEF GraphsAreOfIds
    <3>. QED
      BY <1>2, <3>1, <3>2, <3>3
  <2>. QED
    BY <2>1, <2>2
<1>6. ASSUME NEW n \in Ids, byAfter'[n] # None
      PROVE  /\ byAfter'[n].after = n /\ byAfter'[n].before \in NodesOf(before)
             /\ byBefore'[byAfter'[n].before] = byAfter'[n]
  <2>1. CASE n = a
    BY <1>1, <1>2, <2>1
  <2>2. CASE n # a
    <3>1. byAfter'[n] = byAfter[n] /\ byAfter[n] # None
      BY <1>2, <1>6, <2>2
    <3>2. /\ byAfter[n].after = n /\ byAfter[n].before \in NodesOf(before)
          /\ byBefore[byAfter[n].before] = byAfter[n]
      BY <3>1 DEF MatchingIsOneToOne
    <3>3. byAfter[n].before # b /\ byAfter[n].before \in Ids
      BY <3>1, <3>2 DEF GraphsAreOfIds
    <3>. QED
      BY <1>2, <3>1, <3>2, <3>3
  <2>. QED
    BY <2>1, <2>2
<1>7. Stands
  BY <1>2 DEF Stands
<1>8. MatchingIsOneToOne'
  BY <1>4, <1>5, <1>6 DEF MatchingIsOneToOne, NodesOf
<1>. QED
  BY <1>3, <1>7, <1>8

-----------------------------------------------------------------------------
(* The tiers. *)

(* A step that leaves the matching keeps it as it is. *)
LEMMA IdleKeeps ==
  ASSUME IInv, UNCHANGED <<graphs, matching>>
  PROVE  MapsAreTotal' /\ GraphsAreOfIds' /\ MatchingIsOneToOne' /\ Stands
<1>1. before' = before /\ after' = after /\ byBefore' = byBefore /\ byAfter' = byAfter
  BY DEF graphs, matching
<1>. QED
  BY <1>1 DEF IInv, MapsAreTotal, GraphsAreOfIds, MatchingIsOneToOne, Stands, NodesOf

(* match.ts:193-198 — an id on both sides is its own match. *)
LEMMA ExactKeeps ==
  ASSUME IInv, Exact
  PROVE  MapsAreTotal' /\ MatchingIsOneToOne' /\ Stands
<1>. DEFINE exact == [n \in Ids |-> IF SameNode(n) THEN Pairing(n, n, "exact", FullScore) ELSE None]
<1>1. byBefore' = exact /\ byAfter' = exact /\ before' = before /\ after' = after
  BY DEF Exact, graphs
<1>2. MapsAreTotal'
  BY <1>1 DEF MapsAreTotal
<1>3. ASSUME NEW n \in Ids, exact[n] # None
      PROVE  /\ exact[n].before = n /\ exact[n].after = n
             /\ n \in NodesOf(before) /\ n \in NodesOf(after)
             /\ before.nodes[n].kind = after.nodes[n].kind
  BY <1>3 DEF SameNode, Pairing
<1>4. MatchingIsOneToOne'
  BY <1>1, <1>3 DEF MatchingIsOneToOne, NodesOf
<1>5. Stands
  BY DEF IInv, FreshAtFirst, Exact, Stands
<1>. QED
  BY <1>2, <1>4, <1>5

(* match.ts:229-266 — a body match is of two functions nobody has claimed. *)
LEMMA TakeKeeps ==
  ASSUME IInv, Take \/ TakeLone
  PROVE  MapsAreTotal' /\ MatchingIsOneToOne' /\ Stands
<1>1. CASE UNCHANGED matching
  <2>1. UNCHANGED graphs
    BY DEF Take, TakeLone
  <2>. QED
    BY <1>1, <2>1, IdleKeeps
<1>2. CASE ~ UNCHANGED matching
  <2>1. PICK b \in left, a \in right :
          Pair(b, a, "body", 1140) /\ byBefore[b] = None /\ byAfter[a] = None
    <3>1. CASE Take
      BY <1>2, <3>1 DEF Take, Visited, CandidatesFor, IInv, BucketOfFunctions
    <3>2. CASE TakeLone
      BY <1>2, <3>2 DEF TakeLone
    <3>. QED
      BY <3>1, <3>2
  <2>2. /\ b \in NodesOf(before) /\ a \in NodesOf(after)
        /\ before.nodes[b].kind = after.nodes[a].kind
    BY DEF IInv, BucketOfFunctions, FunctionsAmong
  <2>3. UNCHANGED graphs
    BY DEF Take, TakeLone
  <2>. QED
    BY <2>1, <2>2, <2>3, PairKeeps DEF IInv
<1>. QED
  BY <1>1, <1>2

(* match.ts:299-334 — uniqueness on both sides makes the pairs of tier 3 one  *)
(* to one although they are all made at once.                                *)
LEMMA OnlyPairIsOnly ==
  ASSUME NEW b, NEW a, OnlyPair(b, a)
  PROVE  /\ \A c : OnlyPair(b, c) => c = a
         /\ \A c : OnlyPair(c, a) => c = b
         /\ before.nodes[b].kind = after.nodes[a].kind
<1>1. {n \in UnmatchedAfter : RightKey(n) = LeftKey(b)} = {a}
      /\ {n \in UnmatchedBefore : LeftKey(n) = LeftKey(b)} = {b}
      /\ a \in UnmatchedAfter /\ b \in UnmatchedBefore
  BY DEF OnlyPair
<1>2. RightKey(a) = LeftKey(b)
  BY <1>1
<1>3. ASSUME NEW c, OnlyPair(b, c) PROVE c = a
  BY <1>1, <1>3 DEF OnlyPair
<1>4. ASSUME NEW c, OnlyPair(c, a) PROVE c = b
  <2>1. {n \in UnmatchedAfter : RightKey(n) = LeftKey(c)} = {a} /\ c \in UnmatchedBefore
    BY <1>4 DEF OnlyPair
  <2>2. RightKey(a) = LeftKey(c)
    BY <1>1, <2>1
  <2>. QED
    BY <1>1, <1>2, <2>1, <2>2
<1>5. before.nodes[b].kind = after.nodes[a].kind
  BY <1>2 DEF LeftKey, RightKey
<1>. QED
  BY <1>3, <1>4, <1>5

(* match.ts:277-314 — the pairs of tier 3, all made at once, are of nodes that *)
(* are free, and no two of them share an end.                                *)
LEMMA SignatureKeeps ==
  ASSUME IInv, Signature
  PROVE  MapsAreTotal' /\ MatchingIsOneToOne' /\ Stands
<1>. DEFINE m(b, a) == Pairing(b, a, "signature", 960)
<1>1. /\ \A b \in Ids : byBefore'[b] = IF \E a \in Ids : OnlyPair(b, a)
                                       THEN m(b, CHOOSE a \in Ids : OnlyPair(b, a))
                                       ELSE byBefore[b]
      /\ \A a \in Ids : byAfter'[a] = IF \E b \in Ids : OnlyPair(b, a)
                                      THEN m(CHOOSE b \in Ids : OnlyPair(b, a), a)
                                      ELSE byAfter[a]
      /\ before' = before /\ after' = after
  BY DEF Signature, graphs
<1>2. MapsAreTotal'
  BY DEF Signature, MapsAreTotal
<1>3. ASSUME NEW b \in Ids, NEW a \in Ids, OnlyPair(b, a)
      PROVE  /\ byBefore'[b] = m(b, a) /\ byAfter'[a] = m(b, a)
             /\ byBefore[b] = None /\ byAfter[a] = None
             /\ b \in NodesOf(before) /\ a \in NodesOf(after)
             /\ before.nodes[b].kind = after.nodes[a].kind
  <2>1. (CHOOSE c \in Ids : OnlyPair(b, c)) = a
    BY <1>3, OnlyPairIsOnly
  <2>2. (CHOOSE c \in Ids : OnlyPair(c, a)) = b
    BY <1>3, OnlyPairIsOnly
  <2>3. before.nodes[b].kind = after.nodes[a].kind
    BY <1>3, OnlyPairIsOnly
  <2>. QED
    BY <1>1, <1>3, <2>1, <2>2, <2>3 DEF OnlyPair, UnmatchedBefore, UnmatchedAfter
<1>4. ASSUME NEW n \in Ids, byBefore'[n] # None
      PROVE  /\ byBefore'[n].before = n /\ byAfter'[byBefore'[n].after] = byBefore'[n]
             /\ n \in NodesOf(before) /\ byBefore'[n].after \in NodesOf(after)
             /\ before.nodes[n].kind = after.nodes[byBefore'[n].after].kind
  <2>1. CASE \E a \in Ids : OnlyPair(n, a)
    <3>1. PICK a \in Ids : OnlyPair(n, a)
      BY <2>1
    <3>2. m(n, a).before = n /\ m(n, a).after = a
      BY DEF Pairing
    <3>. HIDE DEF m
    <3>3. byBefore'[n] = m(n, a) /\ byAfter'[a] = m(n, a)
      BY <1>3, <3>1
    <3>4. /\ n \in NodesOf(before) /\ a \in NodesOf(after)
          /\ before.nodes[n].kind = after.nodes[a].kind
      BY <1>3, <3>1
    <3>. QED
      BY <3>2, <3>3, <3>4
  <2>2. CASE ~ \E a \in Ids : OnlyPair(n, a)
    <3>1. byBefore'[n] = byBefore[n]
      BY <1>1, <2>2
    <3>2. /\ byBefore[n].before = n /\ byAfter[byBefore[n].after] = byBefore[n]
          /\ n \in NodesOf(before) /\ byBefore[n].after \in NodesOf(after)
          /\ before.nodes[n].kind = after.nodes[byBefore[n].after].kind
      BY <1>4, <3>1 DEF IInv, MatchingIsOneToOne
    <3>3. byAfter'[byBefore[n].after] = byAfter[byBefore[n].after]
      <4>1. byBefore[n].after \in Ids
        BY <3>2 DEF IInv, GraphsAreOfIds
      <4>2. ~ \E b \in Ids : OnlyPair(b, byBefore[n].after)
        BY <1>3, <1>4, <3>1, <3>2, <4>1
      <4>. QED
        BY <1>1, <4>1, <4>2
    <3>. QED
      BY <3>1, <3>2, <3>3
  <2>. QED
    BY <2>1, <2>2
<1>5. ASSUME NEW n \in Ids, byAfter'[n] # None
      PROVE  /\ byAfter'[n].after = n /\ byAfter'[n].before \in NodesOf(before)
             /\ byBefore'[byAfter'[n].before] = byAfter'[n]
  <2>1. CASE \E b \in Ids : OnlyPair(b, n)
    <3>1. PICK b \in Ids : OnlyPair(b, n)
      BY <2>1
    <3>2. m(b, n).before = b /\ m(b, n).after = n
      BY DEF Pairing
    <3>. HIDE DEF m
    <3>3. byBefore'[b] = m(b, n) /\ byAfter'[n] = m(b, n) /\ b \in NodesOf(before)
      BY <1>3, <3>1
    <3>. QED
      BY <3>2, <3>3
  <2>2. CASE ~ \E b \in Ids : OnlyPair(b, n)
    <3>1. byAfter'[n] = byAfter[n]
      BY <1>1, <2>2
    <3>2. /\ byAfter[n].after = n /\ byAfter[n].before \in NodesOf(before)
          /\ byBefore[byAfter[n].before] = byAfter[n]
      BY <1>5, <3>1 DEF IInv, MatchingIsOneToOne
    <3>3. byBefore'[byAfter[n].before] = byBefore[byAfter[n].before]
      <4>1. byAfter[n].before \in Ids
        BY <3>2 DEF IInv, GraphsAreOfIds
      <4>2. ~ \E a \in Ids : OnlyPair(byAfter[n].before, a)
        BY <1>3, <1>5, <3>1, <3>2, <4>1
      <4>. QED
        BY <1>1, <4>1, <4>2
    <3>. QED
      BY <3>1, <3>2, <3>3
  <2>. QED
    BY <2>1, <2>2
<1>6. MatchingIsOneToOne'
  BY <1>1, <1>4, <1>5 DEF MatchingIsOneToOne, NodesOf
<1>7. Stands
  BY <1>1, <1>3 DEF Stands
<1>. QED
  BY <1>2, <1>6, <1>7

(* match.ts:369-379 — a candidate is taken only while both its ends are free. *)
LEMMA BestKeeps ==
  ASSUME IInv, TakeBest
  PROVE  MapsAreTotal' /\ MatchingIsOneToOne' /\ Stands
<1>1. UNCHANGED graphs
  BY DEF TakeBest
<1>2. CASE UNCHANGED matching
  BY <1>1, <1>2, IdleKeeps
<1>3. ASSUME NEW c \in candidates, Free(c), Pair(c.before, c.after, "fuzzy", c.score)
      PROVE  MapsAreTotal' /\ MatchingIsOneToOne' /\ Stands
  <2>1. /\ c.before \in NodesOf(before) /\ c.after \in NodesOf(after)
        /\ before.nodes[c.before].kind = after.nodes[c.after].kind
    BY <1>3 DEF IInv, CandidatesAreFunctions, FunctionsAmong
  <2>. QED
    BY <1>1, <1>3, <2>1, PairKeeps DEF IInv, Free
<1>. QED
  BY <1>2, <1>3 DEF TakeBest

-----------------------------------------------------------------------------
(* The bucket, the candidates and the first tier. *)

(* match.ts:206-227, 316-362 — the ids of a bucket, and the ends of a         *)
(* candidate, are functions of their revisions.                              *)
LEMMA OnlyFunctionsAreTried ==
  ASSUME IInv, MatchNext
  PROVE  BucketOfFunctions' /\ CandidatesAreFunctions'
<1>1. before' = before /\ after' = after
  BY DEF MatchNext, Exact, TakeBucket, Take, TakeEnds, TakeLone, BucketsEnd, Signature, Weigh,
         TakeBest, graphs
<1>2. BucketOfFunctions /\ CandidatesAreFunctions
  BY DEF IInv
<1>. USE DEF BucketOfFunctions, CandidatesAreFunctions, FunctionsAmong, NodesOf
<1>3. CASE Exact \/ TakeLone \/ Signature \/ TakeBest
  BY <1>1, <1>2, <1>3 DEF Exact, TakeLone, Signature, TakeBest, bucket
<1>4. ASSUME NEW h, TakeBucket(h)
      PROVE  BucketOfFunctions' /\ CandidatesAreFunctions'
  <2>1. BucketOfFunctions'
    BY <1>1, <1>4 DEF TakeBucket, UnmatchedBefore, UnmatchedAfter, HasHash
  <2>2. CandidatesAreFunctions'
    BY <1>1, <1>2, <1>4 DEF TakeBucket
  <2>. QED
    BY <2>1, <2>2
<1>5. CASE Take \/ TakeEnds \/ BucketsEnd
  BY <1>1, <1>2, <1>5 DEF Take, TakeEnds, BucketsEnd
<1>6. CASE Weigh
  <2>1. BucketOfFunctions'
    BY <1>1, <1>2, <1>6 DEF Weigh, bucket
  <2>2. ASSUME NEW c \in candidates'
        PROVE  /\ c = Pairing(c.before, c.after, "fuzzy", c.score)
               /\ FunctionsAmong(before, {c.before}) /\ FunctionsAmong(after, {c.after})
    <3>1. PICK b \in UnmatchedBefore, a \in UnmatchedAfter :
            Comparable(b, a) /\ c = Pairing(b, a, "fuzzy", Score(b, a))
      BY <1>6, <2>2 DEF Weigh
    <3>2. c.before = b /\ c.after = a /\ c.score = Score(b, a)
      BY <3>1 DEF Pairing
    <3>. QED
      BY <3>1, <3>2 DEF Comparable, UnmatchedBefore, UnmatchedAfter
  <2>3. CandidatesAreFunctions'
    BY <1>1, <2>2
  <2>. QED
    BY <2>1, <2>3
<1>. QED
  BY <1>3, <1>4, <1>5, <1>6 DEF MatchNext

(* Every step of the matching keeps it one to one and takes nothing back. *)
LEMMA MatchingKeeps ==
  ASSUME IInv, MatchNext
  PROVE  IInv' /\ Stands
<1>1. before' = before /\ after' = after
  BY DEF MatchNext, Exact, TakeBucket, Take, TakeEnds, TakeLone, BucketsEnd, Signature, Weigh,
         TakeBest, graphs
<1>2. GraphsAreOfIds'
  BY <1>1 DEF IInv, GraphsAreOfIds, NodesOf
<1>3. FreshAtFirst'
  BY DEF FreshAtFirst, MatchNext, Exact, TakeBucket, Take, TakeEnds, TakeLone, BucketsEnd,
         Signature, Weigh, TakeBest
<1>4. MapsAreTotal' /\ MatchingIsOneToOne' /\ Stands
  <2>1. CASE Exact
    BY <2>1, ExactKeeps
  <2>2. CASE Take \/ TakeLone
    BY <2>2, TakeKeeps
  <2>3. CASE Signature
    BY <2>3, SignatureKeeps
  <2>4. CASE TakeBest
    BY <2>4, BestKeeps
  <2>5. CASE (\E h \in hashes : TakeBucket(h)) \/ TakeEnds \/ BucketsEnd \/ Weigh
    <3>1. UNCHANGED <<graphs, matching>>
      BY <2>5 DEF TakeBucket, TakeEnds, BucketsEnd, Weigh
    <3>. QED
      BY <3>1, IdleKeeps
  <2>. QED
    BY <2>1, <2>2, <2>3, <2>4, <2>5 DEF MatchNext
<1>. QED
  BY <1>2, <1>3, <1>4, OnlyFunctionsAreTried DEF IInv

(* Classifying and deriving read the matching only. *)
LEMMA ReadersKeep ==
  ASSUME IInv, Classify \/ Derive \/ UNCHANGED diffVars
  PROVE  IInv' /\ Stands
<1>1. UNCHANGED <<graphs, matching, bucket, candidates>>
  BY DEF Classify, Derive, diffVars, vars
<1>2. MapsAreTotal' /\ GraphsAreOfIds' /\ MatchingIsOneToOne' /\ Stands
  BY <1>1, IdleKeeps
<1>3. BucketOfFunctions' /\ CandidatesAreFunctions'
  BY <1>1 DEF IInv, BucketOfFunctions, CandidatesAreFunctions, FunctionsAmong, NodesOf, graphs,
              bucket
<1>4. FreshAtFirst'
  BY DEF IInv, FreshAtFirst, Classify, Derive, diffVars, vars, matching
<1>. QED
  BY <1>2, <1>3, <1>4 DEF IInv

-----------------------------------------------------------------------------
(* Scores. *)

(* The revisions are those of one of the inputs. *)
FromInputs == \E i \in Inputs : before = i.before /\ after = i.after

LEMMA RevisionsAreGraphs ==
  ASSUME FromInputs
  PROVE  \A graph \in {before, after} :
           /\ NodesOf(graph) \subseteq Ids /\ IsFiniteSet(graph.edges) /\ None \notin graph.edges
           /\ \A n \in NodesOf(graph) :
                /\ graph.nodes[n].name \in Names
                /\ graph.nodes[n].kind = "Function" /\ graph.nodes[n].entry
                     => graph.nodes[n].reachable
           /\ \A e, f \in graph.edges :
                /\ e.from \in NodesOf(graph) /\ e.to \in NodesOf(graph)
                /\ <<e.kind, e.subkind, e.from, e.to>> = <<f.kind, f.subkind, f.from, f.to>> => e = f
BY MatchAssumption DEF FromInputs, NodesOf

(* A share of 360 parts. *)
LEMMA ShareOf360 ==
  ASSUME NEW p \in Nat, NEW q \in Nat, q > 0, p <= q
  PROVE  (360 * p) \div q \in 0..360
<1>1. PICK d \in Int : d = (360 * p) \div q
  OBVIOUS
<1>2. q * d <= 360 * p /\ 360 * p < q * (d + 1)
  BY <1>1
<1>3. d >= 0
  BY <1>2
<1>4. d <= 360
  BY <1>2
<1> QED
  BY <1>1, <1>3, <1>4

(* The image of a finite set. *)
LEMMA FiniteNeighbours ==
  ASSUME NEW graph, NEW n, IsFiniteSet(graph.edges)
  PROVE  IsFiniteSet(Neighbours(graph, n))
<1> DEFINE linked == {e \in graph.edges : e.kind # "declares" /\ n \in {e.from, e.to}}
           ends == {IF e.from = n THEN e.to ELSE e.from : e \in linked}
           f == [e \in linked |-> IF e.from = n THEN e.to ELSE e.from]
<1>1. IsFiniteSet(linked)
  BY FS_Subset
<1>2. f \in Surjection(linked, ends)
  BY DEF Surjection
<1>3. IsFiniteSet(ends)
  BY <1>1, <1>2, FS_Surjection
<1>4. Neighbours(graph, n) \in SUBSET ends
  BY DEF Neighbours
<1> QED
  BY <1>3, <1>4, FS_Subset

(* match.ts:153-160, 316-347 — likeness is a share: no candidate scores more *)
(* than the whole, whatever the two neighbourhoods.                          *)
LEMMA NeighbourShare ==
  ASSUME FromInputs, NEW b, NEW a
  PROVE  NeighbourScore(b, a) \in 0..360
<1> DEFINE ours == Neighbours(before, b)
           far == Neighbours(after, a)
           theirs == {ProjectBack(n) : n \in far}
           f == [n \in far |-> ProjectBack(n)]
<1>1. IsFiniteSet(ours) /\ IsFiniteSet(far)
  BY RevisionsAreGraphs, FiniteNeighbours
<1>2. f \in Surjection(far, theirs)
  BY DEF Surjection
<1> HIDE DEF ours, far
<1>3. IsFiniteSet(theirs)
  BY <1>1, <1>2, FS_Surjection
<1> HIDE DEF theirs
<1>4. IsFiniteSet(ours \cup theirs)
  BY <1>1, <1>3, FS_Union
<1>5. /\ Cardinality(ours \cap theirs) \in Nat /\ Cardinality(ours \cup theirs) \in Nat
      /\ Cardinality(ours \cap theirs) <= Cardinality(ours \cup theirs)
  <2>1. ours \cap theirs \in SUBSET (ours \cup theirs)
    OBVIOUS
  <2> QED
    BY <1>4, <2>1, FS_Subset, FS_CardinalityType
<1>6. CASE ours \cup theirs = {}
  BY <1>6 DEF NeighbourScore, ours, theirs, far
<1>7. CASE ours \cup theirs # {}
  <2>1. Cardinality(ours \cup theirs) > 0
    BY <1>4, <1>5, <1>7, FS_EmptySet
  <2>2. (360 * Cardinality(ours \cap theirs)) \div Cardinality(ours \cup theirs) \in 0..360
    BY <1>5, <2>1, ShareOf360
  <2>3. NeighbourScore(b, a)
          = (360 * Cardinality(ours \cap theirs)) \div Cardinality(ours \cup theirs)
    BY <1>7 DEF NeighbourScore, ours, theirs, far
  <2> QED
    BY <2>2, <2>3
<1> QED
  BY <1>6, <1>7

LEMMA ScoreIsAShare ==
  ASSUME FromInputs, NEW b \in NodesOf(before), NEW a \in NodesOf(after)
  PROVE  Score(b, a) \in 0..FullScore
<1>1. SignatureScore(b, a) \in 0..480
  <2> DEFINE m == before.nodes[b]
             n == after.nodes[a]
             x == IF m.params = n.params THEN 240 ELSE 0
             y == IF m.returns = n.returns THEN 120 ELSE 0
             z == IF m.mutability = n.mutability THEN 120 ELSE 0
  <2>1. SignatureScore(b, a) = x + y + z
    BY DEF SignatureScore
  <2>2. x \in {0, 240} /\ y \in {0, 120} /\ z \in {0, 120}
    OBVIOUS
  <2> HIDE DEF x, y, z
  <2> QED
    BY <2>1, <2>2
<1>2. before.nodes[b].name \in Names /\ after.nodes[a].name \in Names
  BY RevisionsAreGraphs
<1>3. Likeness[<<before.nodes[b].name, after.nodes[a].name>>] \in 0..10
  BY <1>2, MatchAssumption
<1>4. NeighbourScore(b, a) \in 0..360
  BY NeighbourShare
<1>5. PICK s \in 0..480 : s = SignatureScore(b, a)
  BY <1>1
<1>6. PICK l \in 0..10 : l = Likeness[<<before.nodes[b].name, after.nodes[a].name>>]
  BY <1>3
<1>7. PICK n \in 0..360 : n = NeighbourScore(b, a)
  BY <1>4
<1>8. s + 36 * l + n \in 0..1200
  OBVIOUS
<1> QED
  BY <1>5, <1>6, <1>7, <1>8 DEF Score, FullScore

-----------------------------------------------------------------------------
(* The last tier. *)

Scored == \A c \in candidates : c.score \in 0..FullScore

(* One of the ends of c is in a match at least as likely. *)
Lost(c) == \E m \in {byBefore[c.before], byAfter[c.after]} \ {None} : m.score >= c.score

Beaten ==
  /\ phase \in {"greedy", "matched"} => \A c \in candidates : Free(c) \/ Lost(c)
  /\ phase = "matched" => \A c \in candidates : ~ Free(c)

FuzzyInv == FromInputs /\ Scored /\ Beaten

(* The graphs are the inputs' all along, and candidates are made once. *)
LEMMA InputsStand ==
  ASSUME [DiffNext]_diffVars
  PROVE  before' = before /\ after' = after
BY DEF DiffNext, MatchNext, Exact, TakeBucket, Take, TakeEnds, TakeLone, BucketsEnd, Signature,
       Weigh, TakeBest, Classify, Derive, diffVars, vars, graphs

LEMMA CandidatesStand ==
  ASSUME [DiffNext]_diffVars
  PROVE  Weigh \/ candidates' = candidates
BY DEF DiffNext, MatchNext, Exact, TakeBucket, Take, TakeEnds, TakeLone, BucketsEnd, Signature,
       TakeBest, Classify, Derive, diffVars, vars

(* The last tier is entered by weighing and left when nobody is free. *)
LEMMA LastTier ==
  ASSUME [DiffNext]_diffVars
  PROVE  \/ Weigh
         \/ TakeBest
         \/ phase' \notin {"greedy", "matched"}
         \/ phase' = phase /\ UNCHANGED matching
BY DEF DiffNext, MatchNext, Exact, TakeBucket, Take, TakeEnds, TakeLone, BucketsEnd, Signature,
       Classify, Derive, diffVars, vars

(* What beat a candidate beats it for good. *)
LEMMA LostForGood ==
  ASSUME IInv, Stands, NEW c \in candidates, Lost(c)
  PROVE  Lost(c)'
<1>1. c.before \in Ids /\ c.after \in Ids
  BY DEF IInv, CandidatesAreFunctions, FunctionsAmong, GraphsAreOfIds
<1> QED
  BY <1>1 DEF Lost, Stands

(* match.ts:316-362 — a candidate is a pair nobody has claimed, with a share *)
(* for a score.                                                              *)
LEMMA WeighFinds ==
  ASSUME IInv, FromInputs, Weigh
  PROVE  Scored' /\ Beaten'
<1>1. ASSUME NEW c \in candidates'
      PROVE  c.score \in 0..FullScore /\ byBefore[c.before] = None /\ byAfter[c.after] = None
  <2>1. PICK b \in UnmatchedBefore, a \in UnmatchedAfter :
          c = Pairing(b, a, "fuzzy", Score(b, a))
    BY DEF Weigh
  <2>2. c.before = b /\ c.after = a /\ c.score = Score(b, a)
    BY <2>1 DEF Pairing
  <2>3. b \in NodesOf(before) /\ a \in NodesOf(after) /\ byBefore[b] = None /\ byAfter[a] = None
    BY DEF UnmatchedBefore, UnmatchedAfter
  <2> QED
    BY <2>2, <2>3, ScoreIsAShare
<1>2. byBefore' = byBefore /\ byAfter' = byAfter /\ phase' = "greedy"
  BY DEF Weigh, matching
<1> QED
  BY <1>1, <1>2 DEF Scored, Beaten, Free

(* match.ts:364-368 — the order of the candidates is by score first. *)
LEMMA BestIsLikeliest ==
  ASSUME Scored, NEW c \in candidates, NEW d \in candidates, Precedes(c, d)
  PROVE  c.score >= d.score
<1>1. PICK x \in 0..FullScore : x = c.score
  BY Zenon DEF Scored
<1>2. PICK y \in 0..FullScore : y = d.score
  BY Zenon DEF Scored
<1>3. x > y \/ x = y
  BY <1>1, <1>2 DEF Precedes
<1>4. x >= y
  BY <1>3 DEF FullScore
<1> QED
  BY <1>1, <1>2, <1>4

(* match.ts:364-379 — the best of the free is taken: whoever it takes an end *)
(* from is no likelier.                                                      *)
LEMMA BestBeats ==
  ASSUME IInv, FuzzyInv, TakeBest, Stands
  PROVE  Beaten'
<1>1. candidates' = candidates /\ phase = "greedy"
  BY DEF TakeBest
<1>2. CASE ~ \E c \in candidates : Free(c)
  <2>1. phase' = "matched" /\ byBefore' = byBefore /\ byAfter' = byAfter
    BY <1>2 DEF TakeBest, matching
  <2> QED
    BY <1>1, <1>2, <2>1 DEF FuzzyInv, Beaten, Lost, Free
<1>3. CASE \E c \in candidates : Free(c)
  <2>1. PICK c \in candidates :
          /\ Free(c) /\ \A d \in {e \in candidates : Free(e)} : Precedes(c, d)
          /\ Pair(c.before, c.after, "fuzzy", c.score) /\ phase' = "greedy"
    BY <1>1, <1>3 DEF TakeBest
  <2> DEFINE m == Pairing(c.before, c.after, "fuzzy", c.score)
  <2>2. c.before \in Ids /\ c.after \in Ids /\ m.score = c.score /\ m # None
    <3>1. c.before \in Ids /\ c.after \in Ids
      BY DEF IInv, CandidatesAreFunctions, FunctionsAmong, GraphsAreOfIds
    <3>2. m \in Match
      BY <3>1 DEF Pairing, Match, Tiers, FuzzyInv, Scored
    <3> QED
      BY <3>1, <3>2, MatchAssumption DEF Pairing, Match, Tiers, FullScore
  <2>3. /\ byBefore'[c.before] = m /\ \A n \in Ids \ {c.before} : byBefore'[n] = byBefore[n]
        /\ byAfter'[c.after] = m /\ \A n \in Ids \ {c.after} : byAfter'[n] = byAfter[n]
    BY <2>1, <2>2 DEF Pair, IInv, MapsAreTotal
  <2>4. ASSUME NEW d \in candidates PROVE Free(d)' \/ Lost(d)'
    <3>1. CASE ~ Free(d)
      <4>1. Lost(d)
        BY <1>1, <3>1 DEF FuzzyInv, Beaten
      <4> QED
        BY <4>1, LostForGood
    <3>2. CASE Free(d)
      <4>1. Precedes(c, d)
        BY <2>1, <3>2
      <4>2. c.score >= d.score
        BY <4>1, BestIsLikeliest DEF FuzzyInv
      <4>3. d.before \in Ids /\ d.after \in Ids
        BY DEF IInv, CandidatesAreFunctions, FunctionsAmong, GraphsAreOfIds
      <4>4. CASE d.before = c.before \/ d.after = c.after
        BY <2>2, <2>3, <4>2, <4>4 DEF Lost
      <4>5. CASE d.before # c.before /\ d.after # c.after
        BY <2>3, <3>2, <4>3, <4>5 DEF Free
      <4> QED
        BY <4>4, <4>5
    <3> QED
      BY <3>1, <3>2
  <2> QED
    BY <1>1, <2>1, <2>4 DEF Beaten
<1> QED
  BY <1>2, <1>3

(* Every step of a diff keeps it. *)
LEMMA FuzzyStep ==
  ASSUME IInv, FuzzyInv, [DiffNext]_diffVars, Stands
  PROVE  FuzzyInv'
<1>1. FromInputs'
  BY InputsStand DEF FuzzyInv, FromInputs
<1>2. CASE Weigh
  BY <1>1, <1>2, WeighFinds DEF FuzzyInv
<1>3. CASE ~ Weigh
  <2>1. candidates' = candidates
    BY <1>3, CandidatesStand
  <2>2. Scored'
    BY <2>1 DEF FuzzyInv, Scored
  <2>3. Beaten'
    <3>1. CASE TakeBest
      BY <3>1, BestBeats
    <3>2. CASE phase' \notin {"greedy", "matched"}
      BY <3>2 DEF Beaten
    <3>3. CASE phase' = phase /\ UNCHANGED matching
      BY <2>1, <3>3 DEF FuzzyInv, Beaten, Free, Lost, matching
    <3> QED
      BY <1>3, <3>1, <3>2, <3>3, LastTier
  <2> QED
    BY <1>1, <2>2, <2>3 DEF FuzzyInv
<1> QED
  BY <1>2, <1>3

-----------------------------------------------------------------------------
(* What is reported. *)

(* An id that both revisions give to one kind of node is its own match. *)
ExactTaken ==
  phase # "exact" => \A n \in Ids : SameNode(n) => byBefore[n] # None /\ byAfter[n] # None

(* What a map by key keeps of the after edges. *)
Keeps(kept) == kept \subseteq after.edges /\ OneOfEachKey(kept)

Reported ==
  /\ phase \in {"classified", "done"} =>
       nodes = NodeChanges /\ \E kept : Keeps(kept) /\ edges = EdgeChanges(kept)
  /\ phase = "done" => findings = Derived

ReportInv == FromInputs /\ ExactTaken /\ Reported

LEMMA MatchIsNotNone ==
  ASSUME NEW m \in Match
  PROVE  m # None
<1>1. None \notin [before : Ids, after : Ids, tier : {"exact", "body", "signature", "fuzzy"},
                  score : 0..1200]
  BY MatchAssumption
<1>2. None \notin Match
  BY <1>1 DEF Match, Tiers, FullScore
<1> QED
  BY <1>2

(* match.ts:193-198 — and is taken at once. *)
LEMMA ExactTakes ==
  ASSUME IInv, ExactTaken, [DiffNext]_diffVars, Stands
  PROVE  ExactTaken'
<1>1. before' = before /\ after' = after
  BY InputsStand
<1>2. \A n : SameNode(n)' = SameNode(n)
  BY <1>1 DEF SameNode, NodesOf
<1>3. CASE Exact
  <2>1. ASSUME NEW n \in Ids, SameNode(n) PROVE byBefore'[n] # None /\ byAfter'[n] # None
    <3>1. byBefore'[n] = Pairing(n, n, "exact", FullScore) /\ byAfter'[n] = byBefore'[n]
      BY <1>3, <2>1 DEF Exact
    <3>2. Pairing(n, n, "exact", FullScore) \in Match
      BY DEF Pairing, Match, Tiers, FullScore
    <3>3. Pairing(n, n, "exact", FullScore) # None
      BY <3>2, MatchIsNotNone
    <3> QED
      BY <3>1, <3>3
  <2> QED
    BY <1>2, <2>1 DEF ExactTaken
<1>4. CASE ~ Exact
  <2>1. phase' # "exact" => phase # "exact"
    BY <1>4 DEF DiffNext, MatchNext, TakeBucket, Take, TakeEnds, TakeLone, BucketsEnd, Signature,
                Weigh, TakeBest, Classify, Derive, diffVars, vars
  <2> QED
    BY <1>2, <2>1 DEF ExactTaken, Stands
<1> QED
  BY <1>3, <1>4

(* What is said of the nodes and edges is read off the graphs and the        *)
(* matching, which stand.                                                    *)
LEMMA ReadingsStand ==
  ASSUME UNCHANGED <<graphs, matching>>
  PROVE  /\ NodeChanges' = NodeChanges
         /\ \A kept : Keeps(kept)' = Keeps(kept) /\ EdgeChanges(kept)' = EdgeChanges(kept)
<1>1. before' = before /\ after' = after /\ byBefore' = byBefore /\ byAfter' = byAfter
  BY DEF graphs, matching
<1>2. NodeChanges' = NodeChanges
  BY <1>1 DEF NodeChanges, UnmatchedBefore, UnmatchedAfter, NodesOf, Status, Differing
<1>3. \A e : KeyAfter(e)' = KeyAfter(e)
  BY <1>1 DEF KeyAfter, ProjectBack
<1>4. \A kept : Keeps(kept)' = Keeps(kept)
  BY <1>1, <1>3 DEF Keeps, OneOfEachKey
<1>5. \A kept : EdgeChanges(kept)' = EdgeChanges(kept)
  BY <1>1, <1>3 DEF EdgeChanges
<1> QED
  BY <1>2, <1>4, <1>5

LEMMA DerivedStands ==
  ASSUME UNCHANGED <<graphs, matching, nodes, edges>>
  PROVE  Derived' = Derived
<1>1. /\ before' = before /\ after' = after /\ byAfter' = byAfter
      /\ nodes' = nodes /\ edges' = edges
  BY DEF graphs, matching
<1>2. ExternalBefore' = ExternalBefore /\ ExternalAfter' = ExternalAfter
  BY <1>1 DEF ExternalBefore, ExternalAfter, ProjectBack
<1>3. \A c : OfAdded(c)' = OfAdded(c) /\ OfMatched(c)' = OfMatched(c)
  BY <1>1, <1>2 DEF OfAdded, OfMatched
<1> QED
  BY <1>1, <1>3 DEF Derived

(* Every step of a diff keeps what is known of the report. *)
LEMMA ReportStep ==
  ASSUME IInv, ReportInv, [DiffNext]_diffVars, Stands
  PROVE  ReportInv'
<1>1. FromInputs' /\ ExactTaken'
  BY InputsStand, ExactTakes DEF ReportInv, FromInputs
<1>2. CASE Classify
  <2>1. /\ phase' = "classified" /\ UNCHANGED <<graphs, matching>> /\ nodes' = NodeChanges
        /\ \E kept : Keeps(kept) /\ edges' = EdgeChanges(kept)
    BY <1>2 DEF Classify, Keeps
  <2> QED
    BY <1>1, <2>1, ReadingsStand DEF ReportInv, Reported
<1>3. CASE Derive
  <2>1. /\ phase = "classified" /\ phase' = "done" /\ UNCHANGED <<graphs, matching, nodes, edges>>
        /\ findings' = Derived
    BY <1>3 DEF Derive
  <2> QED
    BY <1>1, <2>1, ReadingsStand, DerivedStands DEF ReportInv, Reported
<1>4. CASE MatchNext
  <2>1. phase' \notin {"classified", "done"}
    BY <1>4 DEF MatchNext, Exact, TakeBucket, Take, TakeEnds, TakeLone, BucketsEnd, Signature,
                Weigh, TakeBest
  <2> QED
    BY <1>1, <2>1 DEF ReportInv, Reported
<1>5. CASE UNCHANGED diffVars
  <2>1. UNCHANGED <<graphs, matching, nodes, edges>> /\ phase' = phase /\ findings' = findings
    BY <1>5 DEF diffVars, vars, diff
  <2> QED
    BY <1>1, <2>1, ReadingsStand, DerivedStands DEF ReportInv, Reported
<1> QED
  BY <1>2, <1>3, <1>4, <1>5 DEF DiffNext

-----------------------------------------------------------------------------
(* Edges. *)

(* ids.ts:8-25 — an id says of what kind its node is. *)
IdsTellKindsApart ==
  \A i \in Inputs : \A n \in DOMAIN i.before.nodes \cap DOMAIN i.after.nodes :
    i.before.nodes[n].kind = i.after.nodes[n].kind

(* classify.ts:250 — no two after nodes have one name in before-space: an    *)
(* after node that keeps its id there has no before node of that id.         *)
LEMMA ProjectBackIsInjective ==
  ASSUME IdsTellKindsApart, IInv, ReportInv, phase # "exact",
         NEW x \in NodesOf(after), NEW y \in NodesOf(after), ProjectBack(x) = ProjectBack(y)
  PROVE  x = y
<1>1. x \in Ids /\ y \in Ids /\ x # None /\ y # None
  BY MatchAssumption DEF IInv, GraphsAreOfIds
<1>2. ASSUME NEW n \in NodesOf(after), NEW o \in NodesOf(after), n \in Ids, o \in Ids,
             byAfter[n] = None, byAfter[o] # None
      PROVE  n # byAfter[o].before
  <2>1. SUFFICES ASSUME n = byAfter[o].before PROVE FALSE
    OBVIOUS
  <2>2. n \in NodesOf(before)
    BY <1>2, <2>1 DEF IInv, MatchingIsOneToOne
  <2>3. SameNode(n)
    BY <2>2 DEF SameNode, ReportInv, FromInputs, IdsTellKindsApart, NodesOf
  <2> QED
    BY <1>2, <2>3 DEF ReportInv, ExactTaken
<1>3. CASE byAfter[x] = None /\ byAfter[y] = None
  BY <1>1, <1>3 DEF ProjectBack
<1>4. CASE byAfter[x] # None /\ byAfter[y] # None
  <2>1. byAfter[x].before = byAfter[y].before
    BY <1>1, <1>4 DEF ProjectBack
  <2>2. byAfter[x] = byAfter[y] /\ byAfter[x].after = x /\ byAfter[y].after = y
    BY <1>1, <1>4, <2>1 DEF IInv, MatchingIsOneToOne
  <2> QED
    BY <2>2
<1>5. CASE byAfter[x] = None /\ byAfter[y] # None
  BY <1>1, <1>2, <1>5 DEF ProjectBack
<1>6. CASE byAfter[x] # None /\ byAfter[y] = None
  BY <1>1, <1>2, <1>6 DEF ProjectBack
<1> QED
  BY <1>3, <1>4, <1>5, <1>6

(* The key of a matched node's edge. *)
LEMMA MatchedKey ==
  ASSUME IInv, NEW b \in Ids, byBefore[b] # None
  PROVE  ProjectBack(byBefore[b].after) = b
<1>1. /\ byBefore[b].before = b /\ byAfter[byBefore[b].after] = byBefore[b]
      /\ byBefore[b].after \in Ids
  BY DEF IInv, MatchingIsOneToOne, GraphsAreOfIds
<1> QED
  BY <1>1, MatchAssumption DEF ProjectBack

(* classify.ts:242-289 — an edge whose ends have counterparts meets the edge *)
(* between them under its key, and no other does.                            *)
LEMMA EdgesMeet ==
  ASSUME IdsTellKindsApart, IInv, ReportInv
  PROVE  EdgesFollowTheirNodes
<1> SUFFICES ASSUME phase = "done", NEW e \in before.edges, NEW f \in after.edges,
                    byBefore[e.from] # None, byBefore[e.from].after = f.from,
                    byBefore[e.to] # None, byBefore[e.to].after = f.to,
                    e.kind = f.kind, e.subkind = f.subkind,
                    NEW c \in edges, c.before = e \/ c.after = f
             PROVE  c.before = e /\ c.after = f
  BY DEF EdgesFollowTheirNodes
<1>1. PICK kept : Keeps(kept) /\ edges = EdgeChanges(kept)
  BY DEF ReportInv, Reported
<1>2. /\ \A g, h \in after.edges : KeyAfter(g) = KeyAfter(h) => g = h
      /\ \A g, h \in before.edges : KeyBefore(g) = KeyBefore(h) => g = h
  <2>1. ASSUME NEW g \in after.edges, NEW h \in after.edges, KeyAfter(g) = KeyAfter(h) PROVE g = h
    <3>1. /\ g.kind = h.kind /\ g.subkind = h.subkind
          /\ ProjectBack(g.from) = ProjectBack(h.from) /\ ProjectBack(g.to) = ProjectBack(h.to)
      BY <2>1 DEF KeyAfter, EdgeKey
    <3>2. /\ g.from \in NodesOf(after) /\ g.to \in NodesOf(after)
          /\ h.from \in NodesOf(after) /\ h.to \in NodesOf(after)
      BY RevisionsAreGraphs DEF ReportInv
    <3>3. g.from = h.from /\ g.to = h.to
      BY <3>1, <3>2, ProjectBackIsInjective
    <3>4. <<g.kind, g.subkind, g.from, g.to>> = <<h.kind, h.subkind, h.from, h.to>>
      BY <3>1, <3>3
    <3> QED
      BY <3>4, RevisionsAreGraphs DEF ReportInv
  <2>2. ASSUME NEW g \in before.edges, NEW h \in before.edges, KeyBefore(g) = KeyBefore(h) PROVE g = h
    BY <2>2, RevisionsAreGraphs DEF ReportInv, KeyBefore, EdgeKey
  <2> QED
    BY <2>1, <2>2
<1>3. KeyBefore(e) = KeyAfter(f)
  <2>1. e.from \in Ids /\ e.to \in Ids
    BY RevisionsAreGraphs DEF ReportInv
  <2>2. ProjectBack(f.from) = e.from /\ ProjectBack(f.to) = e.to
    BY <2>1, MatchedKey
  <2> QED
    BY <2>2 DEF KeyBefore, KeyAfter, EdgeKey
<1>4. kept \subseteq after.edges /\ f \in kept
  BY <1>1, <1>2 DEF Keeps, OneOfEachKey
<1>5. e # None /\ f # None
  BY RevisionsAreGraphs DEF ReportInv
<1>6. \/ \E g \in before.edges, h \in kept :
           KeyBefore(g) = KeyAfter(h) /\ c.before = g /\ c.after = h
      \/ \E g \in before.edges :
           /\ \A h \in kept : KeyAfter(h) # KeyBefore(g)
           /\ c.before = g /\ c.after = None
      \/ \E h \in kept :
           /\ \A g \in before.edges : KeyBefore(g) # KeyAfter(h)
           /\ c.before = None /\ c.after = h
  BY <1>1 DEF EdgeChanges
<1> QED
  BY <1>2, <1>3, <1>4, <1>5, <1>6

-----------------------------------------------------------------------------
(* The surface. *)

(* The record of an after node: with its match, or new. *)
LEMMA AfterIsChanged ==
  ASSUME IInv, NEW a \in NodesOf(after)
  PROVE  IF byAfter[a] = None
         THEN [status |-> "added", before |-> None, after |-> a] \in NodeChanges
         ELSE LET b == byAfter[a].before IN
              /\ b \in NodesOf(before) /\ before.nodes[b].kind = after.nodes[a].kind
              /\ [status |-> Status(b, a), before |-> b, after |-> a] \in NodeChanges
<1>1. a \in Ids
  BY DEF IInv, GraphsAreOfIds
<1>2. CASE byAfter[a] = None
  BY <1>2 DEF NodeChanges, UnmatchedAfter
<1>3. CASE byAfter[a] # None
  <2> DEFINE b == byAfter[a].before
  <2>1. b \in NodesOf(before) /\ b \in Ids /\ byBefore[b] = byAfter[a] /\ byBefore[b].after = a
    BY <1>1, <1>3 DEF IInv, MatchingIsOneToOne, GraphsAreOfIds
  <2>2. before.nodes[b].kind = after.nodes[a].kind
    BY <1>3, <2>1 DEF IInv, MatchingIsOneToOne
  <2>3. b \notin UnmatchedBefore
    BY <1>3, <2>1 DEF UnmatchedBefore
  <2> HIDE DEF b
  <2>4. [status |-> Status(b, byBefore[b].after), before |-> b, after |-> byBefore[b].after]
          \in NodeChanges
    BY <2>1, <2>3 DEF NodeChanges
  <2> QED
    BY <1>3, <2>1, <2>2, <2>4 DEF b
<1> QED
  BY <1>2, <1>3

(* findings.ts:191-240 — what a match reports of a function. *)
LEMMA MatchReports ==
  ASSUME NEW b, NEW a, before.nodes[b].kind = "Function", after.nodes[a].kind = "Function",
         NEW c, c = [status |-> Status(b, a), before |-> b, after |-> a]
  PROVE  /\ ~ before.nodes[b].reachable /\ after.nodes[a].reachable
              => \E f \in OfMatched(c) : f.node = a /\ f.kind = "became-externally-reachable"
         /\ before.nodes[b].flags = {} /\ after.nodes[a].flags # {}
              => Finding("new-dangerous-op", a, "direct") \in OfMatched(c)
<1> DEFINE evidence == IF c.status = "unchanged" THEN "consequence" ELSE "direct"
<1>1. c.status = Status(b, a) /\ c.before = b /\ c.after = a
  OBVIOUS
<1>2. ASSUME ~ before.nodes[b].reachable, after.nodes[a].reachable
      PROVE  \E f \in OfMatched(c) : f.node = a /\ f.kind = "became-externally-reachable"
  <2>1. Finding("became-externally-reachable", a, evidence) \in OfMatched(c)
    BY <1>1, <1>2 DEF OfMatched, When
  <2>2. PICK f \in OfMatched(c) : f = Finding("became-externally-reachable", a, evidence)
    BY <2>1
  <2>3. f.node = a /\ f.kind = "became-externally-reachable"
    BY <2>2 DEF Finding
  <2> QED
    BY <2>3
<1>3. ASSUME before.nodes[b].flags = {}, after.nodes[a].flags # {}
      PROVE  Finding("new-dangerous-op", a, "direct") \in OfMatched(c)
  <2>1. "flags" \in Differing(b, a)
    BY <1>3 DEF Differing, Compared
  <2>2. Status(b, a) # "unchanged"
    BY <2>1 DEF Status
  <2>3. evidence = "direct"
    BY <1>1, <2>2
  <2>4. PICK flag \in after.nodes[a].flags : flag \notin before.nodes[b].flags
    BY <1>3
  <2>5. Finding("new-dangerous-op", a, evidence) \in OfMatched(c)
    BY <1>1, <2>4 DEF OfMatched
  <2> QED
    BY <2>3, <2>5
<1> QED
  BY <1>2, <1>3

(* findings.ts:169-187 — what is reported of a new function. *)
LEMMA NewReports ==
  ASSUME NEW a, NEW c, c = [status |-> "added", before |-> None, after |-> a]
  PROVE  /\ after.nodes[a].entry
              => \E f \in OfAdded(c) : f.node = a /\ f.kind = "new-external-entrypoint"
         /\ after.nodes[a].flags # {} => Finding("new-dangerous-op", a, "direct") \in OfAdded(c)
<1>1. c.after = a
  OBVIOUS
<1>2. ASSUME after.nodes[a].entry
      PROVE  \E f \in OfAdded(c) : f.node = a /\ f.kind = "new-external-entrypoint"
  <2>1. Finding("new-external-entrypoint", a, "direct") \in OfAdded(c)
    BY <1>1, <1>2 DEF OfAdded, When
  <2>2. PICK f \in OfAdded(c) : f = Finding("new-external-entrypoint", a, "direct")
    BY <2>1
  <2>3. f.node = a /\ f.kind = "new-external-entrypoint"
    BY <2>2 DEF Finding
  <2> QED
    BY <2>3
<1>3. ASSUME after.nodes[a].flags # {}
      PROVE  Finding("new-dangerous-op", a, "direct") \in OfAdded(c)
  BY <1>1, <1>3 DEF OfAdded
<1> QED
  BY <1>2, <1>3

(* findings.ts:144-240 — a function that is exposed or dangerous now, and    *)
(* was not, is in the report.                                                *)
LEMMA SurfaceShows ==
  ASSUME IInv, ReportInv, phase = "done", NEW a \in NodesOf(after),
         after.nodes[a].kind = "Function"
  PROVE  LET n == after.nodes[a]
             was == IF byAfter[a] = None THEN None ELSE byAfter[a].before
         IN  /\ n.entry /\ (was = None \/ ~ before.nodes[was].reachable)
                  => \E f \in findings : f.node = a /\ f.kind \in {"new-external-entrypoint",
                                                                   "became-externally-reachable"}
             /\ n.flags # {} /\ (was = None \/ before.nodes[was].flags = {})
                  => Finding("new-dangerous-op", a, "direct") \in findings
<1>1. nodes = NodeChanges /\ findings = Derived
  BY DEF ReportInv, Reported
<1>2. a \in Ids /\ a # None
  BY MatchAssumption DEF IInv, GraphsAreOfIds
<1>3. after.nodes[a].entry => after.nodes[a].reachable
  BY RevisionsAreGraphs DEF ReportInv
<1>4. CASE byAfter[a] = None
  <2>1. PICK c \in nodes : c = [status |-> "added", before |-> None, after |-> a]
    BY <1>1, <1>4, AfterIsChanged
  <2>2. c.status = "added" /\ IsFunction(after, c.after)
    BY <1>2, <2>1 DEF IsFunction
  <2>3. OfAdded(c) \subseteq findings
    BY <1>1, <2>2 DEF Derived
  <2> QED
    BY <1>4, <2>1, <2>3, NewReports
<1>5. CASE byAfter[a] # None
  <2>1. PICK b : b = byAfter[a].before
    OBVIOUS
  <2>2. /\ b \in NodesOf(before) /\ before.nodes[b].kind = "Function"
        /\ [status |-> Status(b, a), before |-> b, after |-> a] \in nodes
    BY <1>1, <1>5, <2>1, AfterIsChanged
  <2>3. b \in Ids /\ b # None
    BY <2>2, MatchAssumption DEF IInv, GraphsAreOfIds
  <2>4. PICK c \in nodes : c = [status |-> Status(b, a), before |-> b, after |-> a]
    BY <2>2
  <2>5. IsFunction(before, c.before) /\ IsFunction(after, c.after)
    BY <1>2, <2>2, <2>3, <2>4 DEF IsFunction
  <2>6. OfMatched(c) \subseteq findings
    <3>1. c \in {d \in nodes : IsFunction(before, d.before) /\ IsFunction(after, d.after)}
      BY <2>5
    <3> QED
      BY <1>1, <3>1 DEF Derived
  <2>7. /\ ~ before.nodes[b].reachable /\ after.nodes[a].reachable
             => \E f \in OfMatched(c) : f.node = a /\ f.kind = "became-externally-reachable"
        /\ before.nodes[b].flags = {} /\ after.nodes[a].flags # {}
             => Finding("new-dangerous-op", a, "direct") \in OfMatched(c)
    BY <2>2, <2>4, MatchReports
  <2> QED
    BY <1>3, <1>5, <2>1, <2>3, <2>6, <2>7
<1> QED
  BY <1>4, <1>5

-----------------------------------------------------------------------------
(* The theorems. *)

(* The invariant holds of the empty maps. *)
LEMMA InitHasIt ==
  ASSUME DiffInit
  PROVE  IInv
<1>1. GraphsAreOfIds
  BY MatchAssumption DEF DiffInit, Init, GraphsAreOfIds, NodesOf
<1>2. MapsAreTotal /\ FreshAtFirst /\ MatchingIsOneToOne
  BY DEF DiffInit, Init, MapsAreTotal, FreshAtFirst, MatchingIsOneToOne
<1>3. BucketOfFunctions /\ CandidatesAreFunctions
  BY DEF DiffInit, Init, BucketOfFunctions, CandidatesAreFunctions, FunctionsAmong
<1>. QED
  BY <1>1, <1>2, <1>3 DEF IInv

(* Every step of a diff keeps the invariant, and stands by every match.      *)
LEMMA StepKeeps ==
  ASSUME IInv, [DiffNext]_diffVars
  PROVE  IInv' /\ Stands
BY MatchingKeeps, ReadersKeep DEF DiffNext

(* The inductive invariant holds of every reachable state of every diff.     *)
THEOREM Invariance == Spec => []IInv
<1>1. DiffInit => IInv
  BY InitHasIt
<1>2. IInv /\ [DiffNext]_diffVars => IInv'
  BY StepKeeps
<1>. QED
  BY <1>1, <1>2, PTL DEF Spec

(* match.ts:178-185 — whatever the two revisions, in whatever order buckets   *)
(* and candidates come, and whatever the likeness and the threshold, no node *)
(* is claimed twice and a match is of two nodes of one kind.                 *)
THEOREM OneToOne == Spec => []MatchingIsOneToOne
<1>1. IInv => MatchingIsOneToOne
  BY DEF IInv
<1>. QED
  BY <1>1, Invariance, PTL

(* match.ts:17-18 — no tier, and nothing after them, takes back or changes a  *)
(* match an earlier one made.                                                *)
THEOREM MatchesNeverMove == Spec => MatchesStand
<1>1. IInv /\ [DiffNext]_diffVars =>
        [\A n \in Ids : /\ byBefore[n] # None => byBefore'[n] = byBefore[n]
                        /\ byAfter[n] # None => byAfter'[n] = byAfter[n]]_matching
  BY StepKeeps DEF Stands
<1>. QED
  BY <1>1, Invariance, PTL DEF Spec, MatchesStand

(* match.ts:364-379 — whatever the likeness and the threshold, a probable    *)
(* rename is never reported where a likelier one was to be had.              *)
THEOREM LikeliestFirst == Spec => []FuzzyIsStable
<1>1. DiffInit => FuzzyInv
  BY DEF DiffInit, Init, FuzzyInv, FromInputs, Scored, Beaten
<1>2. IInv /\ FuzzyInv /\ [DiffNext]_diffVars => FuzzyInv'
  BY StepKeeps, FuzzyStep
<1>3. FuzzyInv => FuzzyIsStable
  BY DEF FuzzyInv, Beaten, Lost, FuzzyIsStable
<1>. QED
  BY <1>1, <1>2, <1>3, Invariance, PTL DEF Spec

LEMMA ReportInvariance == Spec => []ReportInv
<1>1. DiffInit => ReportInv
  BY DEF DiffInit, Init, ReportInv, FromInputs, ExactTaken, Reported
<1>2. IInv /\ ReportInv /\ [DiffNext]_diffVars => ReportInv'
  BY StepKeeps, ReportStep
<1>. QED
  BY <1>1, <1>2, Invariance, PTL DEF Spec

(* classify.ts:242-289 — as long as ids tell kinds apart, an edge between    *)
(* matched nodes is never reported gone and new, however the nodes were      *)
(* matched and in whatever order the graphs list their edges.                *)
THEOREM EdgesFollow == ASSUME IdsTellKindsApart PROVE Spec => []EdgesFollowTheirNodes
<1>1. IInv /\ ReportInv => EdgesFollowTheirNodes
  BY EdgesMeet
<1>. QED
  BY <1>1, Invariance, ReportInvariance, PTL

(* findings.ts:144-240 — whatever the revisions and however their nodes are  *)
(* matched, no function becomes callable from outside, or starts to do       *)
(* something dangerous, without a finding that names it.                     *)
THEOREM SurfaceIsAlwaysReported == Spec => []SurfaceIsReported
<1>1. IInv /\ ReportInv => SurfaceIsReported
  BY SurfaceShows DEF SurfaceIsReported
<1>. QED
  BY <1>1, Invariance, ReportInvariance, PTL
=============================================================================
