---------------------------- MODULE ExportProofs ----------------------------
(***************************************************************************)
(* What an exported page promises, for any graph, budget, cap and opening, *)
(* and any path of clicks.                                                 *)
(*                                                                         *)
(* What was ever asked for (`seen`) is the opening view and all that the   *)
(* views embedded ask for; what of it is not embedded waits in one queue,  *)
(* once, or has been counted (Sought, Counted).  It holds turn by turn     *)
(* because a queue holds requests of its own kind with keys of their own,  *)
(* and two requests a view makes have one key only if it is the key of the *)
(* view (NextAreRequests).  So when nothing is counted, nothing that a     *)
(* node of the page can ask for is missing, which is what a click needs.   *)
(*                                                                         *)
(* Sizes are sums over the sequence of views (SizesGrow) and over the set  *)
(* of their nodes: an embedded view adds its own size and that of the      *)
(* nodes no earlier one stored (EmbedCosts).  During the first round each  *)
(* kind is within its share, the opening view apart (Spent), and shares    *)
(* add up to less than the view budget (Shares); the drain adds what is    *)
(* left of it; then one inspection or slice at most crosses the budget.    *)
(***************************************************************************)
EXTENDS Export, FiniteSetTheorems, WellFoundedInduction, TLAPS

-----------------------------------------------------------------------------
(* Finite sets, and sums along a sequence. *)

\* A set of numbers that is not empty has a first one.
LEMMA FirstNumber ==
  ASSUME NEW S \in SUBSET Nat, S # {}
  PROVE  \E s \in S : \A o \in S : s <= o
<1>. DEFINE R == OpToRel(<, Nat)
<1>1. IsWellFoundedOn(R, Nat)
  BY NatLessThanWellFounded
<1>2. \A x, y \in Nat : x < y => <<x, y>> \in R
  BY DEF OpToRel
<1>. HIDE DEF R
<1>3. PICK s \in S : \A o \in S : ~(<<o, s>> \in R)
  BY <1>1, WFMin
<1>4. \A o \in S : ~(o < s)
  BY <1>2, <1>3, Zenon
<1>. QED
  BY <1>4

LEMMA ImageIsFinite ==
  ASSUME NEW S, IsFiniteSet(S), NEW f
  PROVE  IsFiniteSet({f[x] : x \in S})
<1>1. [x \in S |-> f[x]] \in Surjection(S, {f[x] : x \in S})
  BY DEF Surjection
<1>. QED
  BY <1>1, FS_Surjection

LEMMA DisjointUnion ==
  ASSUME NEW S, NEW T, IsFiniteSet(S), IsFiniteSet(T), S \cap T = {}
  PROVE  IsFiniteSet(S \cup T) /\ Cardinality(S \cup T) = Cardinality(S) + Cardinality(T)
<1>1. Cardinality(S) \in Nat /\ Cardinality(T) \in Nat
  BY FS_CardinalityType
<1>. QED
  BY <1>1, FS_Union, FS_EmptySet

\* One queue loses its head, and all of them grow.
LEMMA Three ==
  ASSUME NEW a \in Nat, NEW b \in Nat, NEW c \in Nat, NEW x \in Nat, NEW y \in Nat, NEW z \in Nat,
         NEW p, NEW q, NEW r,
         \/ p = a - 1 + x /\ q = b + y /\ r = c + z
         \/ p = a + x /\ q = b - 1 + y /\ r = c + z
         \/ p = a + x /\ q = b + y /\ r = c - 1 + z
  PROVE  p + q + r = (a + b + c) - 1 + (x + y + z) /\ a + b + c \in Nat
OBVIOUS

LEMMA Tally ==
  ASSUME NEW kind \in {"map", "contract", "call"}, NEW was, NEW more, NEW now,
         \A k \in {"map", "contract", "call"} :
            /\ was[k] \in Nat /\ more[k] \in Nat
            /\ now[k] = IF k = kind THEN was[k] - 1 + more[k] ELSE was[k] + more[k]
  PROVE  /\ now["map"] + now["contract"] + now["call"]
               = (was["map"] + was["contract"] + was["call"]) - 1 + (more["map"] + more["contract"] + more["call"])
         /\ was["map"] + was["contract"] + was["call"] \in Nat
<1>1. /\ was["map"] \in Nat /\ was["contract"] \in Nat /\ was["call"] \in Nat
      /\ more["map"] \in Nat /\ more["contract"] \in Nat /\ more["call"] \in Nat
  OBVIOUS
<1>2. \/ /\ now["map"] = was["map"] - 1 + more["map"] /\ now["contract"] = was["contract"] + more["contract"]
         /\ now["call"] = was["call"] + more["call"]
      \/ /\ now["map"] = was["map"] + more["map"] /\ now["contract"] = was["contract"] - 1 + more["contract"]
         /\ now["call"] = was["call"] + more["call"]
      \/ /\ now["map"] = was["map"] + more["map"] /\ now["contract"] = was["contract"] + more["contract"]
         /\ now["call"] = was["call"] - 1 + more["call"]
  OBVIOUS
<1>. QED
  BY <1>1, <1>2, Three

\* A function given at 0, and at each number by `step` from the one before,
\* exists and has its values where `step` leads.
Follows(f, n, base, step) == f = [i \in 0 .. n |-> IF i = 0 THEN base ELSE step[<<i, f[i - 1]>>]]

LEMMA Recursion ==
  ASSUME NEW n \in Nat, NEW X, NEW base \in X, NEW step, \A i \in 1 .. n, x \in X : step[<<i, x>>] \in X
  PROVE  /\ \E f : Follows(f, n, base, step)
         /\ \A f : Follows(f, n, base, step) => \A i \in 0 .. n : f[i] \in X
<1>1. ASSUME NEW m \in 0 .. n, NEW f, Follows(f, m, base, step) PROVE \A i \in 0 .. m : f[i] \in X
  <2>. DEFINE wrong == {i \in 0 .. m : f[i] \notin X}
  <2>1. SUFFICES ASSUME wrong # {} PROVE FALSE
    OBVIOUS
  <2>2. PICK i \in wrong : \A o \in wrong : i <= o
    <3>1. wrong \in SUBSET Nat
      OBVIOUS
    <3>. HIDE DEF wrong
    <3>. QED
      BY <2>1, <3>1, FirstNumber
  <2>3. f[i] = IF i = 0 THEN base ELSE step[<<i, f[i - 1]>>]
    BY <1>1, <2>2 DEF Follows
  <2>4. i # 0 => i \in 1 .. n /\ i - 1 \in 0 .. m /\ ~(i <= i - 1)
    BY <2>2
  <2>5. i # 0 => f[i - 1] \in X
    BY <2>2, <2>4
  <2>. QED
    BY <2>2, <2>3, <2>4, <2>5
<1>2. \E f : Follows(f, n, base, step)
  <2>. DEFINE wrong == {m \in 0 .. n : \A f : ~Follows(f, m, base, step)}
  <2>1. SUFFICES ASSUME wrong # {} PROVE FALSE
    OBVIOUS
  <2>2. PICK m \in wrong : \A o \in wrong : m <= o
    <3>1. wrong \in SUBSET Nat
      OBVIOUS
    <3>. HIDE DEF wrong
    <3>. QED
      BY <2>1, <3>1, FirstNumber
  <2>3. m \in 0 .. n /\ \A f : ~Follows(f, m, base, step)
    BY <2>2
  <2>4. CASE m = 0
    <3>. DEFINE g == [i \in 0 .. 0 |-> base]
    <3>1. Follows(g, 0, base, step)
      BY DEF Follows
    <3>. QED
      BY <2>3, <2>4, <3>1
  <2>5. CASE m # 0
    <3>1. m \in 1 .. n /\ m - 1 \in 0 .. n /\ ~(m <= m - 1)
      BY <2>3, <2>5
    <3>2. PICK f : Follows(f, m - 1, base, step)
      <4>1. m - 1 \notin wrong
        <5>. HIDE DEF wrong
        <5>. QED
          BY <2>2, <3>1
      <4>2. ~(\A f : ~Follows(f, m - 1, base, step))
        BY <3>1, <4>1
      <4>. QED
        BY <4>2, Zenon
    <3>. DEFINE g == [i \in 0 .. m |-> IF i = m THEN step[<<m, f[m - 1]>>] ELSE f[i]]
    <3>3. \A i \in 0 .. m : g[i] = IF i = 0 THEN base ELSE step[<<i, g[i - 1]>>]
      <4>1. \A i \in 0 .. m - 1 : f[i] = IF i = 0 THEN base ELSE step[<<i, f[i - 1]>>]
        BY <3>1, <3>2 DEF Follows
      <4>2. g[m] = step[<<m, f[m - 1]>>] /\ \A i \in 0 .. m - 1 : g[i] = f[i]
        BY <3>1
      <4>3. \A i \in 0 .. m : i = m \/ (i \in 0 .. m - 1 /\ (i # 0 => i - 1 \in 0 .. m - 1))
        BY <3>1
      <4>4. m # 0 /\ m - 1 \in 0 .. m - 1
        BY <3>1
      <4>. HIDE DEF g, wrong
      <4>5. g[m] = IF m = 0 THEN base ELSE step[<<m, g[m - 1]>>]
        BY <4>2, <4>4
      <4>6. \A i \in 0 .. m - 1 : g[i] = IF i = 0 THEN base ELSE step[<<i, g[i - 1]>>]
        <5>. TAKE i \in 0 .. m - 1
        <5>1. f[i] = IF i = 0 THEN base ELSE step[<<i, f[i - 1]>>]
          BY <4>1
        <5>2. i # 0 => i - 1 \in 0 .. m - 1
          BY <3>1
        <5>. QED
          BY <4>2, <5>1, <5>2
      <4>. QED
        BY <4>3, <4>5, <4>6
    <3>4. Follows(g, m, base, step)
      <4>. HIDE DEF wrong
      <4>. QED
        BY <3>3 DEF Follows
    <3>. QED
      BY <2>3, <3>4
  <2>. QED
    BY <2>4, <2>5
<1>. QED
  BY <1>1, <1>2

\* Sizes adds up one entry after the other.
LEMMA SizesAreSums ==
  ASSUME NEW T, \A t \in T : t.view.size \in Nat, NEW s \in Seq(T)
  PROVE  \E F : /\ Sizes(s) = F[Len(s)] /\ F[0] = 0
                /\ \A i \in 1 .. Len(s) : F[i] = F[i - 1] + s[i].view.size
                /\ \A i \in 0 .. Len(s) : F[i] \in Nat
<1>. DEFINE n == Len(s)
            step == [p \in (1 .. n) \X Nat |-> p[2] + s[p[1]].view.size]
            Is(f) == f = [i \in 0 .. n |-> IF i = 0 THEN 0 ELSE f[i - 1] + s[i].view.size]
            F == CHOOSE f : Is(f)
<1>1. Sizes(s) = F[n]
  BY DEF Sizes
<1>2. n \in Nat /\ \A i \in 1 .. n : s[i].view.size \in Nat
  OBVIOUS
<1>3. \A i \in 1 .. n, x \in Nat : step[<<i, x>>] = x + s[i].view.size /\ step[<<i, x>>] \in Nat
  BY <1>2
<1>. HIDE DEF n, step
<1>4. PICK f : Follows(f, n, 0, step) /\ \A i \in 0 .. n : f[i] \in Nat
  BY <1>2, <1>3, Recursion
<1>5. Is(f)
  <2>1. \A i \in 0 .. n : (IF i = 0 THEN 0 ELSE step[<<i, f[i - 1]>>])
                           = (IF i = 0 THEN 0 ELSE f[i - 1] + s[i].view.size)
    BY <1>2, <1>3, <1>4
  <2>. QED
    BY <1>4, <2>1 DEF Follows
<1>6. Is(F)
  <2>. HIDE DEF Is
  <2>. QED
    BY <1>5
<1>. HIDE DEF F
<1>7. F[0] = 0 /\ \A i \in 1 .. n : F[i] = F[i - 1] + s[i].view.size
  BY <1>2, <1>6
<1>8. \A i \in 0 .. n : F[i] \in Nat
  <2>. DEFINE wrong == {m \in 0 .. n : F[m] \notin Nat}
  <2>1. SUFFICES ASSUME wrong # {} PROVE FALSE
    OBVIOUS
  <2>2. PICK m \in wrong : \A o \in wrong : m <= o
    <3>1. wrong \in SUBSET Nat
      BY <1>2
    <3>. HIDE DEF wrong
    <3>. QED
      BY <2>1, <3>1, FirstNumber
  <2>3. m \in 1 .. n /\ m - 1 \in 0 .. n
    BY <1>2, <1>7, <2>2
  <2>4. F[m - 1] \in Nat
    BY <1>2, <2>2, <2>3
  <2>5. F[m] = F[m - 1] + s[m].view.size /\ s[m].view.size \in Nat
    BY <1>2, <1>7, <2>3
  <2>6. F[m] \notin Nat
    BY <2>2
  <2>. QED
    BY <2>4, <2>5, <2>6
<1>. QED
  BY <1>1, <1>7, <1>8 DEF n

LEMMA SizesGrow ==
  ASSUME NEW T, \A t \in T : t.view.size \in Nat, NEW s \in Seq(T), NEW e \in T
  PROVE  Sizes(s) \in Nat /\ Sizes(Append(s, e)) = Sizes(s) + e.view.size
<1>. DEFINE n == Len(s)
            a == Append(s, e)
<1>1. PICK F : /\ Sizes(s) = F[n] /\ F[0] = 0
               /\ \A i \in 1 .. n : F[i] = F[i - 1] + s[i].view.size
               /\ \A i \in 0 .. n : F[i] \in Nat
  BY SizesAreSums
<1>2. /\ n \in Nat /\ a \in Seq(T) /\ Len(a) = n + 1 /\ a[n + 1] = e
      /\ \A i \in 1 .. n : a[i] = s[i]
  OBVIOUS
<1>3. PICK G : /\ Sizes(a) = G[n + 1] /\ G[0] = 0
               /\ \A i \in 1 .. n + 1 : G[i] = G[i - 1] + a[i].view.size
  <2>. HIDE DEF a
  <2>1. \E G : /\ Sizes(a) = G[Len(a)] /\ G[0] = 0
               /\ \A i \in 1 .. Len(a) : G[i] = G[i - 1] + a[i].view.size
    BY <1>2, SizesAreSums
  <2>. QED
    BY <1>2, <2>1
<1>. HIDE DEF a, n
<1>4. \A i \in 0 .. n : F[i] = G[i]
  <2>. DEFINE wrong == {m \in 0 .. n : F[m] # G[m]}
  <2>1. SUFFICES ASSUME wrong # {} PROVE FALSE
    OBVIOUS
  <2>2. PICK m \in wrong : \A o \in wrong : m <= o
    <3>1. wrong \in SUBSET Nat
      BY <1>2
    <3>. HIDE DEF wrong
    <3>. QED
      BY <2>1, <3>1, FirstNumber
  <2>3. m \in 1 .. n /\ m \in 1 .. n + 1 /\ m - 1 \in 0 .. n
    BY <1>1, <1>2, <1>3, <2>2
  <2>4. F[m - 1] = G[m - 1]
    BY <1>2, <2>2, <2>3
  <2>5. F[m] = G[m]
    BY <1>1, <1>2, <1>3, <2>3, <2>4
  <2>. QED
    BY <2>2, <2>5
<1>5. F[n] \in Nat /\ F[n] = G[n] /\ G[n + 1] = G[n] + e.view.size
  <2>1. n \in 0 .. n /\ n + 1 \in 1 .. n + 1 /\ (n + 1) - 1 = n
    BY <1>2
  <2>2. G[n + 1] = G[(n + 1) - 1] + a[n + 1].view.size
    BY <1>3, <2>1
  <2>. QED
    BY <1>1, <1>2, <1>4, <2>1, <2>2
<1>. QED
  BY <1>1, <1>3, <1>5 DEF a

LEMMA NothingHasNoSize == Sizes(<<>>) = 0
<1>. DEFINE Is(f) == f = [i \in 0 .. 0 |-> IF i = 0 THEN 0 ELSE f[i - 1] + <<>>[i].view.size]
            F == CHOOSE f : Is(f)
<1>1. Sizes(<<>>) = F[0]
  BY DEF Sizes
<1>2. Is([i \in 0 .. 0 |-> 0])
  OBVIOUS
<1>3. Is(F)
  <2>. HIDE DEF Is
  <2>. QED
    BY <1>2
<1>. HIDE DEF F
<1>. QED
  BY <1>1, <1>3

-----------------------------------------------------------------------------
(* A view is of finitely many nodes of the graph. *)
USE ExportAssumption

Known(g) == Nodes(g) \cup {e.from : e \in g.edge} \cup {e.to : e \in g.edge}

LEMMA KnownIsFinite ==
  ASSUME NEW g \in Graphs
  PROVE  IsFiniteSet(Known(g))
<1>. DEFINE from == [e \in g.edge |-> e.from]
            to   == [e \in g.edge |-> e.to]
<1>1. IsFiniteSet(Nodes(g)) /\ IsFiniteSet(g.edge)
  OBVIOUS
<1>2. {e.from : e \in g.edge} = {from[e] : e \in g.edge} /\ {e.to : e \in g.edge} = {to[e] : e \in g.edge}
  OBVIOUS
<1>3. IsFiniteSet({from[e] : e \in g.edge}) /\ IsFiniteSet({to[e] : e \in g.edge})
  <2>. HIDE DEF from, to
  <2>. QED
    BY <1>1, ImageIsFinite
<1>4. IsFiniteSet(Nodes(g) \cup {e.from : e \in g.edge})
  BY <1>1, <1>2, <1>3, FS_Union
<1>. QED
  BY <1>2, <1>3, <1>4, FS_Union DEF Known

LEMMA NeighboursAreKnown ==
  ASSUME NEW g \in Graphs, NEW id, NEW dir
  PROVE  Neighbours(g, id, dir) \subseteq Known(g)
<1>1. \A s \in CallSteps(g) : s[1] \in Known(g) /\ s[2] \in Known(g)
  BY DEF CallSteps, Calls, Known
<1>. QED
  BY <1>1 DEF Neighbours

LEMMA FrontierIsKnown ==
  ASSUME NEW g \in Graphs, NEW o \in Nodes(g), NEW dir, NEW depth \in Nat
  PROVE  Frontier(g, o, dir, depth) \subseteq Known(g)
<1>. DEFINE X == [at : SUBSET Known(g), seen : SUBSET Known(g)]
            next(last) == (UNION {Neighbours(g, n, dir) : n \in last.at}) \ last.seen
            more(last) == [at |-> next(last), seen |-> last.seen \cup next(last)]
            base == [at |-> {o}, seen |-> {o}]
            step == [p \in (1 .. depth) \X X |-> more(p[2])]
            Is(f) == f = [d \in 0 .. depth |-> IF d = 0 THEN base ELSE more(f[d - 1])]
            W == CHOOSE f : Is(f)
<1>1. Frontier(g, o, dir, depth) = W[depth].at
  BY DEF Frontier
<1>2. base \in X
  BY DEF Known
<1>3. \A x \in X : more(x) \in X
  BY NeighboursAreKnown
<1>. HIDE DEF more, base
<1>4. \A i \in 1 .. depth, x \in X : step[<<i, x>>] = more(x) /\ step[<<i, x>>] \in X
  BY <1>3
<1>. HIDE DEF step
<1>5. PICK f : Follows(f, depth, base, step) /\ \A i \in 0 .. depth : f[i] \in X
  <2>. HIDE DEF X
  <2>. QED
    BY <1>2, <1>4, Recursion
<1>6. Is(f)
  <2>1. \A i \in 0 .. depth : (IF i = 0 THEN base ELSE step[<<i, f[i - 1]>>])
                               = (IF i = 0 THEN base ELSE more(f[i - 1]))
    <3>. HIDE DEF X
    <3>. QED
      BY <1>4, <1>5
  <2>. QED
    BY <1>5, <2>1 DEF Follows
<1>7. Is(W)
  <2>. HIDE DEF Is
  <2>. QED
    BY <1>6
<1>. HIDE DEF W
<1>8. \A d \in 0 .. depth : W[d] \in X
  <2>. DEFINE wrong == {m \in 0 .. depth : W[m] \notin X}
  <2>1. SUFFICES ASSUME wrong # {} PROVE FALSE
    OBVIOUS
  <2>2. PICK m \in wrong : \A p \in wrong : m <= p
    <3>1. wrong \in SUBSET Nat
      OBVIOUS
    <3>. HIDE DEF wrong
    <3>. QED
      BY <2>1, <3>1, FirstNumber
  <2>. HIDE DEF X
  <2>3. W[m] = IF m = 0 THEN base ELSE more(W[m - 1])
    BY <1>7, <2>2
  <2>4. m # 0 => m - 1 \in 0 .. depth /\ ~(m <= m - 1)
    BY <2>2
  <2>5. m # 0 => W[m - 1] \in X
    BY <2>2, <2>4
  <2>. QED
    BY <1>2, <1>3, <2>2, <2>3, <2>5
<1>. QED
  BY <1>1, <1>8

LEMMA TraverseIsKnown ==
  ASSUME NEW g \in Graphs, NEW o \in Nodes(g), NEW dir, NEW limit \in Nat
  PROVE  {h.id : h \in Traverse(g, o, dir, limit)} \subseteq Known(g)
<1>1. ASSUME NEW h \in Traverse(g, o, dir, limit) PROVE h.id \in Known(g)
  <2>1. PICK d \in 1 .. limit : h \in {[id |-> n, depth |-> d] : n \in Frontier(g, o, dir, d)}
    BY DEF Traverse
  <2>. QED
    BY <2>1, FrontierIsKnown
<1>. QED
  BY <1>1

\* What can be asked for: `hops` counts only in the call view.
Foci == (UNION {Nodes(g) : g \in Graphs}) \cup {o.focus : o \in Openings} \cup {None}

Requests ==
    {r \in [view : {"protocol", "contract", "call", "state-access", "inheritance"}, focus : Foci,
            hops : Hops \cup {None}, expand : Seq(Dirs), auto : BOOLEAN, tests : BOOLEAN] :
        r.view = "call" => r.hops \in Hops}

\* A selection of finitely many known nodes and edges.
Fine(sel, g) ==
    /\ sel.error \in BOOLEAN
    /\ sel.nodes \subseteq Known(g) /\ IsFiniteSet(sel.edges)

LEMMA ProtocolIsFine ==
  ASSUME NEW g \in Graphs, NEW tests, NEW lead
  PROVE  Fine(ProtocolView(g, tests, lead), g) /\ ProtocolView(g, tests, lead).nodes \subseteq Nodes(g)
<1>. DEFINE keep == Contracts(g, tests)
            ends(e)    == <<ContainerOf(g, e.from), ContainerOf(g, e.to)>>
            crossing   == {e \in Calls(g.edge) : ends(e)[1] # ends(e)[2] /\ {ends(e)[1], ends(e)[2]} \subseteq keep}
            between(p) == {e \in crossing : ends(e) = p}
            kinds(p)   == {e.kind : e \in between(p)}
            bundle(p)  == [kind |-> IF lead \in kinds(p) THEN lead ELSE CHOOSE k \in kinds(p) : TRUE,
                           from |-> p[1], to |-> p[2], sub |-> "rollup", possible |-> {},
                           count |-> Sites(between(p)), res |-> Worst(between(p))]
            bundled    == [e \in crossing |-> bundle(ends(e))]
<1>1. RolledUp(g, keep, lead) = {bundled[e] : e \in crossing}
  <2>1. RolledUp(g, keep, lead) = {bundle(p) : p \in {ends(e) : e \in crossing}}
    BY DEF RolledUp
  <2>. HIDE DEF bundle, crossing, ends
  <2>. QED
    BY <2>1
<1>2. IsFiniteSet(RolledUp(g, keep, lead))
  <2>1. crossing \in SUBSET g.edge
    BY DEF Calls
  <2>. HIDE DEF bundled, crossing
  <2>2. IsFiniteSet(crossing)
    BY <2>1, FS_Subset
  <2>. QED
    BY <1>1, <2>2, ImageIsFinite
<1>3. IsFiniteSet(Induced(g, keep, {"inherits"}))
  BY FS_Subset DEF Induced
<1>4. IsFiniteSet(Induced(g, keep, {"inherits"}) \cup RolledUp(g, keep, lead))
  BY <1>2, <1>3, FS_Union
<1>5. keep \subseteq Nodes(g)
  BY DEF Contracts, OfKind
<1>. HIDE DEF keep
<1>. QED
  BY <1>4, <1>5 DEF ProtocolView, Selection, Fine, Known, keep

LEMMA ContractIsFine ==
  ASSUME NEW g \in Graphs, NEW requested \in Nodes(g)
  PROVE  Fine(ContractView(g, requested), g)
<1>. DEFINE focus == IF ContainerOf(g, requested) # None THEN ContainerOf(g, requested) ELSE requested
            own   == {e.to : e \in {x \in g.edge : x.from = focus /\ x.kind \in {"declares", "inherits"}}}
            bases == (g.node[focus].bases \ {focus}) \cap Nodes(g)
            keep  == {focus} \cup own \cup bases \cup UNION {Members(g, b) : b \in bases}
<1>1. focus \in Nodes(g)
  BY DEF ContainerOf
<1>. HIDE DEF focus
<1>2. keep \subseteq Known(g)
  BY <1>1 DEF Members, Known
<1>. HIDE DEF keep
<1>3. IsFiniteSet(Induced(g, keep, EdgeKinds)) /\ IsFiniteSet({})
  BY FS_Subset, FS_EmptySet DEF Induced
<1>4. ContractView(g, requested) = IF g.node[focus].kind # "Contract" THEN ViewError
                                   ELSE Selection(keep, Induced(g, keep, EdgeKinds))
  BY DEF ContractView, keep, focus
<1>. QED
  BY <1>2, <1>3, <1>4 DEF Fine, Selection, ViewError

LEMMA CallIsFine ==
  ASSUME NEW g \in Graphs, NEW focus \in Nodes(g), NEW up \in Nat, NEW down \in Nat
  PROVE  Fine(CallView(g, focus, up, down), g)
<1>. DEFINE keep == {focus} \cup {h.id : h \in Traverse(g, focus, "callers", up)}
                            \cup {h.id : h \in Traverse(g, focus, "callees", down)}
<1>1. keep \subseteq Known(g)
  BY TraverseIsKnown DEF Known
<1>. HIDE DEF keep
<1>2. IsFiniteSet(Induced(g, keep, CallKinds)) /\ IsFiniteSet({})
  BY FS_Subset, FS_EmptySet DEF Induced
<1>3. CallView(g, focus, up, down) = IF Calls(g.edge) = {} THEN ViewError
                                     ELSE Selection(keep, Induced(g, keep, CallKinds))
  BY DEF CallView, keep
<1>. QED
  BY <1>1, <1>2, <1>3 DEF Fine, Selection, ViewError

LEMMA StateAccessIsFine ==
  ASSUME NEW g \in Graphs, NEW focus, NEW tests
  PROVE  Fine(StateAccessView(g, focus, tests), g)
<1>. DEFINE touching == {e \in g.edge :
            /\ e.kind \in {"reads", "writes"}
            /\ tests \/ (~Scaffolding(g, e.from) /\ ~Scaffolding(g, e.to))
            /\ focus # None => focus \in {ContainerOf(g, e.from), ContainerOf(g, e.to)}}
<1>1. touching \in SUBSET g.edge
  OBVIOUS
<1>2. StateAccessView(g, focus, tests)
        = Selection({e.from : e \in touching} \cup {e.to : e \in touching}, touching)
  BY DEF StateAccessView
<1>. HIDE DEF touching
<1>3. IsFiniteSet(touching)
  BY <1>1, FS_Subset
<1>. QED
  BY <1>1, <1>2, <1>3 DEF Fine, Selection, Known

LEMMA InheritanceIsFine ==
  ASSUME NEW g \in Graphs, NEW tests
  PROVE  Fine(InheritanceView(g, tests), g)
<1>. DEFINE contracts == Contracts(g, tests)
            members   == {e \in g.edge : e.kind \in {"overrides", "implements"}
                                     /\ {ContainerOf(g, e.from), ContainerOf(g, e.to)} \subseteq contracts}
            edges     == Induced(g, contracts, {"inherits"})
<1>1. members \in SUBSET g.edge /\ contracts \subseteq Nodes(g) /\ edges \in SUBSET g.edge
  BY DEF Contracts, OfKind, Induced
<1>2. InheritanceView(g, tests)
        = Selection(contracts \cup {e.from : e \in members} \cup {e.to : e \in members}, edges \cup members)
  BY DEF InheritanceView
<1>. HIDE DEF contracts, members, edges
<1>3. IsFiniteSet(edges \cup members)
  BY <1>1, FS_Subset
<1>. QED
  BY <1>1, <1>2, <1>3 DEF Fine, Selection, Known

LEMMA SelectionIsFine ==
  ASSUME NEW g \in Graphs, NEW req \in Requests
  PROVE  /\ Fine(SelectView(g, req, "calls"), g)
         /\ req.view = "protocol" => SelectView(g, req, "calls").nodes \subseteq Nodes(g)
<1>1. Fine(ViewError, g)
  BY FS_EmptySet DEF Fine, ViewError
<1>2. req.view = "call" => req.hops \in Nat
  BY DEF Requests
<1>3. CASE req.view = "protocol"
  BY <1>3, ProtocolIsFine DEF SelectView
<1>4. CASE req.view = "inheritance"
  BY <1>4, InheritanceIsFine DEF SelectView
<1>5. CASE req.view = "state-access"
  BY <1>5, StateAccessIsFine DEF SelectView
<1>6. CASE req.view = "contract"
  BY <1>1, <1>6, ContractIsFine DEF SelectView
<1>7. CASE req.view = "call"
  BY <1>1, <1>2, <1>7, CallIsFine DEF SelectView
<1>. QED
  BY <1>3, <1>4, <1>5, <1>6, <1>7 DEF Requests

-----------------------------------------------------------------------------
(* What is embedded: finite, within the graph, of a size that is a number.  *)

AllKnown == UNION {Known(g) : g \in Graphs}

Drawings ==
    {d \in [nodes : SUBSET AllKnown, shut : SUBSET Dirs, open : SUBSET Dirs,
            error : BOOLEAN, refused : BOOLEAN, size : Nat] : IsFiniteSet(d.nodes)}

\* What is drawn of a selection.
Drawable(d) ==
    /\ d.nodes \subseteq Known(graph) /\ d.dirs \subseteq Dirs /\ d.collapsed \subseteq Dirs
    /\ IsFiniteSet(d.edges) /\ IsFiniteSet(d.aggregates)

LEMMA LayoutIsDrawable ==
  ASSUME graph \in Graphs, NEW sel, Fine(sel, graph), sel.nodes \subseteq Nodes(graph), NEW opened
  PROVE  Drawable(Agg!Layout(sel, opened))
<1>. DEFINE rep      == [n \in sel.nodes |-> Agg!Representative(sel, opened, n)]
            plain    == {e \in sel.edges : rep[e.from] = e.from /\ rep[e.to] = e.to}
            lifted   == sel.edges \ plain
            inside   == {e \in lifted : rep[e.from] = rep[e.to]}
            key(e)   == <<e.kind, rep[e.from], rep[e.to]>>
            across   == lifted \ inside
            fold(k)  == {e \in across : key(e) = k}
            bundle(k) == [key |-> k, count |-> Agg!Sites(fold(k)), pairs |-> Agg!Cardinality(fold(k)),
                          res |-> Agg!Worst(fold(k))]
            bundled  == [e \in across |-> bundle(key(e))]
            layout   == Agg!Layout(sel, opened)
<1>1. /\ layout.dirs = Agg!Present(sel, opened) /\ layout.nodes = Agg!DrawnNodes(sel, opened)
      /\ layout.collapsed = Agg!Present(sel, opened) \ opened /\ layout.edges = plain
  BY DEF Agg!Layout
<1>2. layout.aggregates = {bundle(k) : k \in {key(e) : e \in across}}
  BY DEF Agg!Layout
<1>3. layout.aggregates = {bundled[e] : e \in across}
  <2>. HIDE DEF layout, bundle, across, key
  <2>. QED
    BY <1>2
<1>4. plain \in SUBSET sel.edges /\ across \in SUBSET sel.edges
  OBVIOUS
<1>5. Agg!Tree(sel) \subseteq Dirs
  BY DEF Agg!Tree, Agg!Above, Agg!Ancestors, Agg!Dirs, Dirs
<1>. HIDE DEF layout, bundled, plain, across
<1>6. IsFiniteSet(plain) /\ IsFiniteSet(across)
  BY <1>4, FS_Subset DEF Fine
<1>7. IsFiniteSet(layout.aggregates)
  BY <1>3, <1>6, ImageIsFinite
<1>8. layout.dirs \subseteq Dirs /\ layout.collapsed \subseteq Dirs
  BY <1>1, <1>5 DEF Agg!Present
<1>9. layout.nodes \subseteq Known(graph)
  BY <1>1 DEF Agg!DrawnNodes, Fine
<1>. QED
  BY <1>1, <1>6, <1>7, <1>8, <1>9 DEF Drawable, layout

LEMMA FlatIsDrawable ==
  ASSUME graph \in Graphs, NEW sel, Fine(sel, graph)
  PROVE  Drawable(Agg!Flat(sel))
<1>. DEFINE edges == Agg!Flat(sel).edges
<1>1. /\ edges \in SUBSET sel.edges
      /\ Agg!Flat(sel).nodes = sel.nodes /\ Agg!Flat(sel).dirs = {} /\ Agg!Flat(sel).collapsed = {}
      /\ Agg!Flat(sel).aggregates = {}
  BY DEF Agg!Flat
<1>2. IsFiniteSet(edges)
  <2>. HIDE DEF edges
  <2>. QED
    BY <1>1, FS_Subset DEF Fine
<1>. QED
  BY <1>1, <1>2, FS_EmptySet DEF Fine, Drawable

\* Aggregation counts as everything does.
LEMMA Counting == \A S : Agg!Cardinality(S) = Cardinality(S)
BY Zenon DEF Agg!Cardinality, Cardinality

LEMMA DehydratedIsDrawing ==
  ASSUME graph \in Graphs, cap \in Nat, NEW d, Drawable(d)
  PROVE  DehydrateView(d) \in Drawings
<1>1. IsFiniteSet(Known(graph)) /\ Known(graph) \subseteq AllKnown
  BY KnownIsFinite DEF AllKnown
<1>2. IsFiniteSet(d.nodes) /\ IsFiniteSet(d.dirs) /\ d.nodes \subseteq AllKnown
  <2>1. d.nodes \in SUBSET Known(graph) /\ d.dirs \in SUBSET Dirs
    BY DEF Drawable
  <2>. QED
    BY <1>1, <2>1, FS_Subset
<1>3. Agg!Elements(d) \in Nat
  <2>1. /\ Cardinality(d.dirs) \in Nat /\ Cardinality(d.nodes) \in Nat
        /\ Cardinality(d.edges) \in Nat /\ Cardinality(d.aggregates) \in Nat
    BY <1>2, FS_CardinalityType DEF Drawable
  <2>. QED
    BY <2>1, Counting DEF Agg!Elements
<1>4. Unit * (1 + Agg!Elements(d)) \in Nat /\ (Agg!Elements(d) > cap) \in BOOLEAN
  BY <1>3 DEF Unit
<1>. QED
  BY <1>2, <1>4 DEF DehydrateView, Drawings, Drawable

LEMMA ViewIsDrawing ==
  ASSUME graph \in Graphs, cap \in Nat, NEW req \in Requests
  PROVE  SelectAggregatedView(req) \in Drawings
<1>. DEFINE sel == SelectView(graph, req, "calls")
<1>1. Fine(sel, graph) /\ (req.view = "protocol" => sel.nodes \subseteq Nodes(graph))
  BY SelectionIsFine
<1>. HIDE DEF sel
<1>2. Drawable(Drawing(sel, req))
  BY <1>1, LayoutIsDrawable, FlatIsDrawable DEF Drawing
<1>3. NoView \in Drawings
  BY FS_EmptySet DEF NoView, Drawings
<1>4. Answered(sel, req) \in Drawings
  BY <1>2, <1>3, DehydratedIsDrawing DEF Answered
<1>. QED
  BY <1>4 DEF SelectAggregatedView, sel

-----------------------------------------------------------------------------
(* Keys, and sequences of requests that have each a key of their own.       *)

Keys(s) == {RequestKey(s[i]) : i \in DOMAIN s}
Distinct(s) == \A i, j \in DOMAIN s : RequestKey(s[i]) = RequestKey(s[j]) => i = j

LEMMA TailKeys ==
  ASSUME NEW T, NEW s \in Seq(T), s # <<>>, Distinct(s)
  PROVE  /\ Head(s) \in T /\ Tail(s) \in Seq(T) /\ Len(Tail(s)) = Len(s) - 1 /\ Distinct(Tail(s))
         /\ Keys(Tail(s)) = Keys(s) \ {RequestKey(Head(s))} /\ RequestKey(Head(s)) \in Keys(s)
<1>1. /\ Tail(s) \in Seq(T) /\ Len(Tail(s)) = Len(s) - 1 /\ Head(s) = s[1] /\ Len(s) \in Nat \ {0}
      /\ \A i \in 1 .. Len(s) - 1 : Tail(s)[i] = s[i + 1]
  OBVIOUS
<1>2. DOMAIN s = 1 .. Len(s) /\ DOMAIN Tail(s) = 1 .. Len(s) - 1
  BY <1>1
<1>3. Distinct(Tail(s))
  BY <1>1, <1>2 DEF Distinct
<1>4. ASSUME NEW k \in Keys(Tail(s)) PROVE k \in Keys(s) /\ k # RequestKey(Head(s))
  <2>1. PICK i \in 1 .. Len(s) - 1 : k = RequestKey(s[i + 1])
    BY <1>1, <1>2, <1>4 DEF Keys
  <2>. QED
    BY <1>1, <1>2, <2>1 DEF Keys, Distinct
<1>5. ASSUME NEW k \in Keys(s), k # RequestKey(Head(s)) PROVE k \in Keys(Tail(s))
  <2>1. PICK i \in 1 .. Len(s) : k = RequestKey(s[i])
    BY <1>2 DEF Keys
  <2>2. i - 1 \in 1 .. Len(s) - 1 /\ Tail(s)[i - 1] = s[i]
    BY <1>1, <1>5, <2>1
  <2>. QED
    BY <1>2, <2>1, <2>2 DEF Keys
<1>6. RequestKey(Head(s)) \in Keys(s) /\ Head(s) \in T
  BY <1>1, <1>2 DEF Keys
<1>. QED
  BY <1>1, <1>3, <1>4, <1>5, <1>6

LEMMA ConcatKeys ==
  ASSUME NEW T, NEW s \in Seq(T), NEW t \in Seq(T), Distinct(s), Distinct(t), Keys(s) \cap Keys(t) = {}
  PROVE  /\ s \o t \in Seq(T) /\ Len(s \o t) = Len(s) + Len(t)
         /\ Distinct(s \o t) /\ Keys(s \o t) = Keys(s) \cup Keys(t)
<1>. DEFINE m == Len(s)
            n == Len(t)
<1>1. /\ s \o t \in Seq(T) /\ Len(s \o t) = m + n /\ m \in Nat /\ n \in Nat
      /\ DOMAIN s = 1 .. m /\ DOMAIN t = 1 .. n /\ DOMAIN (s \o t) = 1 .. (m + n)
      /\ \A i \in 1 .. (m + n) : (s \o t)[i] = IF i <= m THEN s[i] ELSE t[i - m]
  OBVIOUS
<1>. HIDE DEF m, n
<1>2. ASSUME NEW i \in 1 .. (m + n)
      PROVE  IF i <= m THEN i \in 1 .. m /\ (s \o t)[i] = s[i] ELSE i - m \in 1 .. n /\ (s \o t)[i] = t[i - m]
  BY <1>1
<1>3. Distinct(s \o t)
  <2>. SUFFICES ASSUME NEW i \in 1 .. (m + n), NEW j \in 1 .. (m + n),
                       RequestKey((s \o t)[i]) = RequestKey((s \o t)[j])
                PROVE  i = j
    BY <1>1 DEF Distinct
  <2>1. CASE i <= m /\ j <= m
    BY <1>1, <1>2, <2>1 DEF Distinct
  <2>2. CASE i <= m /\ ~(j <= m)
    BY <1>1, <1>2, <2>2 DEF Keys
  <2>3. CASE ~(i <= m) /\ j <= m
    BY <1>1, <1>2, <2>3 DEF Keys
  <2>4. CASE ~(i <= m) /\ ~(j <= m)
    <3>1. i - m = j - m
      BY <1>1, <1>2, <2>4 DEF Distinct
    <3>. QED
      BY <1>1, <3>1
  <2>. QED
    BY <2>1, <2>2, <2>3, <2>4
<1>4. Keys(s \o t) \subseteq Keys(s) \cup Keys(t)
  BY <1>1, <1>2 DEF Keys
<1>5. Keys(s) \subseteq Keys(s \o t)
  BY <1>1 DEF Keys
<1>6. ASSUME NEW k \in Keys(t) PROVE k \in Keys(s \o t)
  <2>1. PICK j \in 1 .. n : k = RequestKey(t[j])
    BY <1>1 DEF Keys
  <2>2. m + j \in 1 .. (m + n) /\ ~(m + j <= m) /\ (m + j) - m = j
    BY <1>1, <2>1
  <2>. QED
    BY <1>1, <2>1, <2>2 DEF Keys
<1>. QED
  BY <1>1, <1>3, <1>4, <1>5, <1>6 DEF m, n

\* The new requests in some order.
LEMMA OrderedKeys ==
  ASSUME NEW S, IsFiniteSet(S), \A x, y \in S : RequestKey(x) = RequestKey(y) => x = y
  PROVE  /\ InOrder(S) \in Seq(S) /\ Len(InOrder(S)) = Cardinality(S)
         /\ Distinct(InOrder(S)) /\ Keys(InOrder(S)) = {RequestKey(x) : x \in S}
<1>. DEFINE n == Cardinality(S)
            q == InOrder(S)
<1>1. n \in Nat /\ IsFiniteSet(1 .. n) /\ Cardinality(1 .. n) = n
  BY FS_CardinalityType, FS_Interval
<1>2. PICK f : f \in Bijection(1 .. n, S)
  BY FS_CardinalityType DEF ExistsBijection
<1>3. f \in [1 .. n -> S] /\ IsInjective(f)
  BY <1>2 DEF Bijection, Injection, IsInjective
<1>4. q \in [1 .. n -> S] /\ IsInjective(q)
  <2>1. q = CHOOSE g \in [1 .. n -> S] : IsInjective(g)
    BY DEF InOrder, SetToSeq
  <2>. HIDE DEF q
  <2>. QED
    BY <1>3, <2>1
<1>. HIDE DEF n, q
<1>5. q \in Injection(1 .. n, S)
  BY <1>4 DEF Injection, IsInjective
<1>6. q \in Surjection(1 .. n, S)
  BY <1>1, <1>5, FS_Injection DEF n
<1>7. q \in Seq(S) /\ Len(q) = n /\ DOMAIN q = 1 .. n
  BY <1>1, <1>4
<1>8. Distinct(q)
  BY <1>4, <1>7 DEF Distinct, IsInjective
<1>9. Keys(q) = {RequestKey(x) : x \in S}
  BY <1>6, <1>7 DEF Keys, Surjection
<1>. QED
  BY <1>7, <1>8, <1>9 DEF n, q

\* As many keys as there are requests.
LEMMA KeysCount ==
  ASSUME NEW T, NEW s \in Seq(T), Distinct(s)
  PROVE  IsFiniteSet(Keys(s)) /\ Cardinality(Keys(s)) = Len(s)
<1>. DEFINE n == Len(s)
            f == [i \in 1 .. n |-> RequestKey(s[i])]
<1>1. n \in Nat /\ DOMAIN s = 1 .. n
  OBVIOUS
<1>2. IsFiniteSet(1 .. n) /\ Cardinality(1 .. n) = n
  BY <1>1, FS_Interval
<1>3. f \in Bijection(1 .. n, Keys(s))
  BY <1>1 DEF Bijection, Injection, Surjection, IsInjective, Keys, Distinct
<1>. QED
  BY <1>2, <1>3, FS_Bijection DEF ExistsBijection

\* A key says what was asked for, but for the order of `expand`, and whose
\* turn it is embedded in.
LEMMA KeyFields ==
  ASSUME NEW r \in Requests
  PROVE  /\ RequestKey(r) = [view |-> r.view, focus |-> r.focus, hops |-> r.hops,
                             expand |-> ToSet(r.expand), auto |-> r.auto, tests |-> r.tests]
         /\ RequestKey(r).view = r.view /\ RequestKey(r).focus = r.focus /\ RequestKey(r).expand = ToSet(r.expand)
         /\ QuotaKind(RequestKey(r)) = QuotaKind(r) /\ QuotaKind(r) \in {"map", "contract", "call"}
<1>1. RequestKey(r) = [view |-> r.view, focus |-> r.focus, hops |-> r.hops,
                       expand |-> ToSet(r.expand), auto |-> r.auto, tests |-> r.tests]
  BY DEF RequestKey, Requests
<1>. QED
  BY <1>1 DEF QuotaKind

\* What a view asks for that was never asked for: finitely many requests,
\* with keys of their own.  Two ways to open one more directory have the same
\* key only when nothing is opened that was not open, and then it is the key
\* of the view itself.
LEMMA NextAreRequests ==
  ASSUME graph \in Graphs, hops \in Hops, NEW req \in Requests, NEW view \in Drawings
  PROVE  /\ IsFiniteSet(NextRequests(req, view)) /\ NextRequests(req, view) \subseteq Requests
         /\ \A x, y \in NextRequests(req, view) :
               RequestKey(x) = RequestKey(y) => x = y \/ RequestKey(x) = RequestKey(req)
<1>. DEFINE deeper == [d \in view.shut |-> [req EXCEPT !.expand = Append(@, d)]]
            C == view.nodes \cap OfKind(graph, "Contract")
            F == view.nodes \cap OfKind(graph, "Function")
            contract == [c \in C |-> Ask("contract", c, None)]
            call == [f \in F |-> Ask("call", f, hops)]
            More == {deeper[d] : d \in view.shut}
            Contracts_ == {contract[c] : c \in C}
            Calls_ == {call[f] : f \in F}
<1>1. NextRequests(req, view) = More \cup Contracts_ \cup Calls_
  BY DEF NextRequests
<1>2. view.shut \in SUBSET Dirs /\ C \in SUBSET view.nodes /\ F \in SUBSET view.nodes /\ IsFiniteSet(view.nodes)
      /\ IsFiniteSet(Dirs)
  BY DEF Drawings
<1>3. C \subseteq Foci /\ F \subseteq Foci
  BY DEF OfKind, Foci
<1>4. \A d \in view.shut :
         /\ deeper[d] \in Requests /\ deeper[d].view = req.view
         /\ deeper[d] = [req EXCEPT !.expand = Append(req.expand, d)]
         /\ deeper[d].expand = Append(req.expand, d) /\ req.expand \in Seq(Dirs) /\ d \in Dirs
  <2>. TAKE d \in view.shut
  <2>1. req.expand \in Seq(Dirs) /\ d \in Dirs /\ Append(req.expand, d) \in Seq(Dirs)
    BY <1>2 DEF Requests
  <2>2. deeper[d] = [req EXCEPT !.expand = Append(req.expand, d)]
    OBVIOUS
  <2>3. deeper[d] = [view |-> req.view, focus |-> req.focus, hops |-> req.hops,
                     expand |-> Append(req.expand, d), auto |-> req.auto, tests |-> req.tests]
    BY <2>2 DEF Requests
  <2>. HIDE DEF deeper
  <2>. QED
    BY <2>1, <2>2, <2>3 DEF Requests
<1>5. \A c \in C : /\ contract[c] \in Requests /\ contract[c].view = "contract" /\ contract[c].focus = c
                   /\ contract[c].expand = <<>>
  BY <1>3 DEF Ask, Requests
<1>6. \A f \in F : /\ call[f] \in Requests /\ call[f].view = "call" /\ call[f].focus = f
                   /\ call[f].expand = <<>>
  BY <1>3 DEF Ask, Requests
<1>7. IsFiniteSet(view.shut) /\ IsFiniteSet(C) /\ IsFiniteSet(F)
  <2>. HIDE DEF C, F
  <2>. QED
    BY <1>2, FS_Subset
<1>. HIDE DEF C, F, deeper, contract, call
<1>8. IsFiniteSet(More) /\ IsFiniteSet(Contracts_) /\ IsFiniteSet(Calls_)
  BY <1>7, ImageIsFinite
<1>9. IsFiniteSet(NextRequests(req, view))
  <2>. HIDE DEF More, Contracts_, Calls_
  <2>. QED
    BY <1>1, <1>8, FS_Union
<1>10. ASSUME NEW d \in view.shut
       PROVE  ToSet(deeper[d].expand) = ToSet(req.expand) \cup {d}
  <2>1. deeper[d].expand = Append(req.expand, d) /\ req.expand \in Seq(Dirs) /\ d \in Dirs
    BY <1>4
  <2>2. ASSUME NEW s \in Seq(Dirs) PROVE ToSet(Append(s, d)) = ToSet(s) \cup {d}
    <3>1. /\ DOMAIN Append(s, d) = 1 .. Len(s) + 1 /\ DOMAIN s = 1 .. Len(s) /\ Len(s) \in Nat
          /\ \A i \in 1 .. Len(s) : Append(s, d)[i] = s[i]
          /\ Append(s, d)[Len(s) + 1] = d
      OBVIOUS
    <3>2. 1 .. Len(s) + 1 = (1 .. Len(s)) \cup {Len(s) + 1}
      BY <3>1
    <3>. QED
      BY <3>1, <3>2 DEF ToSet
  <2>. QED
    BY <2>1, <2>2
<1>11. ASSUME NEW d \in view.shut, d \in ToSet(req.expand)
       PROVE  RequestKey(deeper[d]) = RequestKey(req)
  <2>1. ToSet(deeper[d].expand) = ToSet(req.expand)
    BY <1>10, <1>11
  <2>2. /\ deeper[d].view = req.view /\ deeper[d].focus = req.focus /\ deeper[d].hops = req.hops
        /\ deeper[d].auto = req.auto /\ deeper[d].tests = req.tests
    BY <1>4 DEF Requests
  <2>3. deeper[d] \in Requests
    BY <1>4
  <2>. HIDE DEF More, Contracts_, Calls_
  <2>4. RequestKey(deeper[d]) = [view |-> deeper[d].view, focus |-> deeper[d].focus, hops |-> deeper[d].hops,
                                 expand |-> ToSet(deeper[d].expand), auto |-> deeper[d].auto,
                                 tests |-> deeper[d].tests]
    BY <2>3, KeyFields
  <2>5. RequestKey(req) = [view |-> req.view, focus |-> req.focus, hops |-> req.hops,
                           expand |-> ToSet(req.expand), auto |-> req.auto, tests |-> req.tests]
    BY KeyFields
  <2>. QED
    BY <2>1, <2>2, <2>4, <2>5
<1>12. ASSUME NEW d \in view.shut, NEW e \in view.shut, RequestKey(deeper[d]) = RequestKey(deeper[e]), d # e
       PROVE  RequestKey(deeper[d]) = RequestKey(req)
  <2>1. ToSet(deeper[d].expand) = ToSet(deeper[e].expand)
    <3>1. deeper[d] \in Requests /\ deeper[e] \in Requests
      BY <1>4
    <3>. QED
      BY <1>12, <3>1, KeyFields
  <2>2. d \in ToSet(req.expand)
    BY <1>10, <1>12, <2>1
  <2>. QED
    BY <1>11, <2>2
<1>13. ASSUME NEW d \in view.shut, NEW y \in Contracts_ \cup Calls_
       PROVE  RequestKey(deeper[d]) # RequestKey(y)
  <2>1. y \in Requests /\ y.expand = <<>>
    BY <1>5, <1>6
  <2>2. d \in ToSet(deeper[d].expand) /\ d \notin ToSet(y.expand)
    <3>1. ToSet(<<>>) = {}
      BY DEF ToSet
    <3>. QED
      BY <1>10, <2>1, <3>1
  <2>3. deeper[d] \in Requests
    BY <1>4
  <2>. QED
    BY <2>1, <2>2, <2>3, KeyFields
<1>14. ASSUME NEW x \in Contracts_ \cup Calls_, NEW y \in Contracts_ \cup Calls_, RequestKey(x) = RequestKey(y)
       PROVE  x = y
  <2>1. x \in Requests /\ y \in Requests
    BY <1>5, <1>6
  <2>2. x.view = y.view /\ x.focus = y.focus
    BY <1>14, <2>1, KeyFields
  <2>. QED
    BY <1>5, <1>6, <2>2
<1>15. NextRequests(req, view) \subseteq Requests
  <2>1. \A x \in More : x \in Requests
    BY <1>4
  <2>2. \A x \in Contracts_ \cup Calls_ : x \in Requests
    BY <1>5, <1>6
  <2>. HIDE DEF More, Contracts_, Calls_
  <2>. QED
    BY <1>1, <2>1, <2>2
<1>16. ASSUME NEW x \in NextRequests(req, view), NEW y \in NextRequests(req, view), RequestKey(x) = RequestKey(y)
       PROVE  x = y \/ RequestKey(x) = RequestKey(req)
  <2>1. CASE x \in Contracts_ \cup Calls_ /\ y \in Contracts_ \cup Calls_
    BY <1>14, <1>16, <2>1
  <2>2. CASE x \in More /\ y \in More
    BY <1>12, <1>16, <2>2
  <2>3. CASE (x \in More /\ y \in Contracts_ \cup Calls_) \/ (y \in More /\ x \in Contracts_ \cup Calls_)
    BY <1>13, <1>16, <2>3
  <2>. QED
    BY <1>1, <2>1, <2>2, <2>3
<1>. QED
  BY <1>9, <1>15, <1>16

-----------------------------------------------------------------------------
(* The inductive invariant.                                                *)

QuotaKinds == {"map", "contract", "call"}
Growing == phase \in {"quota", "drain", "count", "aborted"}
Entries == [request : Requests, view : Drawings]

\* A navigation state of this page.
NavOf(n, h) == n \in [view : {n.view}, focus : {n.focus}, hops : {h}, expand : {n.expand}, auto : {n.auto}]

Typed ==
    /\ graph \in Graphs /\ hops \in Hops /\ budget \in Nat /\ cap \in Nat /\ opening \in Requests
    /\ phase \in {"quota", "drain", "count", "inspect", "source", "written", "read", "aborted"}
    /\ turn \in 1 .. 3
    /\ queues \in [QuotaKinds -> Seq(Requests)] /\ views \in Seq(Entries) /\ viewsOmitted \in Nat
    /\ IsFiniteSet(seen) /\ IsFiniteSet(inspections) /\ IsFiniteSet(sources)
    /\ NavOf(nav, hops)
    /\ held \in 0 .. Len(views)

\* What was asked for is the opening view and all a click asks for in a view
\* embedded; each of it is embedded, in one queue, or omitted.
Embedded == {RequestKey(views[i].request) : i \in DOMAIN views}
Offers(v) == {RequestKey(r) : r \in NextRequests(v.request, v.view)}
Reached == {RequestKey(opening)} \cup UNION {Offers(views[i]) : i \in DOMAIN views}
Missing == seen \ Embedded

Sought ==
    /\ seen = Reached /\ Embedded \subseteq seen /\ Cardinality(Embedded) = Len(views)
    /\ \A k \in QuotaKinds : /\ Distinct(queues[k]) /\ Keys(queues[k]) \subseteq Missing
                             /\ \A key \in Keys(queues[k]) : QuotaKind(key) = k

Counted == Cardinality(Missing) = viewsOmitted + (IF Growing THEN StillQueued ELSE 0)

\* What the views cost, and by kind: the opening view may cost anything.
Drawn == Sizes(views) + Unit * Cardinality(nodeTable)
Over(k) == IF views # <<>> /\ k = QuotaKind(views[1].request) THEN FirstCost ELSE 0

Within ==
    /\ nodeTable = DrawnNodes /\ IsFiniteSet(nodeTable)
    /\ Drawn <= ViewBudget + FirstCost

Spent ==
    phase = "quota" =>
        /\ spent \in [QuotaKinds -> Int]
        /\ Drawn = spent["map"] + spent["contract"] + spent["call"]
        /\ \A k \in QuotaKinds : spent[k] <= Allowance(k) + Over(k)
        /\ views = <<>> => \A k \in QuotaKinds : spent[k] = 0

\* An id is inspected once, and sliced once.
Weighed ==
    /\ used = Drawn + Unit * Cardinality(inspections) + 2 * Unit * Cardinality(sources)
    /\ used <= budget * Unit + FirstCost + 2 * Unit
    /\ Growing => inspections = {}
    /\ Growing \/ phase = "inspect" => sources = {}
    /\ phase = "inspect" => ids \cap inspections = {}
    /\ phase = "source" => ids \cap sources = {}

IInv == Typed /\ Sought /\ Counted /\ Within /\ Spent /\ Weighed /\ NodeClicksAreAnswered

-----------------------------------------------------------------------------
(* Embedding a view. *)

LEMMA HeadLeaves ==
  ASSUME Typed, Sought, NEW k \in QuotaKinds, queues[k] # <<>>,
         NEW key, key = RequestKey(Head(queues[k]))
  PROVE  /\ Head(queues[k]) \in Requests /\ key \in Missing /\ QuotaKind(key) = k
         /\ Tail(queues[k]) \in Seq(Requests) /\ Len(Tail(queues[k])) = Len(queues[k]) - 1
         /\ Distinct(Tail(queues[k])) /\ Keys(Tail(queues[k])) = Keys(queues[k]) \ {key}
         /\ \A o \in QuotaKinds \ {k} : key \notin Keys(queues[o])
<1>1. queues[k] \in Seq(Requests) /\ Distinct(queues[k])
  BY DEF Typed, Sought
<1>2. /\ Head(queues[k]) \in Requests
      /\ Tail(queues[k]) \in Seq(Requests) /\ Len(Tail(queues[k])) = Len(queues[k]) - 1
      /\ Distinct(Tail(queues[k])) /\ Keys(Tail(queues[k])) = Keys(queues[k]) \ {key}
      /\ key \in Keys(queues[k])
  BY <1>1, TailKeys
<1>. QED
  BY <1>2 DEF Sought

LEMMA InUnion ==
  ASSUME NEW S, NEW f, NEW z
  PROVE  z \in UNION {f[i] : i \in S} <=> \E i \in S : z \in f[i]
<1>1. ASSUME z \in UNION {f[i] : i \in S} PROVE \E i \in S : z \in f[i]
  <2>1. PICK a \in {f[i] : i \in S} : z \in a
    BY <1>1, Zenon
  <2>. QED
    BY <2>1
<1>2. ASSUME NEW i \in S, z \in f[i] PROVE z \in UNION {f[j] : j \in S}
  <2>1. f[i] \in {f[j] : j \in S}
    OBVIOUS
  <2>. QED
    BY <1>2, <2>1, Zenon
<1>. QED
  BY <1>1, <1>2

LEMMA UnionGrows ==
  ASSUME NEW n \in Nat, NEW old, NEW new, \A i \in 1 .. n : new[i] = old[i]
  PROVE  UNION {new[i] : i \in 1 .. n + 1} = (UNION {old[i] : i \in 1 .. n}) \cup new[n + 1]
<1>1. 1 .. n + 1 = (1 .. n) \cup {n + 1}
  OBVIOUS
<1>. DEFINE N == UNION {new[i] : i \in 1 .. n + 1}
            O == UNION {old[i] : i \in 1 .. n}
<1>2. \A z : z \in N <=> \E i \in 1 .. n + 1 : z \in new[i]
  BY InUnion
<1>3. \A z : z \in O <=> \E i \in 1 .. n : z \in old[i]
  BY InUnion
<1>. HIDE DEF N, O
<1>4. \A z : z \in N <=> z \in O \cup new[n + 1]
  BY <1>1, <1>2, <1>3
<1>5. N = O \cup new[n + 1]
  BY <1>4
<1>. QED
  BY <1>5 DEF N, O

\* What the program was asked for changes only with what is embedded.
LEMMA ReachedGrows ==
  ASSUME Typed, UNCHANGED <<graph, hops, opening>>, NEW e \in Entries, views' = Append(views, e)
  PROVE  Reached' = Reached \cup Offers(e) /\ Embedded' = Embedded \cup {RequestKey(e.request)}
<1>1. Reached' = {RequestKey(opening)} \cup UNION {Offers(views'[i]) : i \in DOMAIN views'}
  BY DEF Reached, Offers, NextRequests, Ask, OfKind, Nodes
<1>2. /\ DOMAIN views = 1 .. Len(views) /\ DOMAIN views' = 1 .. Len(views) + 1 /\ Len(views) \in Nat
      /\ \A i \in 1 .. Len(views) : views'[i] = views[i]
      /\ views'[Len(views) + 1] = e
  BY DEF Typed
<1>3. 1 .. Len(views) + 1 = (1 .. Len(views)) \cup {Len(views) + 1}
  BY <1>2
<1>4. UNION {Offers(views'[i]) : i \in DOMAIN views'} = (UNION {Offers(views[i]) : i \in DOMAIN views}) \cup Offers(e)
  <2>. DEFINE n == Len(views)
              new == [i \in 1 .. n + 1 |-> Offers(views'[i])]
              old == [i \in 1 .. n |-> Offers(views[i])]
  <2>1. /\ UNION {Offers(views'[i]) : i \in DOMAIN views'} = UNION {new[i] : i \in 1 .. n + 1}
        /\ UNION {Offers(views[i]) : i \in DOMAIN views} = UNION {old[i] : i \in 1 .. n}
    BY <1>2
  <2>2. new[n + 1] = Offers(e) /\ \A i \in 1 .. n : new[i] = old[i]
    BY <1>2
  <2>. HIDE DEF new, old
  <2>3. UNION {new[i] : i \in 1 .. n + 1} = (UNION {old[i] : i \in 1 .. n}) \cup Offers(e)
    <3>1. \A i \in 1 .. n : new[i] = old[i]
      BY <2>2
    <3>. HIDE DEF n
    <3>2. n \in Nat
      BY <1>2 DEF n
    <3>3. UNION {new[i] : i \in 1 .. n + 1} = (UNION {old[i] : i \in 1 .. n}) \cup new[n + 1]
      BY <3>1, <3>2, UnionGrows
    <3>. QED
      BY <2>2, <3>3
  <2>. QED
    BY <2>1, <2>3
<1>5. Embedded' = Embedded \cup {RequestKey(e.request)}
  BY <1>2, <1>3 DEF Embedded
<1>6. Reached = {RequestKey(opening)} \cup UNION {Offers(views[i]) : i \in DOMAIN views}
  BY DEF Reached
<1>. QED
  BY <1>1, <1>4, <1>5, <1>6

\* Embedding takes one key out of what is missing and puts in the keys of the
\* new requests; the queues follow.
LEMMA EmbedSought ==
  ASSUME Typed, Sought, Cardinality(Missing) = viewsOmitted + StillQueued,
         UNCHANGED <<graph, hops, opening>>,
         NEW kind \in QuotaKinds, queues[kind] # <<>>, NEW view \in Drawings, Embed(kind, view)
  PROVE  /\ queues' \in [QuotaKinds -> Seq(Requests)] /\ views' \in Seq(Entries) /\ IsFiniteSet(seen')
         /\ Sought' /\ Cardinality(Missing') = viewsOmitted' + StillQueued'
<1>. DEFINE req == Head(queues[kind])
            key == RequestKey(req)
            next == NextRequests(req, view)
            fresh == {r \in next : RequestKey(r) \notin seen}
            of(k) == {r \in fresh : QuotaKind(r) = k}
            add == [k \in QuotaKinds |-> InOrder(of(k))]
            rest == [k \in QuotaKinds |-> IF k = kind THEN Tail(queues[kind]) ELSE queues[k]]
            new == {RequestKey(r) : r \in fresh}
            e == [request |-> req, view |-> view]
<1>1. /\ req \in Requests /\ key \in Missing /\ QuotaKind(key) = kind
      /\ \A k \in QuotaKinds : /\ rest[k] \in Seq(Requests) /\ Distinct(rest[k])
                               /\ Keys(rest[k]) = Keys(queues[k]) \ {key}
                               /\ Len(rest[k]) = IF k = kind THEN Len(queues[k]) - 1 ELSE Len(queues[k])
  <2>1. \A k \in QuotaKinds : queues[k] \in Seq(Requests) /\ Distinct(queues[k])
    BY DEF Typed, Sought
  <2>2. /\ req \in Requests /\ key \in Missing /\ QuotaKind(key) = kind
        /\ Tail(queues[kind]) \in Seq(Requests) /\ Len(Tail(queues[kind])) = Len(queues[kind]) - 1
        /\ Distinct(Tail(queues[kind])) /\ Keys(Tail(queues[kind])) = Keys(queues[kind]) \ {key}
        /\ \A o \in QuotaKinds \ {kind} : key \notin Keys(queues[o])
    BY HeadLeaves
  <2>. HIDE DEF req, key
  <2>. QED
    BY <2>1, <2>2
<1>2. /\ IsFiniteSet(next) /\ next \subseteq Requests
      /\ \A x, y \in next : RequestKey(x) = RequestKey(y) => x = y \/ RequestKey(x) = key
  BY <1>1, NextAreRequests DEF Typed
<1>3. /\ views' = Append(views, e) /\ seen' = seen \cup new /\ viewsOmitted' = viewsOmitted
      /\ queues' = [k \in QuotaKinds |-> rest[k] \o add[k]] /\ e \in Entries
  <2>1. queues' = Queued([queues EXCEPT ![kind] = Tail(@)], fresh)
    BY DEF Embed
  <2>2. queues \in [QuotaKinds -> Seq(Requests)]
    BY DEF Typed
  <2>3. rest = [queues EXCEPT ![kind] = Tail(@)] /\ DOMAIN rest = QuotaKinds
    BY <2>2
  <2>4. queues' = [k \in QuotaKinds |-> rest[k] \o add[k]]
    <3>. HIDE DEF rest, fresh
    <3>. QED
      BY <2>1, <2>3 DEF Queued
  <2>. QED
    BY <1>1, <2>4 DEF Embed, Entries
<1>. HIDE DEF rest, next, e
<1>4. ASSUME NEW k \in QuotaKinds
      PROVE  /\ add[k] \in Seq(Requests) /\ Distinct(add[k]) /\ Keys(add[k]) \cap seen = {}
             /\ Keys(add[k]) = {x \in new : QuotaKind(x) = k}
             /\ IsFiniteSet(Keys(add[k])) /\ Cardinality(Keys(add[k])) = Len(add[k]) /\ Len(add[k]) \in Nat
  <2>. DEFINE S == of(k)
  <2>1. S \in SUBSET next /\ S \subseteq Requests
    BY <1>2
  <2>2. \A x, y \in S : RequestKey(x) = RequestKey(y) => x = y
    BY <1>1, <1>2 DEF Missing
  <2>3. \A x \in S : RequestKey(x) \notin seen
    OBVIOUS
  <2>4. {RequestKey(x) : x \in S} = {x \in new : QuotaKind(x) = k}
    <3>1. \A r \in fresh : QuotaKind(RequestKey(r)) = QuotaKind(r)
      BY <1>2, KeyFields
    <3>. QED
      BY <3>1
  <2>5. add[k] = InOrder(S)
    OBVIOUS
  <2>. HIDE DEF S, add, new
  <2>6. IsFiniteSet(S)
    BY <1>2, <2>1, FS_Subset
  <2>7. /\ add[k] \in Seq(S) /\ Distinct(add[k]) /\ Keys(add[k]) = {RequestKey(x) : x \in S}
    BY <2>2, <2>5, <2>6, OrderedKeys
  <2>8. add[k] \in Seq(Requests)
    BY <2>1, <2>7
  <2>9. IsFiniteSet(Keys(add[k])) /\ Cardinality(Keys(add[k])) = Len(add[k]) /\ Len(add[k]) \in Nat
    <3>1. IsFiniteSet(Keys(add[k])) /\ Cardinality(Keys(add[k])) = Len(add[k])
      BY <2>7, <2>8, KeysCount
    <3>. QED
      BY <2>8, <3>1
  <2>. QED
    BY <2>3, <2>4, <2>7, <2>8, <2>9
<1>. HIDE DEF add
<1>5. ASSUME NEW k \in QuotaKinds
      PROVE  /\ queues'[k] \in Seq(Requests) /\ Distinct(queues'[k])
             /\ Keys(queues'[k]) = Keys(rest[k]) \cup Keys(add[k])
             /\ Len(queues'[k]) = Len(rest[k]) + Len(add[k])
  <2>1. Keys(rest[k]) \subseteq seen
    BY <1>1 DEF Sought, Missing
  <2>2. Keys(rest[k]) \cap Keys(add[k]) = {}
    BY <1>4, <2>1
  <2>3. queues'[k] = rest[k] \o add[k]
    BY <1>3
  <2>. QED
    BY <1>1, <1>4, <2>2, <2>3, ConcatKeys
<1>6. Reached' = Reached \cup Offers(e) /\ Embedded' = Embedded \cup {key}
  <2>1. e.request = req
    BY DEF e
  <2>. QED
    BY <1>3, <2>1, ReachedGrows
<1>7. seen' = Reached'
  <2>1. Offers(e) = {RequestKey(r) : r \in next}
    BY DEF Offers, e, next
  <2>2. {RequestKey(r) : r \in next} \cup seen = new \cup seen
    OBVIOUS
  <2>. QED
    BY <1>3, <1>6, <2>1, <2>2 DEF Sought
<1>8. Missing' = (Missing \ {key}) \cup new /\ new \cap seen = {} /\ Embedded' \subseteq seen'
  BY <1>1, <1>3, <1>6 DEF Missing, Sought
<1>9. new = Keys(add["map"]) \cup Keys(add["contract"]) \cup Keys(add["call"])
  <2>1. \A x \in new : QuotaKind(x) \in QuotaKinds
    BY <1>2, KeyFields DEF QuotaKinds
  <2>2. \A k \in QuotaKinds : Keys(add[k]) = {x \in new : QuotaKind(x) = k}
    BY <1>4
  <2>. HIDE DEF new
  <2>. QED
    BY <2>1, <2>2 DEF QuotaKinds
<1>10. IsFiniteSet(new) /\ Cardinality(new) = Len(add["map"]) + Len(add["contract"]) + Len(add["call"])
  <2>. DEFINE M == Keys(add["map"])
              C == Keys(add["contract"])
              F == Keys(add["call"])
  <2>1. /\ IsFiniteSet(M) /\ IsFiniteSet(C) /\ IsFiniteSet(F) /\ M \cap C = {} /\ (M \cup C) \cap F = {}
        /\ Cardinality(M) = Len(add["map"]) /\ Cardinality(C) = Len(add["contract"])
        /\ Cardinality(F) = Len(add["call"])
    <3>1. \A k \in QuotaKinds : /\ IsFiniteSet(Keys(add[k])) /\ Cardinality(Keys(add[k])) = Len(add[k])
                                /\ \A x \in Keys(add[k]) : QuotaKind(x) = k
      BY <1>4
    <3>. QED
      BY <3>1 DEF QuotaKinds
  <2>. HIDE DEF M, C, F, new
  <2>2. IsFiniteSet(M \cup C) /\ Cardinality(M \cup C) = Cardinality(M) + Cardinality(C)
    BY <2>1, DisjointUnion
  <2>3. IsFiniteSet((M \cup C) \cup F) /\ Cardinality((M \cup C) \cup F) = Cardinality(M \cup C) + Cardinality(F)
    BY <2>1, <2>2, DisjointUnion
  <2>4. new = (M \cup C) \cup F
    BY <1>9 DEF M, C, F
  <2>. QED
    BY <2>1, <2>2, <2>3, <2>4
<1>11. Cardinality(Missing') = (Cardinality(Missing) - 1) + Cardinality(new) /\ IsFiniteSet(seen')
  <2>. HIDE DEF new, key
  <2>1. IsFiniteSet(Missing) /\ IsFiniteSet(seen)
    <3>1. Missing \in SUBSET seen /\ IsFiniteSet(seen)
      BY DEF Missing, Typed
    <3>. QED
      BY <3>1, FS_Subset
  <2>2. IsFiniteSet(Missing \ {key}) /\ Cardinality(Missing \ {key}) = Cardinality(Missing) - 1
    BY <1>1, <2>1, FS_RemoveElement
  <2>3. (Missing \ {key}) \cap new = {}
    BY <1>8 DEF Missing
  <2>4. Cardinality((Missing \ {key}) \cup new) = Cardinality(Missing \ {key}) + Cardinality(new)
    BY <1>10, <2>2, <2>3, DisjointUnion
  <2>. QED
    BY <1>3, <1>8, <1>10, <2>1, <2>2, <2>4, FS_Union
<1>12. StillQueued' = (StillQueued - 1) + (Len(add["map"]) + Len(add["contract"]) + Len(add["call"]))
       /\ StillQueued \in Nat
  <2>1. \A k \in QuotaKinds : /\ Len(queues[k]) \in Nat /\ Len(add[k]) \in Nat
                              /\ Len(queues'[k]) = (IF k = kind THEN Len(queues[k]) - 1 ELSE Len(queues[k]))
                                                   + Len(add[k])
    <3>. TAKE k \in QuotaKinds
    <3>1. queues[k] \in Seq(Requests)
      BY DEF Typed
    <3>2. Len(queues'[k]) = Len(rest[k]) + Len(add[k]) /\ Len(add[k]) \in Nat
      BY <1>4, <1>5
    <3>3. Len(rest[k]) = IF k = kind THEN Len(queues[k]) - 1 ELSE Len(queues[k])
      BY <1>1
    <3>. QED
      BY <3>1, <3>2, <3>3
  <2>2. /\ StillQueued = Len(queues["map"]) + Len(queues["contract"]) + Len(queues["call"])
        /\ StillQueued' = Len(queues'["map"]) + Len(queues'["contract"]) + Len(queues'["call"])
    BY DEF StillQueued
  <2>3. "map" \in QuotaKinds /\ "contract" \in QuotaKinds /\ "call" \in QuotaKinds
    BY DEF QuotaKinds
  <2>4. PICK was : \A k \in QuotaKinds : was[k] = Len(queues[k])
    <3>. WITNESS [k \in QuotaKinds |-> Len(queues[k])]
    <3>. QED
      OBVIOUS
  <2>5. PICK more : \A k \in QuotaKinds : more[k] = Len(add[k])
    <3>. WITNESS [k \in QuotaKinds |-> Len(add[k])]
    <3>. QED
      OBVIOUS
  <2>6. PICK now : \A k \in QuotaKinds : now[k] = Len(queues'[k])
    <3>. WITNESS [k \in QuotaKinds |-> Len(queues'[k])]
    <3>. QED
      OBVIOUS
  <2>7. \A k \in QuotaKinds : /\ was[k] \in Nat /\ more[k] \in Nat
                              /\ now[k] = IF k = kind THEN was[k] - 1 + more[k] ELSE was[k] + more[k]
    BY <2>1, <2>4, <2>5, <2>6
  <2>8. /\ StillQueued = was["map"] + was["contract"] + was["call"]
        /\ StillQueued' = now["map"] + now["contract"] + now["call"]
        /\ Len(add["map"]) = more["map"] /\ Len(add["contract"]) = more["contract"]
        /\ Len(add["call"]) = more["call"]
    BY <2>2, <2>3, <2>4, <2>5, <2>6
  <2>9. /\ now["map"] + now["contract"] + now["call"]
              = (was["map"] + was["contract"] + was["call"]) - 1 + (more["map"] + more["contract"] + more["call"])
        /\ was["map"] + was["contract"] + was["call"] \in Nat
    <3>1. /\ kind \in {"map", "contract", "call"}
          /\ \A k \in {"map", "contract", "call"} :
                /\ was[k] \in Nat /\ more[k] \in Nat
                /\ now[k] = IF k = kind THEN was[k] - 1 + more[k] ELSE was[k] + more[k]
      BY <2>7 DEF QuotaKinds
    <3>. QED
      BY <3>1, Tally
  <2>. QED
    BY <2>8, <2>9
<1>13. Cardinality(Embedded') = Len(views')
  <2>. HIDE DEF key
  <2>1. IsFiniteSet(Embedded)
    <3>1. Embedded \in SUBSET seen /\ IsFiniteSet(seen)
      BY DEF Sought, Typed
    <3>. QED
      BY <3>1, FS_Subset
  <2>2. Cardinality(Embedded \cup {key}) = Cardinality(Embedded) + 1
    BY <1>1, <2>1, FS_AddElement DEF Missing
  <2>3. Len(views') = Len(views) + 1
    BY <1>3 DEF Typed
  <2>. QED
    BY <1>6, <2>2, <2>3 DEF Sought
<1>14. ASSUME NEW k \in QuotaKinds
       PROVE  /\ Distinct(queues'[k]) /\ Keys(queues'[k]) \subseteq Missing'
              /\ \A x \in Keys(queues'[k]) : QuotaKind(x) = k
  <2>1. /\ Keys(queues'[k]) = (Keys(queues[k]) \ {key}) \cup {x \in new : QuotaKind(x) = k}
    BY <1>1, <1>4, <1>5
  <2>2. Keys(queues[k]) \subseteq Missing /\ \A x \in Keys(queues[k]) : QuotaKind(x) = k
    BY DEF Sought
  <2>. HIDE DEF new, key
  <2>. QED
    BY <1>5, <1>8, <2>1, <2>2
<1>15. queues' \in [QuotaKinds -> Seq(Requests)]
  BY <1>3, <1>5
<1>16. views' \in Seq(Entries)
  BY <1>3 DEF Typed
<1>17. Sought'
  <2>. HIDE DEF new, key, req, fresh
  <2>. QED
    BY <1>7, <1>8, <1>13, <1>14 DEF Sought
<1>18. Cardinality(Missing') = viewsOmitted' + StillQueued'
  <2>1. viewsOmitted \in Nat /\ viewsOmitted' = viewsOmitted
    BY <1>3 DEF Typed
  <2>2. Cardinality(new) \in Nat
    BY <1>10, FS_CardinalityType
  <2>. DEFINE N == Cardinality(new)
              M == Cardinality(Missing)
  <2>. HIDE DEF N, M
  <2>3. Cardinality(Missing') = (M - 1) + N /\ M = viewsOmitted + StillQueued
    BY <1>11 DEF N, M
  <2>4. StillQueued' = (StillQueued - 1) + N /\ StillQueued \in Nat /\ N \in Nat
    BY <1>10, <1>12, <2>2 DEF N
  <2>. QED
    BY <2>1, <2>3, <2>4
<1>. QED
  BY <1>11, <1>15, <1>16, <1>17, <1>18

\* What the views cost is a number, and nothing before there is one.
LEMMA Costs ==
  ASSUME Typed, Within
  PROVE  /\ Sizes(views) \in Nat /\ Cardinality(nodeTable) \in Nat /\ Drawn \in Nat /\ FirstCost \in Nat
         /\ views = <<>> => nodeTable = {} /\ Drawn = 0 /\ FirstCost = 0
<1>1. \A e \in Entries : e.view.size \in Nat /\ IsFiniteSet(e.view.nodes)
  BY DEF Entries, Drawings
<1>2. views \in Seq(Entries) /\ IsFiniteSet(nodeTable)
  BY DEF Typed, Within
<1>3. Sizes(views) \in Nat
  <2>1. PICK F : Sizes(views) = F[Len(views)] /\ \A i \in 0 .. Len(views) : F[i] \in Nat
    BY <1>1, <1>2, SizesAreSums
  <2>2. Len(views) \in 0 .. Len(views)
    BY <1>2
  <2>. QED
    BY <2>1, <2>2
<1>4. Cardinality(nodeTable) \in Nat
  BY <1>2, FS_CardinalityType
<1>5. FirstCost \in Nat
  <2>1. CASE views # <<>>
    <3>1. views[1] \in Entries
      BY <1>2, <2>1
    <3>2. views[1].view.size \in Nat /\ Cardinality(views[1].view.nodes) \in Nat
      BY <1>1, <3>1, FS_CardinalityType
    <3>. QED
      BY <2>1, <3>2 DEF FirstCost, Unit
  <2>. QED
    BY <2>1 DEF FirstCost
<1>6. views = <<>> => nodeTable = {}
  BY DEF Within, DrawnNodes, ToSet
<1>7. views = <<>> => Drawn = 0 /\ FirstCost = 0
  <2>. HAVE views = <<>>
  <2>1. Sizes(views) = 0 /\ Cardinality(nodeTable) = 0
    BY <1>6, FS_EmptySet, NothingHasNoSize
  <2>. QED
    BY <2>1 DEF Drawn, FirstCost, Unit
<1>. QED
  BY <1>3, <1>4, <1>5, <1>6, <1>7 DEF Drawn, Unit

\* A view costs what it adds.
LEMMA EmbedCosts ==
  ASSUME Typed, Within, NEW kind, NEW view \in Drawings, Head(queues[kind]) \in Requests, Embed(kind, view)
  PROVE  /\ nodeTable' = DrawnNodes' /\ IsFiniteSet(nodeTable')
         /\ Cost(view) \in Nat /\ Drawn' = Drawn + Cost(view) /\ used' = used + Cost(view)
         /\ FirstCost' = IF views = <<>> THEN Cost(view) ELSE FirstCost
<1>. DEFINE e == [request |-> Head(queues[kind]), view |-> view]
            more == view.nodes \ nodeTable
<1>1. \A x \in Entries : x.view.size \in Nat /\ IsFiniteSet(x.view.nodes)
  BY DEF Entries, Drawings
<1>2. /\ views \in Seq(Entries) /\ IsFiniteSet(nodeTable) /\ nodeTable = DrawnNodes
      /\ e \in Entries /\ e.view = view /\ view.size \in Nat /\ IsFiniteSet(view.nodes)
  BY DEF Typed, Within, Entries, Drawings
<1>3. views' = Append(views, e) /\ nodeTable' = nodeTable \cup view.nodes /\ used' = used + Cost(view)
  BY DEF Embed
<1>. HIDE DEF e
<1>4. nodeTable' = DrawnNodes'
  <2>. DEFINE nodesOf == [v \in Entries |-> v.view.nodes]
              was == ToSet(views)
              now == ToSet(views')
  <2>1. was \subseteq Entries /\ now = was \cup {e} /\ now \subseteq Entries
    <3>1. /\ DOMAIN views = 1 .. Len(views) /\ DOMAIN views' = 1 .. Len(views) + 1 /\ Len(views) \in Nat
          /\ \A i \in 1 .. Len(views) : views'[i] = views[i] /\ views[i] \in Entries
          /\ views'[Len(views) + 1] = e
      BY <1>2, <1>3
    <3>2. 1 .. Len(views) + 1 = (1 .. Len(views)) \cup {Len(views) + 1}
      BY <3>1
    <3>. QED
      BY <1>2, <3>1, <3>2 DEF ToSet
  <2>2. DrawnNodes = UNION {nodesOf[v] : v \in was} /\ DrawnNodes' = UNION {nodesOf[v] : v \in now}
    BY <2>1 DEF DrawnNodes
  <2>3. nodesOf[e] = view.nodes
    BY <1>2
  <2>. HIDE DEF nodesOf, was, now
  <2>4. ASSUME NEW z PROVE z \in DrawnNodes' <=> z \in DrawnNodes \/ z \in view.nodes
    <3>1. z \in DrawnNodes' <=> \E v \in now : z \in nodesOf[v]
      BY <2>2, InUnion
    <3>2. z \in DrawnNodes <=> \E v \in was : z \in nodesOf[v]
      BY <2>2, InUnion
    <3>. QED
      BY <2>1, <2>3, <3>1, <3>2
  <2>5. DrawnNodes' = nodeTable \cup view.nodes
    BY <1>2, <2>4
  <2>. QED
    BY <1>3, <2>5
<1>5. /\ IsFiniteSet(nodeTable') /\ Cardinality(more) \in Nat
      /\ Cardinality(nodeTable') = Cardinality(nodeTable) + Cardinality(more)
  <2>1. more \in SUBSET view.nodes /\ nodeTable' = nodeTable \cup more /\ nodeTable \cap more = {}
    BY <1>3
  <2>. HIDE DEF more
  <2>2. IsFiniteSet(more)
    BY <1>2, <2>1, FS_Subset
  <2>. QED
    BY <1>2, <2>1, <2>2, DisjointUnion, FS_CardinalityType
<1>6. Sizes(views') = Sizes(views) + view.size
  BY <1>1, <1>2, <1>3, SizesGrow
<1>7. Cost(view) = view.size + Unit * Cardinality(more)
  BY DEF Cost
<1>. HIDE DEF more
<1>8. Sizes(views) \in Nat /\ Cardinality(nodeTable) \in Nat /\ (views = <<>> => nodeTable = {})
  BY Costs
<1>9. Cost(view) \in Nat /\ Drawn' = Drawn + Cost(view)
  BY <1>2, <1>5, <1>6, <1>7, <1>8 DEF Drawn, Unit
<1>10. FirstCost' = IF views = <<>> THEN Cost(view) ELSE FirstCost
  <2>1. CASE views = <<>>
    <3>1. views' # <<>> /\ views'[1] = e
      BY <1>2, <1>3, <2>1
    <3>2. more = view.nodes
      BY <1>8, <2>1 DEF more
    <3>. QED
      BY <1>2, <1>7, <2>1, <3>1, <3>2 DEF FirstCost
  <2>2. CASE views # <<>>
    <3>1. views' # <<>> /\ views'[1] = views[1]
      BY <1>2, <1>3, <2>2
    <3>. QED
      BY <2>2, <3>1 DEF FirstCost
  <2>. QED
    BY <2>1, <2>2
<1>. QED
  BY <1>3, <1>4, <1>5, <1>9, <1>10

-----------------------------------------------------------------------------
(* The rounds. *)

\* The shares are of the view budget, and the view budget of the budget.
LEMMA Shares ==
  ASSUME NEW V \in Nat
  PROVE  /\ (V * 15) \div 100 \in Nat /\ (V * 35) \div 100 \in Nat /\ (V * 50) \div 100 \in Nat
         /\ (V * 15) \div 100 + (V * 35) \div 100 + (V * 50) \div 100 <= V
OBVIOUS

LEMMA Bounded ==
  ASSUME NEW drawn \in Nat, NEW share \in Nat, NEW whole \in Nat, NEW first \in Nat,
         drawn <= share + first, share <= whole
  PROVE  drawn <= whole + first + 2 * Unit
BY DEF Unit

LEMMA Budgeted ==
  ASSUME budget \in Nat
  PROVE  /\ ViewBudget \in Nat /\ ViewBudget <= budget * Unit /\ budget * Unit \in Nat
         /\ \A k \in QuotaKinds : Allowance(k) \in Nat
         /\ Allowance("map") + Allowance("contract") + Allowance("call") <= ViewBudget
<1>1. ViewBudget \in Nat /\ ViewBudget <= budget * Unit /\ budget * Unit \in Nat
  BY DEF ViewBudget, Unit
<1>2. /\ Allowance("map") = (ViewBudget * 15) \div 100 /\ Allowance("contract") = (ViewBudget * 35) \div 100
      /\ Allowance("call") = (ViewBudget * 50) \div 100
  BY DEF Allowance, Quota
<1>. QED
  BY <1>1, <1>2, Shares DEF QuotaKinds

\* Three kinds within their shares, one of them but for the first view.
LEMMA SharesAdd ==
  ASSUME NEW V \in Nat, NEW F \in Nat, NEW kind \in QuotaKinds, NEW share, NEW s,
         share["map"] + share["contract"] + share["call"] <= V,
         \A k \in QuotaKinds : /\ share[k] \in Nat /\ s[k] \in Int
                               /\ s[k] <= IF k = kind THEN share[k] + F ELSE share[k]
  PROVE  s["map"] + s["contract"] + s["call"] <= V + F
<1>1. /\ share["map"] \in Nat /\ share["contract"] \in Nat /\ share["call"] \in Nat
      /\ s["map"] \in Int /\ s["contract"] \in Int /\ s["call"] \in Int
  BY DEF QuotaKinds
<1>2. \/ s["map"] <= share["map"] + F /\ s["contract"] <= share["contract"] /\ s["call"] <= share["call"]
      \/ s["map"] <= share["map"] /\ s["contract"] <= share["contract"] + F /\ s["call"] <= share["call"]
      \/ s["map"] <= share["map"] /\ s["contract"] <= share["contract"] /\ s["call"] <= share["call"] + F
  BY DEF QuotaKinds
<1>. QED
  BY <1>1, <1>2

LEMMA OneSpends ==
  ASSUME NEW kind \in QuotaKinds, NEW cost \in Nat, NEW was, NEW now,
         \A k \in QuotaKinds : was[k] \in Int /\ now[k] = IF k = kind THEN was[k] + cost ELSE was[k]
  PROVE  now["map"] + now["contract"] + now["call"] = was["map"] + was["contract"] + was["call"] + cost
<1>1. was["map"] \in Int /\ was["contract"] \in Int /\ was["call"] \in Int
  BY DEF QuotaKinds
<1>2. \/ now["map"] = was["map"] + cost /\ now["contract"] = was["contract"] /\ now["call"] = was["call"]
      \/ now["map"] = was["map"] /\ now["contract"] = was["contract"] + cost /\ now["call"] = was["call"]
      \/ now["map"] = was["map"] /\ now["contract"] = was["contract"] /\ now["call"] = was["call"] + cost
  BY DEF QuotaKinds
<1>. QED
  BY <1>1, <1>2

\* Where nothing is embedded or omitted, everything the invariant counts is
\* as it was.
LEMMA AsItWas ==
  ASSUME UNCHANGED <<graph, hops, opening, budget, views>>
  PROVE  /\ Reached' = Reached /\ Embedded' = Embedded /\ FirstCost' = FirstCost /\ DrawnNodes' = DrawnNodes
         /\ ViewBudget' = ViewBudget /\ \A k \in QuotaKinds : Over(k)' = Over(k) /\ Allowance(k)' = Allowance(k)
<1>1. Reached' = Reached
  BY DEF Reached, Offers, NextRequests, Ask, OfKind, Nodes
<1>2. Embedded' = Embedded /\ FirstCost' = FirstCost /\ DrawnNodes' = DrawnNodes
  BY DEF Embedded, FirstCost, DrawnNodes
<1>3. ViewBudget' = ViewBudget
  BY DEF ViewBudget
<1>4. ASSUME NEW k \in QuotaKinds PROVE Over(k)' = Over(k) /\ Allowance(k)' = Allowance(k)
  BY <1>2, <1>3 DEF Over, Allowance
<1>. QED
  BY <1>1, <1>2, <1>3, <1>4

\* A turn: what it has to show for the invariant to hold again.
LEMMA TurnKeeps ==
  ASSUME IInv, Growing, phase' \in {"quota", "drain", "count", "aborted"}, turn' \in 1 .. 3,
         UNCHANGED <<options, details, reader>>,
         queues' \in [QuotaKinds -> Seq(Requests)], views' \in Seq(Entries), IsFiniteSet(seen'),
         viewsOmitted' \in Nat, viewsOmitted <= viewsOmitted', Len(views) <= Len(views'),
         Sought', Cardinality(Missing') = viewsOmitted' + StillQueued',
         nodeTable' = DrawnNodes', IsFiniteSet(nodeTable'),
         Drawn' \in Nat, FirstCost' \in Nat, used' = Drawn', Drawn' <= ViewBudget + FirstCost', Spent'
  PROVE  IInv'
<1>1. Typed'
  <2>1. held \in 0 .. Len(views') /\ held' = held
    BY DEF IInv, Typed, reader
  <2>. QED
    BY <2>1 DEF IInv, Typed, options, details, reader
<1>2. Counted'
  BY DEF Counted, Growing
<1>3. Within'
  BY DEF Within, ViewBudget, options
<1>4. Weighed'
  <2>1. Growing' /\ inspections' = {} /\ sources' = {} /\ budget' = budget
    BY DEF Growing, IInv, Weighed, options, details
  <2>2. Cardinality(inspections') = 0 /\ Cardinality(sources') = 0
    BY <2>1, FS_EmptySet
  <2>3. budget \in Nat /\ ViewBudget \in Nat /\ ViewBudget <= budget * Unit /\ budget * Unit \in Nat
    BY Budgeted DEF IInv, Typed
  <2>4. used' = Drawn' + Unit * Cardinality(inspections') + 2 * Unit * Cardinality(sources')
    <3>1. Unit * Cardinality(inspections') = 0 /\ 2 * Unit * Cardinality(sources') = 0
      BY <2>2 DEF Unit
    <3>. QED
      BY <3>1
  <2>5. used' <= budget' * Unit + FirstCost' + 2 * Unit
    BY <2>1, <2>3, Bounded
  <2>. QED
    BY <2>1, <2>4, <2>5 DEF Weighed, Growing
<1>5. NodeClicksAreAnswered'
  BY DEF IInv, Typed, NodeClicksAreAnswered, reader
<1>. QED
  BY <1>1, <1>2, <1>3, <1>4, <1>5 DEF IInv

LEMMA AdvanceGoesOn ==
  ASSUME turn \in 1 .. 3, NEW progress, NEW another, NEW next, Advance(progress, another, next)
  PROVE  turn' \in 1 .. 3 /\ phase' \in {phase, next}
<1>1. Len(Kinds) = 3
  BY DEF Kinds
<1>. QED
  BY <1>1 DEF Advance

LEMMA KindHasAQueue ==
  ASSUME turn \in 1 .. 3
  PROVE  Kind \in QuotaKinds
BY DEF Kind, Kinds, QuotaKinds

LEMMA UsedIsDrawn ==
  ASSUME IInv, Growing
  PROVE  used = Drawn /\ Drawn \in Nat /\ FirstCost \in Nat
<1>1. Drawn \in Nat /\ FirstCost \in Nat
  BY Costs DEF IInv
<1>2. Cardinality(inspections) = 0 /\ Cardinality(sources) = 0
  BY FS_EmptySet DEF IInv, Weighed
<1>3. Unit * Cardinality(inspections) = 0 /\ 2 * Unit * Cardinality(sources) = 0
  BY <1>2 DEF Unit
<1>. QED
  BY <1>1, <1>3 DEF IInv, Weighed

\* In the round of the quotas, the kinds have spent what the views cost.
LEMMA SpentIsWithin ==
  ASSUME NEW V \in Nat, NEW F \in Nat, NEW s, NEW first,
         V = ViewBudget, budget \in Nat,
         \A k \in QuotaKinds : s[k] \in Int /\ s[k] <= Allowance(k) + (IF k = first THEN F ELSE 0)
  PROVE  s["map"] + s["contract"] + s["call"] <= V + F
<1>1. /\ \A k \in QuotaKinds : Allowance(k) \in Nat
      /\ Allowance("map") + Allowance("contract") + Allowance("call") <= V
  BY Budgeted
<1>2. PICK share : \A k \in QuotaKinds : share[k] = Allowance(k)
  <2>. WITNESS [k \in QuotaKinds |-> Allowance(k)]
  <2>. QED
    OBVIOUS
<1>3. share["map"] + share["contract"] + share["call"] <= V
  BY <1>1, <1>2 DEF QuotaKinds
<1>4. \A k \in QuotaKinds : /\ share[k] \in Nat /\ s[k] \in Int
                            /\ s[k] <= share[k] + (IF k = first THEN F ELSE 0)
  BY <1>1, <1>2
<1>5. PICK kind \in QuotaKinds : first \in QuotaKinds => kind = first
  BY DEF QuotaKinds
<1>6. \A k \in QuotaKinds : s[k] <= IF k = kind THEN share[k] + F ELSE share[k]
  BY <1>4, <1>5
<1>. QED
  BY <1>3, <1>4, <1>6, SharesAdd

LEMMA EmbedKeeps ==
  ASSUME IInv, phase \in {"quota", "drain"}, phase' \in {"quota", "drain", "count"}, turn' \in 1 .. 3,
         phase = "drain" => phase' # "quota",
         UNCHANGED <<options, details, reader>>,
         NEW kind \in QuotaKinds, queues[kind] # <<>>, NEW view \in Drawings, Embed(kind, view),
         phase = "quota" => views = <<>> \/ Cost(view) <= Allowance(kind) - spent[kind],
         phase = "drain" => Cost(view) <= ViewBudget - used
  PROVE  IInv'
<1>1. /\ Growing /\ Typed /\ Sought /\ Within /\ Cardinality(Missing) = viewsOmitted + StillQueued
      /\ UNCHANGED <<graph, hops, opening, budget, cap>>
  BY DEF IInv, Counted, Growing, options
<1>2. /\ queues' \in [QuotaKinds -> Seq(Requests)] /\ views' \in Seq(Entries) /\ IsFiniteSet(seen')
      /\ Sought' /\ Cardinality(Missing') = viewsOmitted' + StillQueued'
  BY <1>1, EmbedSought
<1>3. Head(queues[kind]) \in Requests /\ RequestKey(Head(queues[kind])) \in Missing
      /\ QuotaKind(Head(queues[kind])) = kind
  <2>1. Head(queues[kind]) \in Requests /\ QuotaKind(RequestKey(Head(queues[kind]))) = kind
        /\ RequestKey(Head(queues[kind])) \in Missing
    BY <1>1, HeadLeaves
  <2>. QED
    BY <2>1, KeyFields
<1>4. /\ nodeTable' = DrawnNodes' /\ IsFiniteSet(nodeTable')
      /\ Cost(view) \in Nat /\ Drawn' = Drawn + Cost(view) /\ used' = used + Cost(view)
      /\ FirstCost' = IF views = <<>> THEN Cost(view) ELSE FirstCost
  BY <1>1, <1>3, EmbedCosts
<1>5. used = Drawn /\ Drawn \in Nat /\ FirstCost \in Nat
  BY <1>1, UsedIsDrawn
<1>6. /\ viewsOmitted' = viewsOmitted /\ viewsOmitted \in Nat
      /\ views' = Append(views, [request |-> Head(queues[kind]), view |-> view]) /\ views \in Seq(Entries)
  BY <1>1 DEF Embed, Typed
<1>7. Len(views) <= Len(views')
  BY <1>6
<1>8. /\ ViewBudget \in Nat /\ ViewBudget' = ViewBudget
      /\ \A k \in QuotaKinds : Allowance(k) \in Nat /\ Allowance(k)' = Allowance(k)
  BY <1>1, Budgeted DEF Typed, ViewBudget, Allowance
<1>9. CASE phase = "quota"
  <2>1. /\ spent' = [spent EXCEPT ![kind] = @ + Cost(view)]
        /\ spent \in [QuotaKinds -> Int]
        /\ Drawn = spent["map"] + spent["contract"] + spent["call"]
        /\ \A k \in QuotaKinds : spent[k] <= Allowance(k) + Over(k)
        /\ views = <<>> => \A k \in QuotaKinds : spent[k] = 0
    BY <1>9 DEF Embed, IInv, Spent
  <2>2. \A k \in QuotaKinds : /\ spent'[k] \in Int /\ spent[k] \in Int
                              /\ spent'[k] = IF k = kind THEN spent[k] + Cost(view) ELSE spent[k]
    BY <1>4, <2>1
  <2>3. Drawn' = spent'["map"] + spent'["contract"] + spent'["call"]
    <3>1. PICK now : \A k \in QuotaKinds : now[k] = spent'[k]
      <4>. WITNESS [k \in QuotaKinds |-> spent'[k]]
      <4>. QED
        OBVIOUS
    <3>2. now["map"] + now["contract"] + now["call"]
            = spent["map"] + spent["contract"] + spent["call"] + Cost(view)
      <4>1. \A k \in QuotaKinds : spent[k] \in Int /\ now[k] = IF k = kind THEN spent[k] + Cost(view) ELSE spent[k]
        BY <2>2, <3>1
      <4>. QED
        BY <1>4, <4>1, OneSpends
    <3>. QED
      BY <1>4, <2>1, <3>1, <3>2 DEF QuotaKinds
  <2>. DEFINE first == QuotaKind(views'[1].request)
  <2>4. \A k \in QuotaKinds : spent'[k] <= Allowance(k) + (IF k = first THEN FirstCost' ELSE 0)
    <3>1. CASE views = <<>>
      <4>1. views'[1].request = Head(queues[kind])
        BY <1>6, <3>1
      <4>2. first = kind /\ FirstCost' = Cost(view)
        BY <1>3, <1>4, <3>1, <4>1
      <4>. HIDE DEF first
      <4>3. \A k \in QuotaKinds : spent'[k] = IF k = kind THEN Cost(view) ELSE 0
        BY <1>4, <2>1, <2>2, <3>1
      <4>. QED
        BY <1>4, <1>8, <4>2, <4>3
    <3>2. CASE views # <<>>
      <4>1. views'[1] = views[1] /\ FirstCost' = FirstCost
        BY <1>4, <1>6, <3>2
      <4>2. \A k \in QuotaKinds : Over(k) = IF k = first THEN FirstCost ELSE 0
        BY <3>2, <4>1 DEF Over
      <4>3. Cost(view) <= Allowance(kind) - spent[kind]
        BY <1>9, <3>2
      <4>. HIDE DEF first
      <4>4. ASSUME NEW k \in QuotaKinds PROVE spent'[k] <= Allowance(k) + Over(k)
        <5>1. Over(k) \in Nat /\ Allowance(k) \in Nat /\ spent[k] \in Int /\ Cost(view) \in Nat
          BY <1>4, <1>5, <1>8, <2>2, <4>2
        <5>2. CASE k = kind
          BY <2>2, <4>3, <5>1, <5>2
        <5>3. CASE k # kind
          BY <2>1, <2>2, <5>3
        <5>. QED
          BY <5>2, <5>3
      <4>. QED
        BY <4>1, <4>2, <4>4
    <3>. QED
      BY <3>1, <3>2
  <2>. HIDE DEF first
  <2>5. FirstCost' \in Nat /\ Drawn' \in Nat
    BY <1>4, <1>5
  <2>6. Drawn' <= ViewBudget + FirstCost'
    <3>1. budget \in Nat
      BY <1>1 DEF Typed
    <3>2. spent'["map"] + spent'["contract"] + spent'["call"] <= ViewBudget + FirstCost'
      BY <1>8, <2>2, <2>4, <2>5, <3>1, SpentIsWithin
    <3>. QED
      BY <2>3, <3>2
  <2>7. Spent'
    <3>1. \A k \in QuotaKinds : Over(k)' = IF k = first THEN FirstCost' ELSE 0
      BY <1>6 DEF Over, first
    <3>2. views' # <<>>
      BY <1>6
    <3>3. spent' \in [QuotaKinds -> Int]
      BY <2>1, <2>2
    <3>. QED
      BY <1>8, <2>3, <2>4, <3>1, <3>2, <3>3 DEF Spent
  <2>. QED
    BY <1>1, <1>2, <1>4, <1>5, <1>6, <1>7, <2>5, <2>6, <2>7, TurnKeeps
<1>10. CASE phase = "drain"
  <2>1. FirstCost' \in Nat /\ Drawn' \in Nat /\ used' = Drawn'
    BY <1>4, <1>5
  <2>2. Drawn' <= ViewBudget + FirstCost'
    BY <1>4, <1>5, <1>8, <1>10, <2>1
  <2>3. Spent'
    BY <1>10 DEF Spent
  <2>. QED
    BY <1>1, <1>2, <1>4, <1>6, <1>7, <2>1, <2>2, <2>3, TurnKeeps
<1>. QED
  BY <1>9, <1>10

\* One request counted instead of queued.
LEMMA OmitKeeps ==
  ASSUME IInv, phase \in {"quota", "drain"}, phase' \in {"quota", "drain", "count"}, turn' \in 1 .. 3,
         phase = "drain" => phase' # "quota",
         UNCHANGED <<options, details, reader>>,
         NEW kind \in QuotaKinds, queues[kind] # <<>>, Omit(kind)
  PROVE  IInv'
<1>1. /\ Growing /\ Typed /\ Sought /\ Within /\ Cardinality(Missing) = viewsOmitted + StillQueued
      /\ UNCHANGED <<graph, hops, opening, budget, cap>> /\ queues \in [QuotaKinds -> Seq(Requests)]
  BY DEF IInv, Counted, Growing, options, Typed
<1>2. /\ queues' = [queues EXCEPT ![kind] = Tail(@)] /\ viewsOmitted' = viewsOmitted + 1
      /\ UNCHANGED <<seen, views, nodeTable, spent, used>>
  BY DEF Omit
<1>3. /\ Reached' = Reached /\ Embedded' = Embedded /\ FirstCost' = FirstCost /\ DrawnNodes' = DrawnNodes
      /\ ViewBudget' = ViewBudget /\ \A k \in QuotaKinds : Over(k)' = Over(k) /\ Allowance(k)' = Allowance(k)
  BY <1>1, <1>2, AsItWas
<1>4. Missing' = Missing /\ Drawn' = Drawn
  BY <1>2, <1>3 DEF Missing, Drawn
<1>5. /\ Tail(queues[kind]) \in Seq(Requests) /\ Len(Tail(queues[kind])) = Len(queues[kind]) - 1
      /\ Distinct(Tail(queues[kind])) /\ Keys(Tail(queues[kind])) \subseteq Keys(queues[kind])
  BY <1>1, HeadLeaves
<1>6. \A k \in QuotaKinds : /\ queues'[k] = IF k = kind THEN Tail(queues[kind]) ELSE queues[k]
                            /\ Distinct(queues'[k]) /\ Keys(queues'[k]) \subseteq Keys(queues[k])
  BY <1>1, <1>2, <1>5 DEF Sought
<1>7. queues' \in [QuotaKinds -> Seq(Requests)]
  BY <1>1, <1>2, <1>5
<1>8. Sought'
  <2>1. \A k \in QuotaKinds : /\ Distinct(queues'[k]) /\ Keys(queues'[k]) \subseteq Missing'
                              /\ \A key \in Keys(queues'[k]) : QuotaKind(key) = k
    BY <1>1, <1>4, <1>6 DEF Sought
  <2>2. seen' = Reached' /\ Embedded' \subseteq seen' /\ Cardinality(Embedded') = Len(views')
    BY <1>1, <1>2, <1>3 DEF Sought
  <2>. QED
    BY <2>1, <2>2 DEF Sought
<1>9. StillQueued' = StillQueued - 1 /\ StillQueued \in Nat
  <2>1. PICK was : \A k \in QuotaKinds : was[k] = Len(queues[k])
    <3>. WITNESS [k \in QuotaKinds |-> Len(queues[k])]
    <3>. QED
      OBVIOUS
  <2>2. PICK now : \A k \in QuotaKinds : now[k] = Len(queues'[k])
    <3>. WITNESS [k \in QuotaKinds |-> Len(queues'[k])]
    <3>. QED
      OBVIOUS
  <2>3. \A k \in QuotaKinds : was[k] \in Nat /\ now[k] = IF k = kind THEN was[k] - 1 ELSE was[k]
    <3>. TAKE k \in QuotaKinds
    <3>1. queues[k] \in Seq(Requests)
      BY <1>1
    <3>2. was[k] = Len(queues[k]) /\ now[k] = Len(queues'[k]) /\ was[k] \in Nat
      BY <2>1, <2>2, <3>1
    <3>3. queues'[k] = IF k = kind THEN Tail(queues[kind]) ELSE queues[k]
      BY <1>6
    <3>. QED
      BY <1>5, <3>2, <3>3
  <2>4. /\ StillQueued = was["map"] + was["contract"] + was["call"]
        /\ StillQueued' = now["map"] + now["contract"] + now["call"]
    BY <2>1, <2>2 DEF StillQueued, QuotaKinds
  <2>5. PICK more : \A k \in QuotaKinds : more[k] = 0
    <3>. WITNESS [k \in QuotaKinds |-> 0]
    <3>. QED
      OBVIOUS
  <2>6. \A k \in QuotaKinds : /\ was[k] \in Nat /\ more[k] \in Nat
                              /\ now[k] = IF k = kind THEN was[k] - 1 + more[k] ELSE was[k] + more[k]
    BY <2>3, <2>5
  <2>7. /\ now["map"] + now["contract"] + now["call"]
              = (was["map"] + was["contract"] + was["call"]) - 1 + (more["map"] + more["contract"] + more["call"])
        /\ was["map"] + was["contract"] + was["call"] \in Nat
    BY <2>6, Tally DEF QuotaKinds
  <2>8. more["map"] + more["contract"] + more["call"] = 0
    BY <2>5 DEF QuotaKinds
  <2>. QED
    BY <2>4, <2>7, <2>8
<1>10. viewsOmitted \in Nat /\ Cardinality(Missing') = viewsOmitted' + StillQueued'
  BY <1>1, <1>2, <1>4, <1>9 DEF Typed
<1>11. used = Drawn /\ Drawn \in Nat /\ FirstCost \in Nat
  BY <1>1, UsedIsDrawn
<1>12. Spent'
  <2>. SUFFICES ASSUME phase' = "quota" PROVE Spent'
    BY DEF Spent
  <2>1. phase = "quota"
    OBVIOUS
  <2>. QED
    BY <1>2, <1>3, <1>4, <2>1 DEF IInv, Spent
<1>13. views' \in Seq(Entries) /\ IsFiniteSet(seen') /\ Len(views) <= Len(views')
  BY <1>1, <1>2 DEF Typed
<1>14. nodeTable' = DrawnNodes' /\ IsFiniteSet(nodeTable') /\ Drawn' <= ViewBudget + FirstCost'
  BY <1>1, <1>2, <1>3, <1>4 DEF Within
<1>15. viewsOmitted' \in Nat /\ viewsOmitted <= viewsOmitted'
  BY <1>2, <1>10
<1>. QED
  BY <1>1, <1>2, <1>3, <1>4, <1>7, <1>8, <1>10, <1>11, <1>12, <1>13, <1>14, <1>15, TurnKeeps

\* Nothing moves but whose turn it is.
LEMMA StandKeeps ==
  ASSUME IInv, Growing, phase' \in {"quota", "drain", "count", "aborted"}, turn' \in 1 .. 3,
         phase' = "quota" => phase = "quota",
         UNCHANGED <<options, details, reader>>,
         UNCHANGED <<queues, seen, views, nodeTable, spent, used, viewsOmitted>>
  PROVE  IInv'
<1>1. /\ Typed /\ Sought /\ Within /\ Cardinality(Missing) = viewsOmitted + StillQueued
      /\ UNCHANGED <<graph, hops, opening, budget, cap>>
  BY DEF IInv, Counted, Growing, options
<1>2. /\ Reached' = Reached /\ Embedded' = Embedded /\ FirstCost' = FirstCost /\ DrawnNodes' = DrawnNodes
      /\ ViewBudget' = ViewBudget /\ \A k \in QuotaKinds : Over(k)' = Over(k) /\ Allowance(k)' = Allowance(k)
  BY <1>1, AsItWas
<1>3. Missing' = Missing /\ Drawn' = Drawn /\ StillQueued' = StillQueued
  BY <1>2 DEF Missing, Drawn, StillQueued
<1>4. Sought'
  <2>1. \A k \in QuotaKinds : /\ Distinct(queues'[k]) /\ Keys(queues'[k]) \subseteq Missing'
                              /\ \A key \in Keys(queues'[k]) : QuotaKind(key) = k
    BY <1>1, <1>3 DEF Sought
  <2>2. seen' = Reached' /\ Embedded' \subseteq seen' /\ Cardinality(Embedded') = Len(views')
    BY <1>1, <1>2 DEF Sought
  <2>. QED
    BY <2>1, <2>2 DEF Sought
<1>5. used = Drawn /\ Drawn \in Nat /\ FirstCost \in Nat
  BY UsedIsDrawn
<1>6. Spent'
  <2>. SUFFICES ASSUME phase' = "quota" PROVE Spent'
    BY DEF Spent
  <2>1. phase = "quota"
    OBVIOUS
  <2>. QED
    BY <1>2, <1>3, <2>1 DEF IInv, Spent
<1>7. /\ queues' \in [QuotaKinds -> Seq(Requests)] /\ views' \in Seq(Entries) /\ IsFiniteSet(seen')
      /\ viewsOmitted' \in Nat /\ viewsOmitted <= viewsOmitted' /\ Len(views) <= Len(views')
  BY <1>1 DEF Typed
<1>8. nodeTable' = DrawnNodes' /\ IsFiniteSet(nodeTable') /\ Drawn' <= ViewBudget + FirstCost'
  BY <1>1, <1>2, <1>3 DEF Within
<1>. QED
  BY <1>1, <1>2, <1>3, <1>4, <1>5, <1>6, <1>7, <1>8, TurnKeeps

LEMMA WhatFits ==
  ASSUME NEW view \in Drawings, NEW limit \in Int, Status(view, limit) = "embedded", Cost(view) \in Nat
  PROVE  Cost(view) <= limit
<1>1. limit # None
  OBVIOUS
<1>2. view.error \in BOOLEAN /\ view.refused \in BOOLEAN
  BY DEF Drawings
<1>3. ~(Cost(view) > limit)
  BY <1>1, <1>2 DEF Status
<1>. QED
  BY <1>3

\* The view whose turn it is, and what is known before the turn.
LEMMA TurnView ==
  ASSUME IInv, phase \in {"quota", "drain"}, Waiting
  PROVE  /\ Kind \in QuotaKinds /\ queues[Kind] # <<>> /\ Head(queues[Kind]) \in Requests
         /\ SelectAggregatedView(Head(queues[Kind])) \in Drawings
         /\ Typed /\ Sought /\ Within /\ turn \in 1 .. 3 /\ Growing
<1>1. Typed /\ Sought /\ Within /\ turn \in 1 .. 3 /\ graph \in Graphs /\ cap \in Nat /\ Growing
  BY DEF IInv, Typed, Growing
<1>2. Kind \in QuotaKinds /\ queues[Kind] # <<>>
  BY <1>1, KindHasAQueue DEF Waiting
<1>3. Head(queues[Kind]) \in Requests
  BY <1>1, <1>2, HeadLeaves
<1>. QED
  BY <1>1, <1>2, <1>3, ViewIsDrawing

LEMMA QuotaTurnKeeps ==
  ASSUME IInv, QuotaTurn
  PROVE  IInv'
<1>1. /\ phase = "quota" /\ Waiting /\ UNCHANGED <<options, details, reader>>
  BY DEF QuotaTurn
<1>2. /\ Kind \in QuotaKinds /\ queues[Kind] # <<>> /\ Head(queues[Kind]) \in Requests
      /\ SelectAggregatedView(Head(queues[Kind])) \in Drawings
      /\ Typed /\ Sought /\ Within /\ turn \in 1 .. 3 /\ Growing
  BY <1>1, TurnView
<1>3. PICK view \in Drawings :
          \/ Status(view, QuotaCap) = "embedded" /\ Embed(Kind, view) /\ Advance(TRUE, TRUE, "drain")
          \/ Omit(Kind) /\ Advance(TRUE, TRUE, "drain")
          \/ Close(Kind) /\ Advance(TRUE, closed' # ToSet(Kinds), "drain")
          \/ Abort
  BY <1>2 DEF QuotaTurn
<1>4. CASE Status(view, QuotaCap) = "embedded" /\ Embed(Kind, view) /\ Advance(TRUE, TRUE, "drain")
  <2>1. turn' \in 1 .. 3 /\ phase' \in {"quota", "drain"}
    BY <1>1, <1>2, <1>4, AdvanceGoesOn
  <2>2. Cost(view) \in Nat
    BY <1>2, <1>4, EmbedCosts
  <2>3. ASSUME views # <<>> PROVE Cost(view) <= Allowance(Kind) - spent[Kind]
    <3>1. Allowance(Kind) \in Nat /\ spent[Kind] \in Int
      BY <1>1, <1>2, Budgeted DEF IInv, Typed, Spent
    <3>2. Allowance(Kind) - spent[Kind] \in Int /\ QuotaCap = Allowance(Kind) - spent[Kind]
      BY <2>3, <3>1 DEF QuotaCap
    <3>. QED
      BY <1>4, <2>2, <3>2, WhatFits
  <2>. QED
    BY <1>1, <1>2, <1>4, <2>1, <2>3, EmbedKeeps
<1>5. CASE Omit(Kind) /\ Advance(TRUE, TRUE, "drain")
  <2>1. turn' \in 1 .. 3 /\ phase' \in {"quota", "drain"}
    BY <1>1, <1>2, <1>5, AdvanceGoesOn
  <2>. QED
    BY <1>1, <1>2, <1>5, <2>1, OmitKeeps
<1>6. CASE Close(Kind) /\ Advance(TRUE, closed' # ToSet(Kinds), "drain")
  <2>1. turn' \in 1 .. 3 /\ phase' \in {"quota", "drain"}
    BY <1>1, <1>2, <1>6, AdvanceGoesOn
  <2>. QED
    BY <1>1, <1>2, <1>6, <2>1, StandKeeps DEF Close
<1>7. CASE Abort
  BY <1>1, <1>2, <1>7, StandKeeps DEF Abort, growing
<1>. QED
  BY <1>3, <1>4, <1>5, <1>6, <1>7

LEMMA QuotaIdleKeeps ==
  ASSUME IInv, QuotaIdle
  PROVE  IInv'
<1>1. /\ phase = "quota" /\ UNCHANGED <<options, details, reader>> /\ Close(Kind)
      /\ Advance(FALSE, closed' # ToSet(Kinds), "drain") /\ turn \in 1 .. 3 /\ Growing
  BY DEF QuotaIdle, IInv, Typed, Growing
<1>2. turn' \in 1 .. 3 /\ phase' \in {"quota", "drain"}
  BY <1>1, AdvanceGoesOn
<1>. QED
  BY <1>1, <1>2, StandKeeps DEF Close

LEMMA DrainTurnKeeps ==
  ASSUME IInv, DrainTurn
  PROVE  IInv'
<1>1. /\ phase = "drain" /\ Waiting /\ UNCHANGED <<options, details, reader>>
  BY DEF DrainTurn
<1>2. /\ Kind \in QuotaKinds /\ queues[Kind] # <<>> /\ Head(queues[Kind]) \in Requests
      /\ SelectAggregatedView(Head(queues[Kind])) \in Drawings
      /\ Typed /\ Sought /\ Within /\ turn \in 1 .. 3 /\ Growing
  BY <1>1, TurnView
<1>3. PICK view \in Drawings :
          \/ Status(view, Remaining) = "embedded" /\ Embed(Kind, view) /\ Advance(TRUE, TRUE, "count")
          \/ Omit(Kind) /\ Advance(TRUE, TRUE, "count")
          \/ UNCHANGED growing /\ Advance(FALSE, TRUE, "count")
          \/ Abort
  BY <1>2 DEF DrainTurn
<1>4. CASE Status(view, Remaining) = "embedded" /\ Embed(Kind, view) /\ Advance(TRUE, TRUE, "count")
  <2>1. turn' \in 1 .. 3 /\ phase' \in {"drain", "count"}
    BY <1>1, <1>2, <1>4, AdvanceGoesOn
  <2>2. Cost(view) \in Nat
    BY <1>2, <1>4, EmbedCosts
  <2>3. ViewBudget \in Nat /\ used \in Nat
    BY <1>2, Budgeted, UsedIsDrawn DEF Typed
  <2>4. Cost(view) <= ViewBudget - used
    <3>1. Remaining \in Int /\ Remaining = ViewBudget - used
      BY <2>3 DEF Remaining
    <3>. QED
      BY <1>4, <2>2, <3>1, WhatFits
  <2>. QED
    BY <1>1, <1>2, <1>4, <2>1, <2>4, EmbedKeeps
<1>5. CASE Omit(Kind) /\ Advance(TRUE, TRUE, "count")
  <2>1. turn' \in 1 .. 3 /\ phase' \in {"drain", "count"}
    BY <1>1, <1>2, <1>5, AdvanceGoesOn
  <2>. QED
    BY <1>1, <1>2, <1>5, <2>1, OmitKeeps
<1>6. CASE UNCHANGED growing /\ Advance(FALSE, TRUE, "count")
  <2>1. turn' \in 1 .. 3 /\ phase' \in {"drain", "count"}
    BY <1>1, <1>2, <1>6, AdvanceGoesOn
  <2>. QED
    BY <1>1, <1>2, <1>6, <2>1, StandKeeps DEF growing
<1>7. CASE Abort
  BY <1>1, <1>2, <1>7, StandKeeps DEF Abort, growing
<1>. QED
  BY <1>3, <1>4, <1>5, <1>6, <1>7

LEMMA DrainStopsKeeps ==
  ASSUME IInv, DrainIdle \/ DrainEnds
  PROVE  IInv'
<1>1. /\ phase = "drain" /\ UNCHANGED <<options, growing, details, reader>>
      /\ turn \in 1 .. 3 /\ Growing
  BY DEF DrainIdle, DrainEnds, IInv, Typed, Growing
<1>2. turn' \in 1 .. 3 /\ phase' \in {"drain", "count"}
  <2>1. CASE DrainIdle
    BY <1>1, <2>1, AdvanceGoesOn DEF DrainIdle
  <2>2. CASE DrainEnds
    BY <1>1, <2>2 DEF DrainEnds
  <2>. QED
    BY <2>1, <2>2
<1>. QED
  BY <1>1, <1>2, StandKeeps DEF growing

-----------------------------------------------------------------------------
(* What follows the views. *)

\* The views are as they were: what is left to show.
LEMMA DetailKeeps ==
  ASSUME IInv, phase' \in {"inspect", "source", "written", "read"},
         UNCHANGED <<options, turn, queues, seen, views, nodeTable>>,
         viewsOmitted' \in Nat, Cardinality(Missing) = viewsOmitted',
         IsFiniteSet(inspections'), IsFiniteSet(sources'), Weighed',
         NavOf(nav', hops),
         held' \in 0 .. Len(views), NodeClicksAreAnswered'
  PROVE  IInv' /\ Drawn' = Drawn /\ FirstCost' = FirstCost
<1>1. UNCHANGED <<graph, hops, opening, budget, cap>>
  BY DEF options
<1>2. /\ Reached' = Reached /\ Embedded' = Embedded /\ FirstCost' = FirstCost /\ DrawnNodes' = DrawnNodes
      /\ ViewBudget' = ViewBudget
  BY <1>1, AsItWas
<1>3. Missing' = Missing /\ Drawn' = Drawn
  BY <1>2 DEF Missing, Drawn
<1>4. Sought'
  <2>1. \A k \in QuotaKinds : /\ Distinct(queues'[k]) /\ Keys(queues'[k]) \subseteq Missing'
                              /\ \A key \in Keys(queues'[k]) : QuotaKind(key) = k
    BY <1>3 DEF IInv, Sought
  <2>2. seen' = Reached' /\ Embedded' \subseteq seen' /\ Cardinality(Embedded') = Len(views')
    BY <1>2 DEF IInv, Sought
  <2>. QED
    BY <2>1, <2>2 DEF Sought
<1>5. Typed'
  BY <1>1 DEF IInv, Typed
<1>6. Counted'
  BY <1>3 DEF Counted, Growing
<1>7. Within'
  BY <1>2, <1>3 DEF IInv, Within
<1>8. Spent'
  BY DEF Spent
<1>. QED
  BY <1>2, <1>3, <1>4, <1>5, <1>6, <1>7, <1>8 DEF IInv

LEMMA CountOmittedKeeps ==
  ASSUME IInv, CountOmitted
  PROVE  IInv'
<1>1. /\ phase = "count" /\ phase' = "inspect" /\ Growing /\ viewsOmitted' = viewsOmitted + StillQueued
      /\ UNCHANGED <<options, turn, queues, seen, views, nodeTable, used, inspections, sources, reader>>
  BY DEF CountOmitted, Growing
<1>2. StillQueued \in Nat
  <2>1. queues["map"] \in Seq(Requests) /\ queues["contract"] \in Seq(Requests) /\ queues["call"] \in Seq(Requests)
    BY DEF IInv, Typed, QuotaKinds
  <2>2. Len(queues["map"]) \in Nat /\ Len(queues["contract"]) \in Nat /\ Len(queues["call"]) \in Nat
    BY <2>1
  <2>3. \A a, b \in Nat : a + b \in Nat
    OBVIOUS
  <2>4. Len(queues["map"]) + Len(queues["contract"]) \in Nat
    BY <2>2, <2>3, Zenon
  <2>5. (Len(queues["map"]) + Len(queues["contract"])) + Len(queues["call"]) \in Nat
    BY <2>2, <2>3, <2>4, Zenon
  <2>. QED
    BY <2>5 DEF StillQueued
<1>3. /\ Cardinality(Missing) = viewsOmitted' /\ viewsOmitted' \in Nat
      /\ viewsOmitted <= viewsOmitted' /\ viewsOmitted \in Nat
  BY <1>1, <1>2 DEF IInv, Counted, Typed
<1>4. /\ FirstCost' = FirstCost /\ Drawn' = Drawn /\ budget' = budget
  <2>1. FirstCost' = FirstCost /\ budget' = budget
    BY <1>1, AsItWas DEF options
  <2>. QED
    BY <1>1, <2>1 DEF Drawn
<1>5. Weighed'
  BY <1>1, <1>4 DEF IInv, Weighed, Growing
<1>6. NodeClicksAreAnswered'
  BY <1>1, <1>3 DEF IInv, NodeClicksAreAnswered, reader
<1>7. /\ IsFiniteSet(inspections') /\ IsFiniteSet(sources') /\ held' \in 0 .. Len(views)
      /\ NavOf(nav', hops)
  BY <1>1 DEF IInv, Typed, reader
<1>. QED
  BY <1>1, <1>3, <1>5, <1>6, <1>7, DetailKeeps

LEMMA InspectNextKeeps ==
  ASSUME IInv, InspectNext
  PROVE  IInv'
<1>1. /\ phase = "inspect" /\ phase' \in {"inspect", "source"}
      /\ UNCHANGED <<options, turn, queues, seen, views, nodeTable, viewsOmitted, sources, reader>>
      /\ sources = {} /\ IsFiniteSet(inspections) /\ ids \cap inspections = {} /\ ~Growing
  BY DEF InspectNext, IInv, Typed, Weighed, Growing
<1>2. /\ FirstCost' = FirstCost /\ Drawn' = Drawn /\ budget' = budget
  <2>1. FirstCost' = FirstCost /\ budget' = budget
    BY <1>1, AsItWas DEF options
  <2>. QED
    BY <1>1, <2>1 DEF Drawn
<1>3. /\ used = Drawn + Unit * Cardinality(inspections) + 2 * Unit * Cardinality(sources)
      /\ used <= budget * Unit + FirstCost + 2 * Unit
  BY DEF IInv, Weighed
<1>4. /\ Drawn \in Nat /\ FirstCost \in Nat /\ budget \in Nat /\ Cardinality(inspections) \in Nat
      /\ Cardinality(sources) \in Nat
  BY <1>1, Costs, FS_CardinalityType, FS_EmptySet DEF IInv, Typed
<1>5. Weighed' /\ IsFiniteSet(inspections')
  <2>1. CASE ids = {} \/ used * 10 > budget * Unit * 7
    <3>1. phase' = "source" /\ UNCHANGED <<inspections, used>>
      BY <2>1 DEF InspectNext
    <3>. QED
      BY <1>1, <1>2, <1>3, <3>1 DEF Weighed, Growing
  <2>2. CASE ~(ids = {} \/ used * 10 > budget * Unit * 7)
    <3>1. /\ ids' = ids \ {NextId} /\ inspections' = inspections \cup {NextId} /\ used' = used + Unit
          /\ phase' = "inspect"
      BY <1>1, <2>2 DEF InspectNext
    <3>2. NextId \in ids
      BY <2>2 DEF NextId
    <3>3. IsFiniteSet(inspections') /\ Cardinality(inspections') = Cardinality(inspections) + 1
      BY <1>1, <3>1, <3>2, FS_AddElement
    <3>4. used \in Nat /\ ~(used * 10 > budget * Unit * 7) /\ Unit = 1000
      BY <1>3, <1>4, <2>2 DEF Unit
    <3>5. used' = Drawn' + Unit * Cardinality(inspections') + 2 * Unit * Cardinality(sources')
      <4>. DEFINE n == Cardinality(inspections)
                  m == Cardinality(sources)
      <4>. HIDE DEF n, m
      <4>1. used = Drawn + Unit * n + 2 * Unit * m /\ n \in Nat /\ m \in Nat /\ Drawn \in Nat
        BY <1>3, <1>4 DEF n, m
      <4>2. used + Unit = Drawn + Unit * (n + 1) + 2 * Unit * m
        BY <3>4, <4>1
      <4>. QED
        BY <1>1, <1>2, <3>1, <3>3, <4>2 DEF n, m
    <3>6. used' <= budget' * Unit + FirstCost' + 2 * Unit
      BY <1>2, <1>4, <3>1, <3>4
    <3>7. ids' \cap inspections' = {}
      BY <1>1, <3>1
    <3>. QED
      BY <1>1, <3>1, <3>3, <3>5, <3>6, <3>7 DEF Weighed, Growing
  <2>. QED
    BY <2>1, <2>2
<1>6. Cardinality(Missing) = viewsOmitted' /\ viewsOmitted' \in Nat /\ NodeClicksAreAnswered'
  BY <1>1 DEF IInv, Counted, Typed, NodeClicksAreAnswered, reader
<1>7. /\ IsFiniteSet(sources') /\ held' \in 0 .. Len(views)
      /\ NavOf(nav', hops)
  BY <1>1 DEF IInv, Typed, reader
<1>. QED
  BY <1>1, <1>5, <1>6, <1>7, DetailKeeps

LEMMA SliceNextKeeps ==
  ASSUME IInv, SliceNext
  PROVE  IInv'
<1>1. /\ phase = "source" /\ phase' \in {"source", "written"}
      /\ UNCHANGED <<options, turn, queues, seen, views, nodeTable, viewsOmitted, inspections, reader>>
      /\ IsFiniteSet(sources) /\ IsFiniteSet(inspections) /\ ids \cap sources = {} /\ ~Growing
  BY DEF SliceNext, IInv, Typed, Weighed, Growing
<1>2. /\ FirstCost' = FirstCost /\ Drawn' = Drawn /\ budget' = budget
  <2>1. FirstCost' = FirstCost /\ budget' = budget
    BY <1>1, AsItWas DEF options
  <2>. QED
    BY <1>1, <2>1 DEF Drawn
<1>3. /\ used = Drawn + Unit * Cardinality(inspections) + 2 * Unit * Cardinality(sources)
      /\ used <= budget * Unit + FirstCost + 2 * Unit
  BY DEF IInv, Weighed
<1>4. /\ Drawn \in Nat /\ FirstCost \in Nat /\ budget \in Nat /\ Cardinality(inspections) \in Nat
      /\ Cardinality(sources) \in Nat
  BY <1>1, Costs, FS_CardinalityType DEF IInv, Typed
<1>5. CASE UNCHANGED <<sources, used>> /\ (ids' \subseteq ids)
  <2>1. Weighed'
    BY <1>1, <1>2, <1>3, <1>5 DEF Weighed, Growing
  <2>. QED
    BY <1>1, <1>5, <2>1, DetailKeeps DEF IInv, Counted, Typed, NodeClicksAreAnswered, reader
<1>6. CASE /\ NextId \in ids /\ ids' = ids \ {NextId} /\ sources' = sources \cup {NextId}
           /\ used' = used + 2 * Unit /\ ~(used > budget * Unit)
  <2>1. IsFiniteSet(sources') /\ Cardinality(sources') = Cardinality(sources) + 1
    BY <1>1, <1>6, FS_AddElement
  <2>2. used \in Nat /\ Unit = 1000
    BY <1>3, <1>4 DEF Unit
  <2>3. used' = Drawn' + Unit * Cardinality(inspections') + 2 * Unit * Cardinality(sources')
    <3>. DEFINE n == Cardinality(inspections)
                m == Cardinality(sources)
    <3>. HIDE DEF n, m
    <3>1. used = Drawn + Unit * n + 2 * Unit * m /\ n \in Nat /\ m \in Nat /\ Drawn \in Nat
      BY <1>3, <1>4 DEF n, m
    <3>2. used + 2 * Unit = Drawn + Unit * n + 2 * Unit * (m + 1)
      BY <2>2, <3>1
    <3>. QED
      BY <1>1, <1>2, <1>6, <2>1, <3>2 DEF n, m
  <2>4. used' <= budget' * Unit + FirstCost' + 2 * Unit
    BY <1>2, <1>4, <1>6, <2>2
  <2>5. ids' \cap sources' = {}
    BY <1>1, <1>6
  <2>6. Weighed'
    BY <1>1, <2>3, <2>4, <2>5 DEF Weighed, Growing
  <2>. QED
    BY <1>1, <2>1, <2>6, DetailKeeps DEF IInv, Counted, Typed, NodeClicksAreAnswered, reader
<1>7. \/ UNCHANGED <<sources, used>> /\ (ids' \subseteq ids)
      \/ /\ NextId \in ids /\ ids' = ids \ {NextId} /\ sources' = sources \cup {NextId}
         /\ used' = used + 2 * Unit /\ ~(used > budget * Unit)
  <2>1. ids # {} => NextId \in ids
    BY DEF NextId
  <2>2. CASE ids = {} \/ used > budget * Unit
    BY <2>2 DEF SliceNext
  <2>3. CASE ~(ids = {} \/ used > budget * Unit) /\ graph.node[NextId].kind # "Unresolved"
    BY <2>1, <2>3 DEF SliceNext
  <2>4. CASE ~(ids = {} \/ used > budget * Unit) /\ ~(graph.node[NextId].kind # "Unresolved")
    BY <2>1, <2>4 DEF SliceNext
  <2>. QED
    BY <2>2, <2>3, <2>4
<1>. QED
  BY <1>5, <1>6, <1>7

-----------------------------------------------------------------------------
(* The reader. *)

LEMMA ReadKeeps ==
  ASSUME IInv, phase \in {"written", "read"}, phase' = "read",
         UNCHANGED <<options, turn, growing, details>>,
         NavOf(nav', hops),
         held' \in 0 .. Len(views), NodeClicksAreAnswered'
  PROVE  IInv'
<1>1. /\ UNCHANGED <<queues, seen, views, nodeTable, used, viewsOmitted, ids, inspections, sources, budget>>
      /\ ~Growing /\ IsFiniteSet(inspections) /\ IsFiniteSet(sources)
  BY DEF growing, details, options, Growing, IInv, Typed
<1>2. FirstCost' = FirstCost /\ Drawn' = Drawn
  BY <1>1 DEF FirstCost, Drawn
<1>3. Weighed'
  BY <1>1, <1>2 DEF IInv, Weighed, Growing
<1>4. Cardinality(Missing) = viewsOmitted' /\ viewsOmitted' \in Nat
  BY <1>1 DEF IInv, Counted, Typed
<1>. QED
  BY <1>1, <1>3, <1>4, DetailKeeps

\* The entry the page answers with is one of those it has, and there is one
\* for every request embedded: all its nodes are carried.
LEMMA StaticViewHolds ==
  ASSUME IInv, NEW req
  PROVE  /\ StaticView(req) \in 0 .. Len(views)
         /\ RequestKey(req) \in Embedded => StaticView(req) # 0
<1>. DEFINE I == {i \in 1 .. Len(views) : SameViewRequest(views[i].request, req)}
            found == IF I # {} THEN CHOOSE x \in I : \A y \in I : x <= y ELSE 0
<1>1. views \in Seq(Entries) /\ nodeTable = DrawnNodes
  BY DEF IInv, Typed, Within
<1>2. StaticView(req) = IF found # 0 /\ views[found].view.nodes \subseteq nodeTable THEN found ELSE 0
  BY DEF StaticView, SelectInSeq, Min
<1>3. I \in SUBSET Nat /\ I \subseteq 1 .. Len(views) /\ Len(views) \in Nat /\ DOMAIN views = 1 .. Len(views)
  BY <1>1
<1>4. RequestKey(req) \in Embedded => I # {}
  BY <1>3 DEF Embedded, SameViewRequest
<1>. HIDE DEF I
<1>5. (I = {} /\ found = 0) \/ found \in I
  <2>1. I # {} => \E x \in I : \A y \in I : x <= y
    BY <1>3, FirstNumber
  <2>. QED
    BY <2>1
<1>. HIDE DEF found
<1>6. found \in 0 .. Len(views) /\ (RequestKey(req) \in Embedded => found # 0)
  <2>1. CASE I = {} /\ found = 0
    BY <1>3, <1>4, <2>1
  <2>2. CASE found \in I
    <3>1. found \in 1 .. Len(views)
      BY <1>3, <2>2
    <3>. QED
      BY <1>3, <3>1
  <2>. QED
    BY <1>5, <2>1, <2>2
<1>7. found # 0 => views[found].view.nodes \subseteq nodeTable
  <2>1. found # 0 => found \in DOMAIN views
    BY <1>3, <1>5
  <2>. QED
    BY <1>1, <2>1 DEF DrawnNodes, ToSet
<1>. QED
  BY <1>2, <1>3, <1>6, <1>7

LEMMA AnswerHolds ==
  ASSUME IInv, NEW req, NEW by, Answer(req, by), viewsOmitted' = viewsOmitted,
         by = "node" => StaticView(req) # 0 \/ viewsOmitted > 0
  PROVE  held' \in 0 .. Len(views) /\ NodeClicksAreAnswered'
<1>1. StaticView(req) \in 0 .. Len(views) /\ held \in 0 .. Len(views)
  BY StaticViewHolds DEF IInv, Typed
<1>2. CASE StaticView(req) # 0
  BY <1>1, <1>2 DEF Answer, NodeClicksAreAnswered
<1>3. CASE StaticView(req) = 0
  BY <1>1, <1>3 DEF Answer, NodeClicksAreAnswered
<1>. QED
  BY <1>2, <1>3

LEMMA ShowHolds ==
  ASSUME IInv, NEW n, NEW by, Show(n, by), viewsOmitted' = viewsOmitted,
         by = "node" /\ ToRequest(n) # ToRequest(nav) => StaticView(ToRequest(n)) # 0 \/ viewsOmitted > 0
  PROVE  nav' = n /\ held' \in 0 .. Len(views) /\ NodeClicksAreAnswered'
<1>1. nav' = n
  BY DEF Show
<1>2. CASE Nav!Ready(n) /\ ToRequest(n) # ToRequest(nav)
  <2>1. Answer(ToRequest(n), by)
    BY <1>2 DEF Show
  <2>. QED
    BY <1>1, <1>2, <2>1, AnswerHolds
<1>3. CASE ~(Nav!Ready(n) /\ ToRequest(n) # ToRequest(nav))
  <2>1. UNCHANGED <<held, refusal>>
    BY <1>3 DEF Show
  <2>. QED
    BY <1>1, <2>1 DEF IInv, Typed, NodeClicksAreAnswered
<1>. QED
  BY <1>2, <1>3

LEMMA ArriveAsks ==
  ASSUME NEW n, NEW h, NavOf(n, h), NEW view, NEW id
  PROVE  /\ NavOf(Nav!Arrive(n, view, id), h)
         /\ Nav!Arrive(n, view, id).view = view /\ Nav!Arrive(n, view, id).focus = id
BY DEF NavOf, Nav!Arrive

LEMMA RequestOfState ==
  ASSUME NEW n, NavOf(n, hops)
  PROVE  /\ n.view = "contract" => ToRequest(n) = Ask("contract", n.focus, None)
         /\ n.view = "call" => ToRequest(n) = Ask("call", n.focus, hops)
<1>1. CASE n.view = "contract"
  <2>1. /\ Nav!ToRequest(n).view = "contract" /\ Nav!ToRequest(n).focus = n.focus
        /\ Nav!ToRequest(n).hops = None /\ Nav!ToRequest(n).expand = <<>>
    BY <1>1 DEF NavOf, Nav!ToRequest, Nav!UsesFocus, Nav!NeedsFocus, Nav!Clustered
  <2>2. Nav!ToRequest(n).auto = TRUE
    BY <1>1 DEF NavOf, Nav!ToRequest, Nav!UsesFocus, Nav!NeedsFocus, Nav!Clustered
  <2>. QED
    BY <1>1, <2>1, <2>2 DEF ToRequest, Ask
<1>2. CASE n.view = "call"
  <2>1. /\ Nav!ToRequest(n).view = "call" /\ Nav!ToRequest(n).focus = n.focus
        /\ Nav!ToRequest(n).hops = hops /\ Nav!ToRequest(n).expand = <<>>
    BY <1>2 DEF NavOf, Nav!ToRequest, Nav!UsesFocus, Nav!NeedsFocus, Nav!Clustered
  <2>2. Nav!ToRequest(n).auto = TRUE
    BY <1>2 DEF NavOf, Nav!ToRequest, Nav!UsesFocus, Nav!NeedsFocus, Nav!Clustered
  <2>. QED
    BY <1>2, <2>1, <2>2 DEF ToRequest, Ask
<1>. QED
  BY <1>1, <1>2

\* A pick of a node asks for nothing, or for what its view asked for.
LEMMA PickAsks ==
  ASSUME NEW n, NavOf(n, hops), NEW kind, NEW id
  PROVE  /\ NavOf(Nav!PickNode(n, kind, id), hops)
         /\ ToRequest(Nav!PickNode(n, kind, id)) # ToRequest(n) =>
               \/ kind = "Contract" /\ ToRequest(Nav!PickNode(n, kind, id)) = Ask("contract", id, None)
               \/ kind = "Function" /\ ToRequest(Nav!PickNode(n, kind, id)) = Ask("call", id, hops)
<1>1. \A view : NavOf(Nav!Arrive(n, view, id), hops)
  BY ArriveAsks
<1>2. ToRequest(Nav!Arrive(n, "contract", id)) = Ask("contract", id, None)
  BY ArriveAsks, RequestOfState
<1>3. ToRequest(Nav!Arrive(n, "call", id)) = Ask("call", id, hops)
  BY ArriveAsks, RequestOfState
<1>4. CASE kind = "Contract"
  <2>1. Nav!PickNode(n, kind, id) \in {n, Nav!Arrive(n, "contract", id)}
    BY <1>4 DEF Nav!PickNode, Nav!Open
  <2>. QED
    BY <1>1, <1>2, <1>4, <2>1
<1>5. CASE kind = "Function"
  <2>1. Nav!PickNode(n, kind, id) \in {n, Nav!Arrive(n, "call", id)}
    BY <1>5 DEF Nav!PickNode, Nav!Open
  <2>. QED
    BY <1>1, <1>3, <1>5, <2>1
<1>6. CASE kind \notin {"Contract", "Function"}
  <2>1. Nav!PickNode(n, kind, id) = n
    BY <1>6 DEF Nav!PickNode
  <2>. QED
    BY <2>1
<1>. QED
  BY <1>4, <1>5, <1>6

\* What a node that is drawn asks for is embedded, unless something is not.
LEMMA DrawnNodesOpen ==
  ASSUME IInv, phase = "read", NEW i \in DOMAIN views, NEW id \in views[i].view.nodes, id \in Nodes(graph),
         NEW req,
         \/ graph.node[id].kind = "Contract" /\ req = Ask("contract", id, None)
         \/ graph.node[id].kind = "Function" /\ req = Ask("call", id, hops)
  PROVE  StaticView(req) # 0 \/ viewsOmitted > 0
<1>1. req \in NextRequests(views[i].request, views[i].view)
  BY DEF NextRequests, OfKind
<1>2. RequestKey(req) \in Offers(views[i])
  BY <1>1 DEF Offers
<1>3. RequestKey(req) \in seen
  BY <1>2 DEF IInv, Sought, Reached
<1>4. viewsOmitted \in Nat /\ Cardinality(Missing) = viewsOmitted /\ IsFiniteSet(Missing)
  <2>1. Missing \in SUBSET seen /\ IsFiniteSet(seen)
    BY DEF Missing, IInv, Typed
  <2>. QED
    BY <2>1, FS_Subset DEF IInv, Typed, Counted, Growing
<1>5. CASE viewsOmitted = 0
  <2>1. Missing = {}
    BY <1>4, <1>5, FS_EmptySet
  <2>2. RequestKey(req) \in Embedded
    BY <1>3, <2>1 DEF Missing
  <2>. QED
    BY <2>2, StaticViewHolds
<1>. QED
  BY <1>4, <1>5

\* The page opens with what the opening of the interface asks for.
LEMMA OpenPageKeeps ==
  ASSUME IInv, OpenPage
  PROVE  IInv'
<1>1. /\ phase = "written" /\ phase' = "read" /\ UNCHANGED <<options, turn, growing, details>>
      /\ nav' = nav /\ viewsOmitted' = viewsOmitted
  BY DEF OpenPage, growing
<1>2. held' \in 0 .. Len(views) /\ NodeClicksAreAnswered'
  <2>1. Answer(ToRequest(nav), "opening")
    BY DEF OpenPage
  <2>. QED
    BY <1>1, <2>1, AnswerHolds
<1>3. NavOf(nav', hops)
  BY <1>1 DEF IInv, Typed
<1>. QED
  BY <1>1, <1>2, <1>3, ReadKeeps

\* What a click leaves alone.
LEMMA ClickLeaves ==
  ASSUME Click
  PROVE  /\ phase = "read" /\ phase' = "read" /\ viewsOmitted' = viewsOmitted
         /\ UNCHANGED <<options, turn, growing, details>>
BY DEF Click, rounds, growing

\* A gesture that leads to a state of the page keeps the invariant.
LEMMA GestureKeeps ==
  ASSUME IInv, Click, NEW n, NavOf(n, hops), NEW by, Show(n, by),
         by = "node" /\ ToRequest(n) # ToRequest(nav) => StaticView(ToRequest(n)) # 0 \/ viewsOmitted > 0
  PROVE  IInv'
<1>1. /\ phase = "read" /\ phase' = "read" /\ viewsOmitted' = viewsOmitted
      /\ UNCHANGED <<options, turn, growing, details>>
  BY ClickLeaves
<1>2. nav' = n /\ held' \in 0 .. Len(views) /\ NodeClicksAreAnswered'
  BY <1>1, ShowHolds
<1>. QED
  BY <1>1, <1>2, ReadKeeps

\* Picking a node that is drawn in some view of the file.
LEMMA PickOfADrawnNode ==
  ASSUME IInv, Click, NEW i \in DOMAIN views, NEW id \in views[i].view.nodes, id \in Nodes(graph),
         Show(Nav!PickNode(nav, graph.node[id].kind, id), "node")
  PROVE  IInv'
<1>. DEFINE n == Nav!PickNode(nav, graph.node[id].kind, id)
<1>1. NavOf(nav, hops)
  BY DEF IInv, Typed
<1>2. NavOf(n, hops)
  BY <1>1, PickAsks
<1>3. ToRequest(n) # ToRequest(nav) =>
          \/ graph.node[id].kind = "Contract" /\ ToRequest(n) = Ask("contract", id, None)
          \/ graph.node[id].kind = "Function" /\ ToRequest(n) = Ask("call", id, hops)
  BY <1>1, PickAsks
<1>4. Show(n, "node") /\ phase = "read"
  BY ClickLeaves
<1>. HIDE DEF n
<1>5. ToRequest(n) # ToRequest(nav) => StaticView(ToRequest(n)) # 0 \/ viewsOmitted > 0
  BY <1>3, <1>4, DrawnNodesOpen
<1>. QED
  BY <1>2, <1>4, <1>5, GestureKeeps

\* What is on screen is a view of the file.
LEMMA OnScreenIsHeld ==
  ASSUME IInv, NEW id \in OnScreen.nodes
  PROVE  \E i \in DOMAIN views : id \in views[i].view.nodes
<1>1. held # 0 /\ OnScreen = views[held].view
  BY DEF OnScreen, NoView
<1>2. held \in DOMAIN views
  <2>1. views \in Seq(Entries) /\ held \in 0 .. Len(views)
    BY DEF IInv, Typed
  <2>. QED
    BY <1>1, <2>1
<1>. QED
  BY <1>1, <1>2

LEMMA ReadingKeeps ==
  ASSUME IInv, Reading
  PROVE  IInv'
<1>1. CASE OpenPage
  BY <1>1, OpenPageKeeps
<1>2. ASSUME NEW id \in Nodes(graph), PickNode(id)
      PROVE  IInv'
  <2>1. PICK i \in DOMAIN views : id \in views[i].view.nodes
    BY <1>2, OnScreenIsHeld DEF PickNode
  <2>2. Click /\ Show(Nav!PickNode(nav, graph.node[id].kind, id), "node")
    BY <1>2 DEF PickNode
  <2>. QED
    BY <2>1, <2>2, PickOfADrawnNode
<1>3. ASSUME NEW id \in Nodes(graph), Find(id)
      PROVE  IInv'
  <2>1. PICK i \in DOMAIN views : id \in views[i].view.nodes
    <3>1. id \in DrawnNodes
      BY <1>3 DEF Find, IInv, Within
    <3>. QED
      BY <3>1 DEF DrawnNodes, ToSet
  <2>2. Click /\ Show(Nav!PickNode(nav, graph.node[id].kind, id), "node")
    BY <1>3 DEF Find
  <2>. QED
    BY <2>1, <2>2, PickOfADrawnNode
<1>4. ASSUME NEW id \in Nodes(graph), Inspect(id)
      PROVE  IInv'
  <2>1. Click /\ UNCHANGED <<nav, held, refusal>>
    BY <1>4 DEF Inspect
  <2>2. /\ phase = "read" /\ phase' = "read" /\ viewsOmitted' = viewsOmitted
        /\ UNCHANGED <<options, turn, growing, details>>
    BY <2>1, ClickLeaves
  <2>3. NavOf(nav', hops) /\ held' \in 0 .. Len(views) /\ NodeClicksAreAnswered'
    BY <2>1, <2>2 DEF IInv, Typed, NodeClicksAreAnswered
  <2>. QED
    BY <2>2, <2>3, ReadKeeps
<1>5. ASSUME NEW path \in Dirs, PickDirectory(path)
      PROVE  IInv'
  <2>. DEFINE n == Nav!PickCluster(nav, path, path \in OnScreen.open, InOrder(OnScreen.open))
  <2>1. NavOf(n, hops)
    BY DEF IInv, Typed, NavOf, Nav!PickCluster
  <2>2. Click /\ Show(n, "directory")
    BY <1>5 DEF PickDirectory
  <2>. HIDE DEF n
  <2>. QED
    BY <2>1, <2>2, GestureKeeps
<1>6. ASSUME NEW view \in {"protocol", "contract", "call"}, ChooseView(view)
      PROVE  IInv'
  <2>. DEFINE n == Nav!OnView(nav, view)
  <2>1. NavOf(nav, hops)
    BY DEF IInv, Typed
  <2>2. NavOf(n, hops)
    BY <2>1, ArriveAsks DEF Nav!OnView
  <2>3. Click /\ Show(n, "tab")
    BY <1>6 DEF ChooseView
  <2>. HIDE DEF n
  <2>. QED
    BY <2>2, <2>3, GestureKeeps
<1>. QED
  BY <1>1, <1>2, <1>3, <1>4, <1>5, <1>6 DEF Reading

-----------------------------------------------------------------------------
(* The inductive invariant, and what it says. *)

\* Nothing is embedded and the opening view is asked for.
LEMMA InitHolds ==
  ASSUME Init
  PROVE  IInv
<1>1. /\ graph \in Graphs /\ hops \in Hops /\ budget \in Nat /\ cap \in Nat
      /\ phase = "quota" /\ turn = 1 /\ views = <<>> /\ nodeTable = {} /\ used = 0 /\ viewsOmitted = 0
      /\ inspections = {} /\ sources = {} /\ held = 0 /\ refusal = None
      /\ seen = {RequestKey(opening)}
  BY DEF Init
<1>2. opening \in Requests
  <2>1. PICK o \in Openings, tests \in BOOLEAN :
           opening = [Ask(o.view, o.focus, IF o.view = "call" THEN hops ELSE None) EXCEPT !.tests = tests]
    BY DEF Init
  <2>2. opening = [view |-> o.view, focus |-> o.focus, hops |-> IF o.view = "call" THEN hops ELSE None,
                   expand |-> <<>>, auto |-> TRUE, tests |-> tests]
    BY <2>1 DEF Ask
  <2>3. o.view \in {"protocol", "contract", "call", "state-access", "inheritance"} /\ o.focus \in Foci
    BY DEF Foci
  <2>. QED
    BY <1>1, <2>2, <2>3 DEF Requests
<1>3. QuotaKind(opening) \in QuotaKinds /\ QuotaKind(RequestKey(opening)) = QuotaKind(opening)
  BY <1>2, KeyFields DEF QuotaKinds
<1>4. queues = [k \in QuotaKinds |-> IF k = QuotaKind(opening) THEN <<opening>> ELSE <<>>]
  BY DEF Init, Kinds, ToSet, QuotaKinds
<1>5. queues \in [QuotaKinds -> Seq(Requests)]
  BY <1>2, <1>4
<1>6. IsFiniteSet(seen) /\ Cardinality(seen) = 1
  BY <1>1, FS_Singleton
<1>7. NavOf(nav, hops)
  BY DEF Init, Nav!InitialNav, NavOf
<1>8. Typed
  BY <1>1, <1>2, <1>5, <1>6, <1>7, FS_EmptySet DEF Typed
<1>9. Embedded = {} /\ Missing = seen /\ DrawnNodes = {} /\ FirstCost = 0 /\ Reached = seen
  BY <1>1 DEF Embedded, Missing, DrawnNodes, FirstCost, Reached, ToSet
<1>10. Sought
  <2>1. Cardinality(Embedded) = Len(views)
    BY <1>1, <1>9, FS_EmptySet
  <2>2. ASSUME NEW k \in QuotaKinds
        PROVE  /\ Distinct(queues[k]) /\ Keys(queues[k]) \subseteq Missing
               /\ \A key \in Keys(queues[k]) : QuotaKind(key) = k
    <3>1. CASE k = QuotaKind(opening)
      <4>1. queues[k] = <<opening>>
        BY <1>4, <3>1
      <4>2. Keys(queues[k]) = {RequestKey(opening)} /\ Distinct(queues[k])
        BY <4>1 DEF Keys, Distinct
      <4>. QED
        BY <1>1, <1>3, <1>9, <3>1, <4>2
    <3>2. CASE k # QuotaKind(opening)
      <4>1. queues[k] = <<>>
        BY <1>4, <3>2
      <4>. QED
        BY <4>1 DEF Keys, Distinct
    <3>. QED
      BY <3>1, <3>2
  <2>. QED
    BY <1>9, <2>1, <2>2 DEF Sought
<1>11. Counted
  <2>1. StillQueued = 1
    <3>1. Len(<<opening>>) = 1 /\ Len(<<>>) = 0
      OBVIOUS
    <3>2. \A k \in QuotaKinds : Len(queues[k]) = IF k = QuotaKind(opening) THEN 1 ELSE 0
      BY <1>4, <3>1
    <3>3. \E q \in QuotaKinds : \A k \in QuotaKinds : Len(queues[k]) = IF k = q THEN 1 ELSE 0
      BY <1>3, <3>2
    <3>4. PICK n : \A k \in QuotaKinds : n[k] = Len(queues[k])
      <4>. WITNESS [k \in QuotaKinds |-> Len(queues[k])]
      <4>. QED
        OBVIOUS
    <3>5. n["map"] + n["contract"] + n["call"] = 1
      BY <3>3, <3>4 DEF QuotaKinds
    <3>. QED
      BY <3>4, <3>5 DEF StillQueued, QuotaKinds
  <2>. QED
    BY <1>1, <1>6, <1>9, <2>1 DEF Counted, Growing
<1>12. Drawn = 0
  <2>1. Sizes(views) = 0 /\ Cardinality(nodeTable) = 0
    BY <1>1, NothingHasNoSize, FS_EmptySet
  <2>. QED
    BY <2>1 DEF Drawn, Unit
<1>13. /\ ViewBudget \in Nat /\ budget * Unit \in Nat
       /\ \A k \in QuotaKinds : Allowance(k) \in Nat
  BY <1>1, Budgeted
<1>14. Within
  BY <1>1, <1>9, <1>12, <1>13, FS_EmptySet DEF Within
<1>15. Spent
  <2>1. spent = [k \in QuotaKinds |-> 0]
    BY DEF Init, Kinds, ToSet, QuotaKinds
  <2>2. spent["map"] = 0 /\ spent["contract"] = 0 /\ spent["call"] = 0
    BY <2>1 DEF QuotaKinds
  <2>3. \A k \in QuotaKinds : Over(k) = 0 /\ spent[k] = 0
    BY <1>1, <2>1 DEF Over
  <2>. QED
    BY <1>12, <1>13, <2>1, <2>2, <2>3 DEF Spent
<1>16. Weighed
  <2>1. Cardinality(inspections) = 0 /\ Cardinality(sources) = 0
    BY <1>1, FS_EmptySet
  <2>2. used = Drawn + Unit * Cardinality(inspections) + 2 * Unit * Cardinality(sources)
    BY <1>1, <1>12, <2>1 DEF Unit
  <2>3. used <= budget * Unit + FirstCost + 2 * Unit
    BY <1>1, <1>9, <1>13 DEF Unit
  <2>. QED
    BY <1>1, <2>2, <2>3 DEF Weighed
<1>17. NodeClicksAreAnswered
  BY <1>1 DEF NodeClicksAreAnswered
<1>. QED
  BY <1>8, <1>10, <1>11, <1>14, <1>15, <1>16, <1>17 DEF IInv

LEMMA StutterKeeps ==
  ASSUME IInv, UNCHANGED vars
  PROVE  IInv'
<1>1. /\ UNCHANGED <<options, rounds, growing, details, reader>>
      /\ UNCHANGED <<phase, turn, queues, seen, views, nodeTable, spent, used, viewsOmitted>>
  BY DEF vars, rounds, growing
<1>2. CASE Growing
  <2>1. turn' \in 1 .. 3 /\ phase' \in {"quota", "drain", "count", "aborted"}
    BY <1>1, <1>2 DEF IInv, Typed, Growing
  <2>. QED
    BY <1>1, <1>2, <2>1, StandKeeps
<1>3. CASE ~Growing
  <2>1. /\ phase' \in {"inspect", "source", "written", "read"}
        /\ viewsOmitted' \in Nat /\ Cardinality(Missing) = viewsOmitted'
    BY <1>1, <1>3 DEF IInv, Typed, Counted, Growing
  <2>2. /\ IsFiniteSet(inspections') /\ IsFiniteSet(sources')
        /\ NavOf(nav', hops) /\ held' \in 0 .. Len(views) /\ NodeClicksAreAnswered'
    BY <1>1 DEF IInv, Typed, details, reader, NodeClicksAreAnswered
  <2>3. FirstCost' = FirstCost /\ Drawn' = Drawn
    BY <1>1 DEF FirstCost, Drawn
  <2>4. Weighed'
    BY <1>1, <2>3 DEF IInv, Weighed, Growing, options, details
  <2>. QED
    BY <1>1, <2>1, <2>2, <2>4, DetailKeeps
<1>. QED
  BY <1>2, <1>3

LEMMA StepKeeps ==
  ASSUME IInv, [Next]_vars
  PROVE  IInv'
<1>1. CASE QuotaTurn
  BY <1>1, QuotaTurnKeeps
<1>2. CASE QuotaIdle
  BY <1>2, QuotaIdleKeeps
<1>3. CASE DrainTurn
  BY <1>3, DrainTurnKeeps
<1>4. CASE DrainIdle \/ DrainEnds
  BY <1>4, DrainStopsKeeps
<1>5. CASE CountOmitted
  BY <1>5, CountOmittedKeeps
<1>6. CASE InspectNext
  BY <1>6, InspectNextKeeps
<1>7. CASE SliceNext
  BY <1>7, SliceNextKeeps
<1>8. CASE Reading
  BY <1>8, ReadingKeeps
<1>9. CASE UNCHANGED vars
  BY <1>9, StutterKeeps
<1>. QED
  BY <1>1, <1>2, <1>3, <1>4, <1>5, <1>6, <1>7, <1>8, <1>9 DEF Next, Exporting

LEMMA Inductive == Spec => []IInv
<1>1. Init => IInv
  BY InitHolds
<1>2. IInv /\ [Next]_vars => IInv'
  BY StepKeeps
<1>. QED
  BY <1>1, <1>2, PTL DEF Spec

\* `viewsOmitted` (html.ts:356) is the number of views that a click on the
\* page asks for and the file does not hold, whatever the budget, the cap,
\* the order of the rounds and the requests put back.
THEOREM OmittedIsCounted == Spec => []OmittedIsWhatIsMissing
<1>1. IInv => OmittedIsWhatIsMissing
  <2>. SUFFICES ASSUME IInv, phase \in {"inspect", "source", "written", "read"}
                PROVE  LET next == UNION {{RequestKey(r) : r \in NextRequests(v.request, v.view)} : v \in ToSet(views)}
                           here == {RequestKey(v.request) : v \in ToSet(views)}
                       IN  /\ Cardinality(here) = Len(views)
                           /\ viewsOmitted = Cardinality((next \cup {RequestKey(opening)}) \ here)
    BY DEF OmittedIsWhatIsMissing
  <2>. DEFINE next == UNION {{RequestKey(r) : r \in NextRequests(v.request, v.view)} : v \in ToSet(views)}
              here == {RequestKey(v.request) : v \in ToSet(views)}
  <2>1. here = Embedded
    BY DEF Embedded, ToSet
  <2>2. next = UNION {Offers(views[i]) : i \in DOMAIN views}
    BY DEF Offers, ToSet
  <2>3. seen = next \cup {RequestKey(opening)}
    BY <2>2 DEF IInv, Sought, Reached
  <2>. HIDE DEF next, here
  <2>4. Cardinality(here) = Len(views)
    BY <2>1 DEF IInv, Sought
  <2>5. viewsOmitted = Cardinality(seen \ here)
    BY <2>1 DEF IInv, Typed, Counted, Missing, Growing
  <2>6. viewsOmitted = Cardinality((next \cup {RequestKey(opening)}) \ here)
    BY <2>3, <2>5
  <2>. QED
    BY <2>4, <2>6 DEF next, here
<1>. QED
  BY <1>1, Inductive, PTL

\* `bytes` (html.ts:268-446) is the size of what the file carries, every node
\* stored once; the views keep to their share of the budget and the whole to
\* the budget, but for the opening view and the one detail that crossed it.
THEOREM BytesAreKept == Spec => []BytesAreWhatIsCarried
<1>1. IInv => BytesAreWhatIsCarried
  BY DEF IInv, Within, Weighed, Drawn, BytesAreWhatIsCarried
<1>. QED
  BY <1>1, Inductive, PTL

\* A click on a node of the page is answered from the file, or the file says
\* that views are missing (html.ts:172, static.ts `view`): along every path of
\* clicks, spelled as the interface spells its requests.
THEOREM NodesOpen == Spec => []NodeClicksAreAnswered
<1>1. IInv => NodeClicksAreAnswered
  BY DEF IInv
<1>. QED
  BY <1>1, Inductive, PTL
=============================================================================
