------------------------- MODULE AggregationProofs -------------------------
(***************************************************************************)
(* What the query engine guarantees for any graph, any directories and any *)
(* cap: the map is opened as far as it fits, and closing a directory never *)
(* leads to a refusal.  Both rest on one fact about layOut (FewerElements):*)
(* what is drawn with fewer directories open is never more.  The inspector,*)
(* the traversals, the lenses and the counts tell one story: a walk down   *)
(* turned round is a walk up (WalkedBack), and the breadth-first search    *)
(* finds each node at its distance (FrontierIsExact).  The map counts each *)
(* call site once: a sum is the size of a pile (Pile), and the edges of a  *)
(* bundle are disjoint parts of those between its two sides.               *)
(***************************************************************************)
EXTENDS Aggregation, FiniteSetTheorems, WellFoundedInduction, TLAPS

-----------------------------------------------------------------------------
(* Least elements, and sums over finite sets. *)

(* A set of numbers that is not empty has a least.                           *)
LEMMA Least ==
  ASSUME NEW S \in SUBSET Nat, S # {}
  PROVE  \E s \in S : \A o \in S : s <= o
<1>. DEFINE R == OpToRel(<, Nat)
<1>1. IsWellFoundedOn(R, Nat)
  BY NatLessThanWellFounded
<1>2. \A x, y \in Nat : x < y => <<x, y>> \in R
  BY DEF OpToRel
<1>. HIDE DEF R
<1>3. PICK s \in S : \A o \in S : ~(<<o, s>> \in R)
  BY <1>1, WFMin
<1>4. \A o \in S : ~(o < s)
  BY <1>2, <1>3, Zenon
<1>. QED
  BY <1>4

(* A set of subsets of a finite set that is not empty has a smallest.        *)
LEMMA Smallest ==
  ASSUME NEW S, IsFiniteSet(S), NEW T \in SUBSET (SUBSET S), T # {}
  PROVE  \E s \in T : \A x \in s : s \ {x} \notin T
<1>. DEFINE C == {Cardinality(s) : s \in T}
<1>1. C \in SUBSET Nat /\ C # {}
  BY FS_Subset, FS_CardinalityType
<1>2. PICK n \in C : \A o \in C : n <= o
  BY <1>1, Least
<1>3. PICK s \in T : n = Cardinality(s)
  BY <1>2
<1>4. ASSUME NEW x \in s, s \ {x} \in T PROVE FALSE
  <2>1. IsFiniteSet(s) /\ Cardinality(s) \in Nat
    BY FS_Subset, FS_CardinalityType
  <2>2. Cardinality(s \ {x}) = Cardinality(s) - 1
    BY <2>1, FS_RemoveElement
  <2>3. Cardinality(s) <= Cardinality(s \ {x})
    BY <1>2, <1>3, <1>4
  <2>. QED
    BY <2>1, <2>2, <2>3
<1>. QED
  BY <1>4

(* A sum is the size of a pile: for each x, c[x] pieces.                      *)
Pile(c, S) == UNION {{<<x, k>> : k \in 1 .. c[x]} : x \in S}
Total(c, S) == Cardinality(Pile(c, S))

LEMMA PileOfOne ==
  ASSUME NEW c, NEW x, c[x] \in Nat
  PROVE  IsFiniteSet(Pile(c, {x})) /\ Cardinality(Pile(c, {x})) = c[x]
<1>. DEFINE f == [k \in 1 .. c[x] |-> <<x, k>>]
<1>1. f \in Bijection(1 .. c[x], Pile(c, {x}))
  <2>1. f \in Injection(1 .. c[x], Pile(c, {x}))
    BY DEF Injection, IsInjective, Pile
  <2>2. f \in Surjection(1 .. c[x], Pile(c, {x}))
    BY DEF Surjection, Pile
  <2>. QED
    BY <2>1, <2>2 DEF Bijection
<1>2. IsFiniteSet(1 .. c[x]) /\ Cardinality(1 .. c[x]) = c[x]
  BY FS_Interval
<1>. QED
  BY <1>1, <1>2, FS_Bijection DEF ExistsBijection

LEMMA PilesApart ==
  ASSUME NEW c, NEW S, NEW T, S \cap T = {}, IsFiniteSet(Pile(c, S)), IsFiniteSet(Pile(c, T))
  PROVE  IsFiniteSet(Pile(c, S \cup T)) /\ Total(c, S \cup T) = Total(c, S) + Total(c, T)
<1>1. Pile(c, S \cup T) = Pile(c, S) \cup Pile(c, T)
  BY DEF Pile
<1>2. Pile(c, S) \cap Pile(c, T) = {}
  BY DEF Pile
<1>3. Cardinality(Pile(c, S)) \in Nat /\ Cardinality(Pile(c, T)) \in Nat
  BY FS_CardinalityType
<1>. QED
  <2>1. IsFiniteSet(Pile(c, S) \cup Pile(c, T))
        /\ Cardinality(Pile(c, S) \cup Pile(c, T))
             = Cardinality(Pile(c, S)) + Cardinality(Pile(c, T)) - Cardinality(Pile(c, S) \cap Pile(c, T))
    BY FS_Union
  <2>2. Cardinality(Pile(c, S) \cap Pile(c, T)) = 0
    BY <1>2, FS_EmptySet, Zenon
  <2>3. Cardinality(Pile(c, S) \cup Pile(c, T)) = Cardinality(Pile(c, S)) + Cardinality(Pile(c, T))
    BY <1>3, <2>1, <2>2
  <2>. QED
    BY <1>1, <2>1, <2>3, Zenon DEF Total

LEMMA PileIsFinite ==
  ASSUME NEW S, IsFiniteSet(S), NEW c, \A x \in S : c[x] \in Nat, NEW s \in SUBSET S
  PROVE  IsFiniteSet(Pile(c, s))
<1>. DEFINE wrong == {t \in SUBSET S : ~IsFiniteSet(Pile(c, t))}
<1>1. SUFFICES ASSUME wrong # {} PROVE FALSE
  OBVIOUS
<1>2. PICK t \in wrong : \A x \in t : t \ {x} \notin wrong
  <2>1. wrong \in SUBSET (SUBSET S)
    OBVIOUS
  <2>. HIDE DEF wrong
  <2>. QED
    BY <1>1, <2>1, Smallest
<1>3. CASE t = {}
  <2>1. Pile(c, t) = {}
    BY <1>3 DEF Pile
  <2>. QED
    BY <2>1, FS_EmptySet
<1>4. CASE t # {}
  <2>1. PICK x \in t : TRUE
    BY <1>4
  <2>2. t \ {x} \in SUBSET S /\ (t \ {x}) \cup {x} = t /\ (t \ {x}) \cap {x} = {}
    BY <2>1
  <2>3. IsFiniteSet(Pile(c, t \ {x}))
    BY <1>2, <2>1, <2>2
  <2>4. IsFiniteSet(Pile(c, {x}))
    BY <2>1, PileOfOne
  <2>5. IsFiniteSet(Pile(c, (t \ {x}) \cup {x}))
    BY <2>2, <2>3, <2>4, PilesApart
  <2>. QED
    BY <1>2, <2>2, <2>5
<1>. QED
  BY <1>3, <1>4

LEMMA TotalType ==
  ASSUME NEW S, IsFiniteSet(S), NEW c, \A x \in S : c[x] \in Nat
  PROVE  Total(c, S) \in Nat
  BY PileIsFinite, FS_CardinalityType DEF Total

LEMMA TotalOfUnion ==
  ASSUME NEW S, IsFiniteSet(S), NEW T, IsFiniteSet(T), S \cap T = {}, NEW c, \A x \in S \cup T : c[x] \in Nat
  PROVE  Total(c, S \cup T) = Total(c, S) + Total(c, T)
  BY PileIsFinite, PilesApart

LEMMA TotalLess ==
  ASSUME NEW S, IsFiniteSet(S), NEW c, \A x \in S : c[x] \in Nat, NEW x \in S
  PROVE  Total(c, S) = c[x] + Total(c, S \ {x})
<1>1. IsFiniteSet(S \ {x}) /\ IsFiniteSet({x}) /\ (S \ {x}) \cap {x} = {}
  <2>1. IsFiniteSet(S \ {x})
    BY FS_RemoveElement
  <2>2. IsFiniteSet({x})
    BY FS_Singleton
  <2>. QED
    BY <2>1, <2>2
<1>5. Total(c, S) = Total(c, (S \ {x}) \cup {x})
  <2>1. S = (S \ {x}) \cup {x}
    OBVIOUS
  <2>. QED
    BY <2>1, Zenon
<1>2. Total(c, {x}) = c[x]
  BY PileOfOne DEF Total
<1>3. Total(c, (S \ {x}) \cup {x}) = Total(c, S \ {x}) + Total(c, {x})
  BY <1>1, TotalOfUnion
<1>4. Total(c, S \ {x}) \in Nat
  BY <1>1, TotalType
<1>. QED
  BY <1>2, <1>3, <1>4, <1>5

(* The sums of the model, one element at a time, are the size of the pile.   *)
Any(s) == CHOOSE x \in s : TRUE

LEMMA TotalByElement ==
  ASSUME NEW S, IsFiniteSet(S), NEW c, \A x \in S : c[x] \in Nat, NEW s \in SUBSET S
  PROVE  Total(c, s) = IF s = {} THEN 0 ELSE c[Any(s)] + Total(c, s \ {Any(s)})
<1>1. CASE s = {}
  <2>1. Pile(c, s) = {}
    BY <1>1 DEF Pile
  <2>. QED
    BY <1>1, <2>1, FS_EmptySet DEF Total
<1>2. CASE s # {}
  <2>1. Any(s) \in s
    BY <1>2 DEF Any
  <2>2. IsFiniteSet(s) /\ \A x \in s : c[x] \in Nat
    BY FS_Subset
  <2>. QED
    BY <1>2, <2>1, <2>2, TotalLess
<1>. QED
  BY <1>1, <1>2

LEMMA TotalIsTheOnly ==
  ASSUME NEW S, IsFiniteSet(S), NEW c, \A x \in S : c[x] \in Nat, NEW W,
         \A s \in SUBSET S : W[s] = IF s = {} THEN 0 ELSE c[Any(s)] + W[s \ {Any(s)}]
  PROVE  W[S] = Total(c, S)
<1>. DEFINE wrong == {s \in SUBSET S : W[s] # Total(c, s)}
<1>1. SUFFICES ASSUME wrong # {} PROVE FALSE
  OBVIOUS
<1>2. PICK s \in wrong : \A x \in s : s \ {x} \notin wrong
  <2>1. wrong \in SUBSET (SUBSET S)
    OBVIOUS
  <2>. HIDE DEF wrong
  <2>. QED
    BY <1>1, <2>1, Smallest
<1>3. Total(c, s) = IF s = {} THEN 0 ELSE c[Any(s)] + Total(c, s \ {Any(s)})
  BY TotalByElement
<1>4. s # {} => Any(s) \in s
  BY DEF Any
<1>5. s # {} => W[s \ {Any(s)}] = Total(c, s \ {Any(s)})
  BY <1>2, <1>4
<1>. QED
  BY <1>2, <1>3, <1>5

LEMMA SitesAre ==
  ASSUME NEW E, IsFiniteSet(E), NEW c, \A e \in E : c[e] = e.count /\ c[e] \in Nat
  PROVE  Sites(E) = Total(c, E)
<1>. DEFINE step(f) == [s \in SUBSET E |-> IF s = {} THEN 0 ELSE (CHOOSE x \in s : TRUE).count
                                                                   + f[s \ {CHOOSE x \in s : TRUE}]]
            F == [s \in SUBSET E |-> Total(c, s)]
            W == CHOOSE f : f = step(f)
<1>1. Sites(E) = W[E]
  BY DEF Sites, MapThenSumSet, MapThenFoldSet
<1>2. \A f : step(f) = [s \in SUBSET E |-> IF s = {} THEN 0 ELSE Any(s).count + f[s \ {Any(s)}]]
  BY DEF Any
<1>3. \A s \in SUBSET E : s # {} => Any(s) \in s /\ s \ {Any(s)} \in SUBSET E /\ c[Any(s)] = Any(s).count
  BY DEF Any
<1>4. F = step(F)
  <2>1. \A s \in SUBSET E : Total(c, s) = IF s = {} THEN 0 ELSE c[Any(s)] + Total(c, s \ {Any(s)})
    BY TotalByElement
  <2>2. \A s \in SUBSET E : Total(c, s) = IF s = {} THEN 0 ELSE Any(s).count + F[s \ {Any(s)}]
    BY <1>3, <2>1
  <2>. HIDE DEF step
  <2>. QED
    BY <1>2, <2>2
<1>5. W = step(W)
  <2>. HIDE DEF step, F
  <2>. QED
    BY <1>4
<1>. HIDE DEF W, step
<1>6. \A s \in SUBSET E : W[s] = IF s = {} THEN 0 ELSE c[Any(s)] + W[s \ {Any(s)}]
  BY <1>2, <1>3, <1>5
<1>7. W[E] = Total(c, E)
  BY <1>6, TotalIsTheOnly
<1>. QED
  BY <1>1, <1>7

LEMMA SumsAre ==
  ASSUME NEW S, IsFiniteSet(S), NEW c, \A x \in S : c[x] \in Nat
  PROVE  MapThenSumSet(LAMBDA x : c[x], S) = Total(c, S)
<1>. DEFINE step(f) == [s \in SUBSET S |-> IF s = {} THEN 0 ELSE c[CHOOSE x \in s : TRUE]
                                                                   + f[s \ {CHOOSE x \in s : TRUE}]]
            F == [s \in SUBSET S |-> Total(c, s)]
            W == CHOOSE f : f = step(f)
<1>1. MapThenSumSet(LAMBDA x : c[x], S) = W[S]
  BY DEF MapThenSumSet, MapThenFoldSet
<1>2. \A f : step(f) = [s \in SUBSET S |-> IF s = {} THEN 0 ELSE c[Any(s)] + f[s \ {Any(s)}]]
  BY DEF Any
<1>3. \A s \in SUBSET S : s # {} => Any(s) \in s /\ s \ {Any(s)} \in SUBSET S
  BY DEF Any
<1>4. F = step(F)
  <2>1. \A s \in SUBSET S : Total(c, s) = IF s = {} THEN 0 ELSE c[Any(s)] + Total(c, s \ {Any(s)})
    BY TotalByElement
  <2>2. \A s \in SUBSET S : Total(c, s) = IF s = {} THEN 0 ELSE c[Any(s)] + F[s \ {Any(s)}]
    BY <1>3, <2>1
  <2>. HIDE DEF step
  <2>. QED
    BY <1>2, <2>2
<1>5. W = step(W)
  <2>. HIDE DEF step, F
  <2>. QED
    BY <1>4
<1>. HIDE DEF W, step
<1>6. \A s \in SUBSET S : W[s] = IF s = {} THEN 0 ELSE c[Any(s)] + W[s \ {Any(s)}]
  BY <1>2, <1>5
<1>7. W[S] = Total(c, S)
  BY <1>6, TotalIsTheOnly
<1>. QED
  BY <1>1, <1>7

(* What is counted part by part is counted whole.                            *)
LEMMA TotalOfParts ==
  ASSUME NEW A, IsFiniteSet(A), NEW n, NEW E, IsFiniteSet(E), NEW c, \A x \in E : c[x] \in Nat,
         NEW part \in [A -> SUBSET E], \A a, b \in A : a # b => part[a] \cap part[b] = {},
         \A a \in A : n[a] = Total(c, part[a])
  PROVE  Total(n, A) = Total(c, UNION {part[a] : a \in A})
<1>. DEFINE whole(B) == UNION {part[a] : a \in B}
            wrong == {B \in SUBSET A : Total(n, B) # Total(c, whole(B))}
<1>1. SUFFICES ASSUME wrong # {} PROVE FALSE
  OBVIOUS
<1>2. PICK B \in wrong : \A x \in B : B \ {x} \notin wrong
  <2>1. wrong \in SUBSET (SUBSET A)
    OBVIOUS
  <2>. HIDE DEF wrong
  <2>. QED
    BY <1>1, <2>1, Smallest
<1>3. \A a \in A : n[a] \in Nat /\ IsFiniteSet(part[a])
  BY FS_Subset, TotalType
<1>4. CASE B = {}
  <2>1. Pile(n, B) = {} /\ Pile(c, whole(B)) = {}
    BY <1>4 DEF Pile
  <2>. QED
    BY <1>2, <2>1 DEF Total
<1>5. CASE B # {}
  <2>1. PICK x \in B : TRUE
    BY <1>5
  <2>2. IsFiniteSet(B) /\ x \in A /\ B \ {x} \in SUBSET A
    BY FS_Subset
  <2>3. Total(n, B) = n[x] + Total(n, B \ {x})
    BY <1>3, <2>2, TotalLess
  <2>4. Total(n, B \ {x}) = Total(c, whole(B \ {x}))
    BY <1>2, <2>1, <2>2
  <2>5. part[x] \cap whole(B \ {x}) = {}
    BY <2>2
  <2>6. whole(B) = part[x] \cup whole(B \ {x})
    BY <2>1
  <2>7. whole(B \ {x}) \in SUBSET E /\ part[x] \in SUBSET E
    BY <2>2
  <2>. HIDE DEF whole
  <2>8. IsFiniteSet(part[x]) /\ IsFiniteSet(whole(B \ {x})) /\ \A y \in part[x] \cup whole(B \ {x}) : c[y] \in Nat
    BY <2>7, FS_Subset
  <2>9. Total(c, part[x] \cup whole(B \ {x})) = Total(c, part[x]) + Total(c, whole(B \ {x}))
    BY <2>5, <2>8, TotalOfUnion
  <2>10. Total(c, whole(B)) = n[x] + Total(n, B \ {x})
    BY <2>2, <2>4, <2>6, <2>9, Zenon
  <2>. QED
    BY <1>2, <2>3, <2>10
<1>. QED
  BY <1>4, <1>5

Counted(E) == IsFiniteSet(E) /\ \A e \in E : e.count \in Nat

LEMMA SitesOfUnion ==
  ASSUME NEW E, Counted(E), NEW D, Counted(D), E \cap D = {}
  PROVE  Sites(E) \in Nat /\ Counted(E \cup D) /\ Sites(E \cup D) = Sites(E) + Sites(D)
<1>. DEFINE c == [e \in E \cup D |-> e.count]
<1>1. IsFiniteSet(E) /\ IsFiniteSet(D) /\ IsFiniteSet(E \cup D) /\ \A e \in E \cup D : e.count \in Nat
  BY FS_Union DEF Counted
<1>2. \A e \in E \cup D : c[e] = e.count /\ c[e] \in Nat
  BY <1>1
<1>. HIDE DEF c
<1>3. Sites(E) = Total(c, E) /\ Sites(D) = Total(c, D) /\ Sites(E \cup D) = Total(c, E \cup D)
  BY <1>1, <1>2, SitesAre
<1>4. Total(c, E \cup D) = Total(c, E) + Total(c, D)
  BY <1>1, <1>2, TotalOfUnion
<1>5. Total(c, E) \in Nat
  BY <1>1, <1>2, TotalType
<1>. QED
  BY <1>1, <1>3, <1>4, <1>5 DEF Counted

LEMMA SitesOfParts ==
  ASSUME NEW A, IsFiniteSet(A), NEW E, Counted(E),
         NEW part \in [A -> SUBSET E], \A a, b \in A : a # b => part[a] \cap part[b] = {},
         \A a \in A : a.count = Sites(part[a])
  PROVE  Counted(A) /\ Sites(A) = Sites(UNION {part[a] : a \in A})
<1>. DEFINE c == [e \in E |-> e.count]
            n == [a \in A |-> a.count]
            whole == UNION {part[a] : a \in A}
<1>1. IsFiniteSet(E) /\ \A e \in E : e.count \in Nat /\ c[e] = e.count
  BY DEF Counted
<1>2. \A a \in A : n[a] = a.count
  OBVIOUS
<1>3. whole \in SUBSET E
  OBVIOUS
<1>. HIDE DEF c, n, whole
<1>4. \A D \in SUBSET E : IsFiniteSet(D) /\ Sites(D) = Total(c, D) /\ Total(c, D) \in Nat
  BY <1>1, SitesAre, TotalType, FS_Subset
<1>5. \A a \in A : n[a] = Total(c, part[a]) /\ n[a] = a.count /\ n[a] \in Nat
  BY <1>2, <1>4
<1>6. Total(n, A) = Total(c, whole)
  <2>1. \A x \in E : c[x] \in Nat
    BY <1>1
  <2>2. Total(n, A) = Total(c, UNION {part[a] : a \in A})
    BY <1>1, <1>5, <2>1, TotalOfParts
  <2>. QED
    BY <2>2, Zenon DEF whole
<1>7. Sites(A) = Total(n, A)
  BY <1>5, SitesAre
<1>8. Counted(A)
  BY <1>5 DEF Counted
<1>. QED
  BY <1>3, <1>4, <1>6, <1>7, <1>8 DEF whole

-----------------------------------------------------------------------------
USE DirAssumption

-----------------------------------------------------------------------------
(* Directories: those above one are a chain that ends at a root. *)

LEMMA AboveType == Above \in [Dirs -> SUBSET Dirs] /\ \A d \in Dirs : d \in Above[d] /\ UpClosed(Above[d])
  BY DEF Above, Ancestors, UpClosed

(* What is closed upwards and has a directory has all those above it. *)
LEMMA AboveLeast ==
  ASSUME NEW S \in SUBSET Dirs, UpClosed(S), NEW d \in S
  PROVE  Above[d] \subseteq S
  BY DEF Above, Ancestors

LEMMA AboveTransitive ==
  ASSUME NEW d \in Dirs, NEW x \in Above[d]
  PROVE  x \in Dirs /\ Above[x] \subseteq Above[d]
  BY AboveType, AboveLeast

(* aggregate.ts:207-211 — above a directory are itself and those above its    *)
(* parent.                                                                   *)
LEMMA AboveSteps ==
  ASSUME NEW d \in Dirs
  PROVE  Above[d] = {d} \cup (IF Parent[d] = None THEN {} ELSE Above[Parent[d]])
<1>. DEFINE S == {d} \cup (IF Parent[d] = None THEN {} ELSE Above[Parent[d]])
<1>1. S \subseteq Above[d]
  BY AboveType, AboveTransitive DEF UpClosed
<1>2. S \in SUBSET Dirs /\ UpClosed(S)
  BY AboveType DEF UpClosed
<1>3. d \in S
  OBVIOUS
<1>4. Above[d] \subseteq S
  BY <1>2, <1>3, AboveLeast
<1>. QED
  BY <1>1, <1>4

LEMMA AboveChain ==
  ASSUME NEW d \in Dirs, NEW x \in Above[d], NEW y \in Above[d]
  PROVE  x \in Above[y] \/ y \in Above[x]
<1>. DEFINE S == {z \in Above[d] : z \in Above[y] \/ y \in Above[z]}
<1>1. d \in S /\ S \in SUBSET Dirs
  BY AboveType
<1>2. ASSUME NEW z \in S PROVE Parent[z] \in S \cup {None}
  <2>1. z \in Dirs /\ Parent[z] \in Above[d] \cup {None}
    BY AboveType, AboveTransitive DEF UpClosed
  <2>2. CASE z \in Above[y]
    <3>1. Parent[z] \in Above[y] \cup {None}
      BY <2>2, AboveType, AboveTransitive DEF UpClosed
    <3>. QED
      BY <2>1, <3>1
  <2>3. CASE z \notin Above[y]
    <3>1. y \in Above[z] /\ y # z
      BY <2>3, AboveType, AboveTransitive
    <3>2. Parent[z] # None => y \in Above[Parent[z]]
      BY <2>1, <3>1, AboveSteps
    <3>. QED
      BY <2>1, <3>2
  <2>. QED
    BY <2>2, <2>3
<1>3. Above[d] \subseteq S
  <2>. HIDE DEF S
  <2>1. UpClosed(S)
    BY <1>2 DEF UpClosed
  <2>. QED
    BY <1>1, <2>1, AboveLeast
<1>. QED
  BY <1>3

(* No two directories are above each other. *)
LEMMA AboveOrder ==
  ASSUME NEW x \in Dirs, NEW y \in Above[x], x \in Above[y]
  PROVE  x = y
<1>. SUFFICES ASSUME x # y PROVE FALSE
  OBVIOUS
<1>. DEFINE S == {z \in Above[x] : x \in Above[z]}
<1>1. x \in S /\ S \in SUBSET Dirs
  BY AboveType
<1>2. ASSUME NEW z \in S PROVE Parent[z] \in S
  <2>1. z \in Dirs /\ z \in Above[x] /\ x \in Above[z] /\ Parent[z] \in Above[x] \cup {None}
    BY AboveType, AboveTransitive DEF UpClosed
  <2>2. CASE z = x
    <3>1. y \in Above[Parent[x]] /\ Parent[x] # None
      BY AboveSteps
    <3>2. Parent[x] \in Dirs
      BY <3>1
    <3>3. x \in Above[Parent[x]]
      BY <3>1, <3>2, AboveTransitive
    <3>. QED
      BY <2>1, <2>2, <3>1, <3>3
  <2>3. CASE z # x
    <3>1. Parent[z] # None /\ x \in Above[Parent[z]]
      BY <2>1, <2>3, AboveSteps
    <3>. QED
      BY <2>1, <3>1
  <2>. QED
    BY <2>2, <2>3
<1>. HIDE DEF S
<1>. QED
  BY <1>1, <1>2

(* Those above a parent leave the directory itself out. *)
LEMMA AboveParent ==
  ASSUME NEW d \in Dirs, Parent[d] # None
  PROVE  Above[d] \ {d} = Above[Parent[d]] /\ Parent[d] \in Dirs
<1>1. Parent[d] \in Dirs
  OBVIOUS
<1>2. d \notin Above[Parent[d]]
  <2>. SUFFICES ASSUME d \in Above[Parent[d]] PROVE FALSE
    OBVIOUS
  <2>1. Parent[d] \in Above[d]
    BY <1>1, AboveType DEF UpClosed
  <2>2. Parent[d] = d
    BY <1>1, <2>1, AboveOrder
  <2>3. \E z \in {d} : Parent[z] \notin {d}
    OBVIOUS
  <2>. QED
    BY <2>2, <2>3
<1>. QED
  BY <1>1, <1>2, AboveSteps

-----------------------------------------------------------------------------
(* What stands for a directory that is not drawn: the first on its way down  *)
(* that is not open.                                                         *)
Shut(d, opened) == Above[d] \ {d} \subseteq opened /\ d \notin opened

(* aggregate.ts:336-347 — there is one, and no other. *)
LEMMA OneIsShut ==
  ASSUME NEW opened \in SUBSET Dirs, UpClosed(opened),
         NEW dir \in Dirs, ~(Above[dir] \subseteq opened)
  PROVE  /\ \E d \in Above[dir] : Shut(d, opened)
         /\ \A d, e \in Above[dir] : Shut(d, opened) /\ Shut(e, opened) => d = e
<1>. DEFINE S == Above[dir] \ opened
<1>1. S # {} /\ S \in SUBSET Dirs
  BY AboveType
<1>2. PICK d \in S : Parent[d] \notin S
  BY <1>1
<1>3. d \in Dirs /\ d \in Above[dir] /\ d \notin opened
  BY <1>1
<1>4. Above[d] \ {d} \subseteq opened
  <2>1. CASE Parent[d] = None
    BY <1>3, <2>1, AboveSteps
  <2>2. CASE Parent[d] # None
    <3>1. Parent[d] \in Above[dir]
      BY <1>3, <2>2, AboveType DEF UpClosed
    <3>2. Parent[d] \in opened
      BY <1>2, <3>1
    <3>3. Above[Parent[d]] \subseteq opened
      BY <3>2, AboveLeast
    <3>. QED
      BY <1>3, <2>2, <3>3, AboveParent
  <2>. QED
    BY <2>1, <2>2
<1>5. d \in Above[dir] /\ Shut(d, opened)
  BY <1>3, <1>4 DEF Shut
<1>6. ASSUME NEW a \in Above[dir], NEW e \in Above[dir], Shut(a, opened), Shut(e, opened)
      PROVE  a = e
  BY <1>6, AboveChain DEF Shut
<1>. QED
  BY <1>5, <1>6

-----------------------------------------------------------------------------
(* What is drawn. *)

(* A selection of the graph held: its edges have their ends in it.           *)
Drawable(sel) ==
  /\ graph \in Graphs
  /\ sel.nodes \subseteq Nodes(graph) /\ IsFiniteSet(sel.nodes) /\ IsFiniteSet(sel.edges)
  /\ \A e \in sel.edges : {e.from, e.to} \subseteq sel.nodes

DirOf(n) == graph.node[n].dir

LEMMA Represents ==
  ASSUME NEW sel, Drawable(sel), NEW opened \in SUBSET Dirs, UpClosed(opened), NEW n \in sel.nodes
  PROVE  /\ DirOf(n) \in Dirs /\ n \notin Dirs
         /\ Above[DirOf(n)] \subseteq opened => Representative(sel, opened, n) = n
         /\ ~(Above[DirOf(n)] \subseteq opened) =>
              /\ Representative(sel, opened, n) \in Above[DirOf(n)]
              /\ Shut(Representative(sel, opened, n), opened)
              /\ Representative(sel, opened, n) \in Dirs
<1>1. DirOf(n) \in Dirs /\ n \notin Dirs
  BY GraphAssumption DEF Drawable, DirOf
<1>2. CASE Above[DirOf(n)] \subseteq opened
  BY <1>1, <1>2 DEF Representative, DirOf
<1>3. CASE ~(Above[DirOf(n)] \subseteq opened)
  <2>1. \E d \in Above[DirOf(n)] : Shut(d, opened)
    BY <1>1, <1>3, OneIsShut
  <2>2. Representative(sel, opened, n) = CHOOSE d \in Above[DirOf(n)] : Shut(d, opened)
    BY <1>3 DEF Representative, DirOf, Shut
  <2>3. Representative(sel, opened, n) \in Above[DirOf(n)] /\ Shut(Representative(sel, opened, n), opened)
    BY <2>1, <2>2
  <2>. QED
    BY <1>1, <1>3, <2>3, AboveType
<1>. QED
  BY <1>1, <1>2, <1>3

(* aggregate.ts:336-347 — nodes that are one element on the map are one       *)
(* element on every map with fewer directories open.                         *)
LEMMA StayTogether ==
  ASSUME NEW sel, Drawable(sel), NEW fewer \in SUBSET Dirs, UpClosed(fewer),
         NEW more \in SUBSET Dirs, UpClosed(more), fewer \subseteq more,
         NEW x \in sel.nodes, NEW y \in sel.nodes,
         Representative(sel, more, x) = Representative(sel, more, y)
  PROVE  Representative(sel, fewer, x) = Representative(sel, fewer, y)
<1>. DEFINE d == Representative(sel, more, x)
<1>1. CASE d \notin Dirs
  BY <1>1, Represents
<1>2. CASE d \in Dirs
  <2>1. ASSUME NEW z \in sel.nodes, Representative(sel, more, z) = d
        PROVE  /\ Representative(sel, fewer, z) \in Above[d]
               /\ Shut(Representative(sel, fewer, z), fewer)
    <3>. DEFINE r == Representative(sel, fewer, z)
    <3>1. d \in Above[DirOf(z)] /\ Shut(d, more) /\ DirOf(z) \in Dirs
      BY <1>2, <2>1, Represents
    <3>2. d \notin fewer
      BY <3>1 DEF Shut
    <3>3. r \in Above[DirOf(z)] /\ Shut(r, fewer) /\ r \in Dirs
      BY <3>1, <3>2, Represents
    <3>4. r \in Above[d] \/ d \in Above[r]
      BY <3>1, <3>3, AboveChain
    <3>5. d \in Above[r] => d = r
      BY <3>2, <3>3 DEF Shut
    <3>6. r \in Above[d]
      BY <3>3, <3>4, <3>5, AboveType
    <3>. QED
      BY <3>3, <3>6
  <2>2. d \notin fewer
    BY <1>2, Represents DEF Shut
  <2>3. ~(Above[d] \subseteq fewer)
    BY <1>2, <2>2, AboveType
  <2>. QED
    BY <1>2, <2>1, <2>3, OneIsShut
<1>. QED
  BY <1>1, <1>2

(* The edges drawn as they are, and the bundles of the others.               *)
Rep(sel, opened) == [n \in sel.nodes |-> Representative(sel, opened, n)]
Plain(sel, opened) ==
  {e \in sel.edges : Rep(sel, opened)[e.from] = e.from /\ Rep(sel, opened)[e.to] = e.to}
Key(sel, opened, e) == <<e.kind, Rep(sel, opened)[e.from], Rep(sel, opened)[e.to]>>
Across(sel, opened) ==
  {e \in sel.edges \ Plain(sel, opened) : Rep(sel, opened)[e.from] # Rep(sel, opened)[e.to]}
Keys(sel, opened) == {Key(sel, opened, e) : e \in Across(sel, opened)}

LEMMA KeysFinite ==
  ASSUME NEW sel, Drawable(sel), NEW opened
  PROVE  /\ IsFiniteSet(Plain(sel, opened)) /\ IsFiniteSet(Across(sel, opened))
         /\ IsFiniteSet(Keys(sel, opened))
<1>1. IsFiniteSet(Plain(sel, opened)) /\ IsFiniteSet(Across(sel, opened))
  BY FS_Subset DEF Drawable, Plain, Across
<1>2. [e \in Across(sel, opened) |-> Key(sel, opened, e)]
        \in Surjection(Across(sel, opened), Keys(sel, opened))
  BY DEF Keys, Surjection
<1>. QED
  BY <1>1, <1>2, FS_Surjection

LEMMA LayoutParts ==
  ASSUME NEW sel, Drawable(sel), NEW opened
  PROVE  /\ Layout(sel, opened).dirs = Present(sel, opened)
         /\ Layout(sel, opened).nodes = DrawnNodes(sel, opened)
         /\ Layout(sel, opened).collapsed = Present(sel, opened) \ opened
         /\ Layout(sel, opened).edges = Plain(sel, opened)
         /\ Cardinality(Layout(sel, opened).aggregates) = Cardinality(Keys(sel, opened))
<1>. DEFINE across == Across(sel, opened)
            keys   == Keys(sel, opened)
            fold(k) == {e \in across : Key(sel, opened, e) = k}
            bundle(k) == [key |-> k, count |-> Sites(fold(k)), pairs |-> Cardinality(fold(k)),
                          res |-> Worst(fold(k))]
            bundles == {bundle(k) : k \in keys}
<1>1. Layout(sel, opened).aggregates = bundles
  <2>. DEFINE lifted == sel.edges \ Plain(sel, opened)
              inside == {e \in lifted : Rep(sel, opened)[e.from] = Rep(sel, opened)[e.to]}
  <2>1. across = lifted \ inside
    BY DEF Across
  <2>2. Layout(sel, opened).aggregates =
          {[key |-> k, count |-> Sites({e \in lifted \ inside : Key(sel, opened, e) = k}),
            pairs |-> Cardinality({e \in lifted \ inside : Key(sel, opened, e) = k}),
            res |-> Worst({e \in lifted \ inside : Key(sel, opened, e) = k})]
           : k \in {Key(sel, opened, e) : e \in lifted \ inside}}
    BY DEF Layout, Plain, Key, Rep
  <2>. QED
    BY <2>1, <2>2 DEF Keys
<1>2. [k \in keys |-> bundle(k)] \in Bijection(keys, bundles)
  <2>. DEFINE f == [k \in keys |-> bundle(k)]
  <2>1. \A k \in keys : f[k].key = k
    OBVIOUS
  <2>2. f \in [keys -> bundles] /\ \A b \in bundles : \E k \in keys : f[k] = b
    <3>. HIDE DEF bundle
    <3>. QED
      OBVIOUS
  <2>. HIDE DEF f
  <2>3. f \in Injection(keys, bundles)
    <3>1. \A j, k \in keys : f[j] = f[k] => j = k
      BY <2>1
    <3>. HIDE DEF keys, bundles
    <3>. QED
      BY <2>2, <3>1 DEF Injection, IsInjective
  <2>4. f \in Surjection(keys, bundles)
    BY <2>2 DEF Surjection
  <2>. QED
    BY <2>3, <2>4 DEF Bijection, f
<1>3. Cardinality(bundles) = Cardinality(keys)
  <2>. HIDE DEF bundles, keys
  <2>1. IsFiniteSet(keys)
    BY KeysFinite DEF keys
  <2>. QED
    BY <1>2, <2>1, FS_Bijection DEF ExistsBijection
<1>4. Layout(sel, opened).edges = Plain(sel, opened)
  BY DEF Layout, Plain, Rep
<1>. QED
  BY <1>1, <1>3, <1>4 DEF Layout

(* An edge drawn as it is stays so on a map with more directories open.      *)
LEMMA PlainStays ==
  ASSUME NEW sel, Drawable(sel), NEW fewer \in SUBSET Dirs, UpClosed(fewer),
         NEW more \in SUBSET Dirs, UpClosed(more), fewer \subseteq more
  PROVE  Plain(sel, fewer) \subseteq Plain(sel, more)
<1>1. ASSUME NEW n \in sel.nodes, Representative(sel, fewer, n) = n
      PROVE  Representative(sel, more, n) = n
  <2>1. Above[DirOf(n)] \subseteq fewer
    BY <1>1, Represents
  <2>. QED
    BY <2>1, Represents
<1>. QED
  BY <1>1 DEF Plain, Rep, Drawable

(* aggregate.ts:348-439 — closing directories merges edges into bundles and   *)
(* bundles into bundles, and splits none.                                    *)
LEMMA FewerBundles ==
  ASSUME NEW sel, Drawable(sel), NEW fewer \in SUBSET Dirs, UpClosed(fewer),
         NEW more \in SUBSET Dirs, UpClosed(more), fewer \subseteq more
  PROVE  Cardinality(Plain(sel, fewer)) + Cardinality(Keys(sel, fewer))
           <= Cardinality(Plain(sel, more)) + Cardinality(Keys(sel, more))
<1>. DEFINE D == Plain(sel, more) \ Plain(sel, fewer)
            some(k) == CHOOSE e \in Across(sel, more) : Key(sel, more, e) = k
            A == {Key(sel, fewer, e) : e \in D}
            B == {Key(sel, fewer, some(k)) : k \in Keys(sel, more)}
<1>1. /\ IsFiniteSet(D)
      /\ Cardinality(D) = Cardinality(Plain(sel, more)) - Cardinality(Plain(sel, fewer))
  <2>1. Plain(sel, more) \cap Plain(sel, fewer) = Plain(sel, fewer)
    BY PlainStays
  <2>. QED
    BY <2>1, KeysFinite, FS_Difference
<1>2. IsFiniteSet(A) /\ Cardinality(A) <= Cardinality(D)
  <2>1. [e \in D |-> Key(sel, fewer, e)] \in Surjection(D, A)
    BY DEF Surjection
  <2>. HIDE DEF A, D
  <2>. QED
    BY <1>1, <2>1, FS_Surjection
<1>3. IsFiniteSet(B) /\ Cardinality(B) <= Cardinality(Keys(sel, more))
  <2>. HIDE DEF some
  <2>1. [k \in Keys(sel, more) |-> Key(sel, fewer, some(k))] \in Surjection(Keys(sel, more), B)
    BY DEF Surjection
  <2>. HIDE DEF B
  <2>. QED
    BY <2>1, KeysFinite, FS_Surjection
<1>4. ASSUME NEW e \in Across(sel, fewer) PROVE Key(sel, fewer, e) \in A \cup B
  <2>1. e \in sel.edges /\ e.from \in sel.nodes /\ e.to \in sel.nodes
    BY DEF Across, Drawable
  <2>2. CASE e \in Plain(sel, more)
    BY <2>2 DEF Across
  <2>3. CASE e \notin Plain(sel, more)
    <3>1. e \in Across(sel, more)
      BY <2>1, <2>3, StayTogether DEF Across, Rep
    <3>2. PICK o : o = some(Key(sel, more, e))
      OBVIOUS
    <3>3. o \in Across(sel, more) /\ Key(sel, more, o) = Key(sel, more, e)
      BY <3>1, <3>2
    <3>4. o \in sel.edges /\ o.from \in sel.nodes /\ o.to \in sel.nodes
      BY <3>3 DEF Across, Drawable
    <3>5. Key(sel, fewer, o) = Key(sel, fewer, e)
      BY <2>1, <3>3, <3>4, StayTogether DEF Key, Rep
    <3>6. Key(sel, more, e) \in Keys(sel, more)
      BY <3>1 DEF Keys
    <3>. HIDE DEF some
    <3>7. Key(sel, fewer, some(Key(sel, more, e))) \in B
      BY <3>6
    <3>. QED
      BY <3>2, <3>5, <3>7
  <2>. QED
    BY <2>2, <2>3
<1>5. Keys(sel, fewer) \subseteq A \cup B
  <2>. HIDE DEF A, B
  <2>. QED
    BY <1>4 DEF Keys
<1>. HIDE DEF A, B, D
<1>6. Cardinality(Keys(sel, fewer)) <= Cardinality(A \cup B) /\ IsFiniteSet(A \cup B)
  BY <1>2, <1>3, <1>5, FS_Union, FS_Subset
<1>7. Cardinality(A \cup B) <= Cardinality(A) + Cardinality(B)
  <2>1. Cardinality(A \cup B) = Cardinality(A) + Cardinality(B) - Cardinality(A \cap B)
    BY <1>2, <1>3, FS_Union
  <2>2. IsFiniteSet(A \cap B)
    BY <1>2, FS_Intersection
  <2>3. Cardinality(A) \in Nat /\ Cardinality(B) \in Nat /\ Cardinality(A \cap B) \in Nat
    BY <1>2, <1>3, <2>2, FS_CardinalityType
  <2>. QED
    BY <2>1, <2>3
<1>8. /\ Cardinality(A) \in Nat /\ Cardinality(B) \in Nat /\ Cardinality(A \cup B) \in Nat
      /\ Cardinality(Plain(sel, more)) \in Nat /\ Cardinality(Plain(sel, fewer)) \in Nat
      /\ Cardinality(Keys(sel, more)) \in Nat /\ Cardinality(Keys(sel, fewer)) \in Nat
      /\ Cardinality(D) \in Nat
  BY <1>1, <1>2, <1>3, <1>6, KeysFinite, FS_CardinalityType
<1>. QED
  BY <1>1, <1>2, <1>3, <1>6, <1>7, <1>8

LEMMA TreeIsUpClosed ==
  ASSUME NEW sel, Drawable(sel)
  PROVE  Tree(sel) \in SUBSET Dirs /\ UpClosed(Tree(sel))
<1>1. \A n \in sel.nodes : graph.node[n].dir \in Dirs
  BY GraphAssumption DEF Drawable
<1>. QED
  BY <1>1, AboveType DEF Tree, UpClosed

(* aggregate.ts:459-476, 573-574 — what is drawn with fewer directories open  *)
(* is never more: the count the cap is compared with only falls.             *)
LEMMA FewerElements ==
  ASSUME NEW sel, Drawable(sel), NEW fewer \in SUBSET Dirs, UpClosed(fewer),
         NEW more \in SUBSET Dirs, UpClosed(more), fewer \subseteq more
  PROVE  /\ Elements(Layout(sel, more)) \in Nat /\ Elements(Layout(sel, fewer)) \in Nat
         /\ Elements(Layout(sel, fewer)) <= Elements(Layout(sel, more))
<1>1. /\ IsFiniteSet(Present(sel, more)) /\ IsFiniteSet(Present(sel, fewer))
      /\ Cardinality(Present(sel, fewer)) <= Cardinality(Present(sel, more))
  <2>1. Present(sel, more) \subseteq Dirs /\ Present(sel, fewer) \subseteq Present(sel, more)
    BY TreeIsUpClosed DEF Present
  <2>. QED
    BY <2>1, FS_Subset
<1>2. /\ IsFiniteSet(DrawnNodes(sel, more)) /\ IsFiniteSet(DrawnNodes(sel, fewer))
      /\ Cardinality(DrawnNodes(sel, fewer)) <= Cardinality(DrawnNodes(sel, more))
  <2>1. DrawnNodes(sel, more) \subseteq sel.nodes /\ DrawnNodes(sel, fewer) \subseteq DrawnNodes(sel, more)
    BY DEF DrawnNodes
  <2>2. IsFiniteSet(sel.nodes)
    BY DEF Drawable
  <2>. QED
    BY <2>1, <2>2, FS_Subset
<1>3. \A S : IsFiniteSet(S) => Cardinality(S) \in Nat
  BY FS_CardinalityType
<1>. QED
  BY <1>1, <1>2, <1>3, KeysFinite, LayoutParts, FewerBundles DEF Elements

-----------------------------------------------------------------------------
(* Requests. *)

IsRequest(r) ==
  /\ r = [view |-> r.view, focus |-> r.focus, hops |-> r.hops, tests |-> r.tests,
          expand |-> r.expand, cap |-> r.cap, auto |-> r.auto]
  /\ r.cap \in Nat /\ r.auto \in BOOLEAN

(* views.ts:135-189 — the protocol map is drawable: what is rolled up is      *)
(* between contracts that are kept.                                          *)
LEMMA MapIsDrawable ==
  ASSUME graph \in Graphs, NEW req, Clustered(req)
  PROVE  Drawable(SelectView(graph, req, lead)) /\ ~SelectView(graph, req, lead).error
<1>. DEFINE keep == Contracts(graph, req.tests)
            ends(e) == <<ContainerOf(graph, e.from), ContainerOf(graph, e.to)>>
            crossing == {e \in Calls(graph.edge) : /\ ends(e)[1] # ends(e)[2]
                                                   /\ {ends(e)[1], ends(e)[2]} \subseteq keep}
            pairs == {ends(e) : e \in crossing}
            between(p) == {e \in crossing : ends(e) = p}
            kinds(p) == {e.kind : e \in between(p)}
            one(p) == [kind |-> IF lead \in kinds(p) THEN lead ELSE CHOOSE k \in kinds(p) : TRUE,
                       from |-> p[1], to |-> p[2], sub |-> "rollup", possible |-> {},
                       count |-> Sites(between(p)), res |-> Worst(between(p))]
            rolled == {one(p) : p \in pairs}
            inherited == Induced(graph, keep, {"inherits"})
<1>1. SelectView(graph, req, lead) = Selection(keep, inherited \cup rolled)
  BY DEF SelectView, ProtocolView, RolledUp, Clustered
<1>2. keep \subseteq Nodes(graph) /\ IsFiniteSet(keep)
  <2>1. keep \subseteq Nodes(graph)
    BY DEF Contracts, OfKind
  <2>. QED
    BY <2>1, GraphAssumption, FS_Subset
<1>3. IsFiniteSet(inherited) /\ \A e \in inherited : {e.from, e.to} \subseteq keep
  <2>1. inherited \subseteq graph.edge /\ \A e \in inherited : {e.from, e.to} \subseteq keep
    BY DEF Induced
  <2>. QED
    BY <2>1, GraphAssumption, FS_Subset
<1>4. IsFiniteSet(rolled)
  <2>1. IsFiniteSet(crossing)
    <3>1. crossing \subseteq graph.edge
      BY DEF Calls
    <3>. QED
      BY <3>1, GraphAssumption, FS_Subset
  <2>2. IsFiniteSet(pairs)
    <3>1. [e \in crossing |-> ends(e)] \in Surjection(crossing, pairs)
      BY DEF Surjection
    <3>. HIDE DEF crossing, pairs
    <3>. QED
      BY <2>1, <3>1, FS_Surjection
  <2>3. [p \in pairs |-> one(p)] \in Surjection(pairs, rolled)
    <3>. HIDE DEF one, pairs
    <3>. QED
      BY DEF Surjection
  <2>. HIDE DEF pairs, rolled
  <2>. QED
    BY <2>2, <2>3, FS_Surjection
<1>5. \A e \in rolled : {e.from, e.to} \subseteq keep
  <2>1. \A p \in pairs : {p[1], p[2]} \subseteq keep
    OBVIOUS
  <2>2. \A p : one(p).from = p[1] /\ one(p).to = p[2]
    OBVIOUS
  <2>. HIDE DEF one, pairs, keep
  <2>. QED
    BY <2>1, <2>2
<1>6. IsFiniteSet(inherited \cup rolled)
  <2>. HIDE DEF inherited, rolled
  <2>. QED
    BY <1>3, <1>4, FS_Union
<1>. HIDE DEF inherited, rolled, keep
<1>. QED
  BY <1>1, <1>2, <1>3, <1>5, <1>6 DEF Selection, Drawable

(* What has been opened fits, and what is shut is still to be tried or would *)
(* not fit.                                                                  *)
MapFits ==
  /\ open \in SUBSET Dirs /\ open \subseteq Tree(Selected) /\ UpClosed(open)
  /\ Fits(Selected, open)
AllTried ==
  asked.auto => \A d \in Present(Selected, open) \ open : d \in queue \/ ~Fits(Selected, open \cup {d})

IInv ==
  /\ graph \in Graphs
  /\ pc \in {"idle", "opening", "answered", "refused", "failed"}
  /\ pc # "idle" => IsRequest(asked)
  /\ pc \in {"opening", "answered"} /\ Clustered(asked) => MapFits /\ AllTried
  /\ pc = "opening" => Clustered(asked) /\ asked.auto /\ queue \subseteq Present(Selected, open)
  /\ pc = "answered" => queue = {}
  /\ before # None => pc \notin {"idle", "opening"} /\ ClosingIsAWayOut

(* Opening a directory whose parents are open leaves them all open.          *)
LEMMA OneMore ==
  ASSUME NEW sel, Drawable(sel), NEW opened \in SUBSET Dirs, UpClosed(opened),
         NEW d \in Present(sel, opened)
  PROVE  opened \cup {d} \in SUBSET Dirs /\ UpClosed(opened \cup {d}) /\ d \in Tree(sel) /\ d \in Dirs
<1>1. d \in Tree(sel) /\ d \in Dirs /\ Above[d] \ {d} \subseteq opened
  BY TreeIsUpClosed DEF Present
<1>2. Parent[d] \in opened \cup {d, None}
  BY <1>1, AboveType DEF UpClosed
<1>. QED
  BY <1>1, <1>2 DEF UpClosed

(* aggregate.ts:267-281 — the path to every directory asked for.              *)
LEMMA ClosureIsUpClosed ==
  ASSUME NEW sel, Drawable(sel), NEW expand \in SUBSET Tree(sel)
  PROVE  /\ expand \subseteq Closure(expand) /\ Closure(expand) \subseteq Tree(sel)
         /\ Closure(expand) \in SUBSET Dirs /\ UpClosed(Closure(expand))
         /\ UpClosed(expand) => Closure(expand) = expand
<1>1. Tree(sel) \in SUBSET Dirs /\ UpClosed(Tree(sel))
  BY TreeIsUpClosed
<1>2. \A d \in expand : d \in Dirs /\ d \in Above[d] /\ Above[d] \subseteq Tree(sel) /\ UpClosed(Above[d])
  BY <1>1, AboveType, AboveLeast
<1>3. UpClosed(expand) => \A d \in expand : Above[d] \subseteq expand
  BY <1>1, AboveLeast
<1>. QED
  BY <1>1, <1>2, <1>3 DEF Closure, UpClosed

(* A layout is a function of the graph, the selection and what is open.       *)
LEMMA MapsStay ==
  ASSUME graph' = graph, NEW s, NEW o
  PROVE  /\ Tree(s)' = Tree(s) /\ Present(s, o)' = Present(s, o)
         /\ Elements(Layout(s, o))' = Elements(Layout(s, o))
<1>1. \A n : Representative(s, o, n)' = Representative(s, o, n)
  BY DEF Representative
<1>2. Tree(s)' = Tree(s) /\ Present(s, o)' = Present(s, o) /\ DrawnNodes(s, o)' = DrawnNodes(s, o)
  BY DEF Tree, Present, DrawnNodes
<1>3. Layout(s, o)' = Layout(s, o)
  <2>. DEFINE bundles(rep) ==
         LET plain  == {e \in s.edges : rep[e.from] = e.from /\ rep[e.to] = e.to}
             lifted == s.edges \ plain
             inside == {e \in lifted : rep[e.from] = rep[e.to]}
             key(e) == <<e.kind, rep[e.from], rep[e.to]>>
             across == lifted \ inside
             fold(k) == {e \in across : key(e) = k}
         IN  {[key |-> k, count |-> Sites(fold(k)), pairs |-> Cardinality(fold(k)), res |-> Worst(fold(k))]
              : k \in {key(e) : e \in across}}
       inner(rep, d) ==
         LET plain  == {e \in s.edges : rep[e.from] = e.from /\ rep[e.to] = e.to}
             lifted == s.edges \ plain
             inside == {e \in lifted : rep[e.from] = rep[e.to]}
         IN  Sites({e \in inside : rep[e.from] = d})
       plainly(rep) == {e \in s.edges : rep[e.from] = e.from /\ rep[e.to] = e.to}
  <2>1. Layout(s, o) = [dirs |-> Present(s, o), nodes |-> DrawnNodes(s, o),
                        edges |-> plainly(Rep(s, o)), aggregates |-> bundles(Rep(s, o)),
                        internal |-> [d \in Present(s, o) |-> inner(Rep(s, o), d)],
                        collapsed |-> Present(s, o) \ o]
    BY DEF Layout, Rep
  <2>2. Rep(s, o)' = Rep(s, o)
    BY <1>1 DEF Rep
  <2>3. Layout(s, o)' = [dirs |-> Present(s, o)', nodes |-> DrawnNodes(s, o)',
                         edges |-> plainly(Rep(s, o)'), aggregates |-> bundles(Rep(s, o)'),
                         internal |-> [d \in Present(s, o)' |-> inner(Rep(s, o)', d)],
                         collapsed |-> Present(s, o)' \ o]
    BY DEF Layout, Rep
  <2>. HIDE DEF bundles, inner, plainly
  <2>. QED
    BY <1>2, <2>1, <2>2, <2>3
<1>. QED
  BY <1>2, <1>3 DEF Elements

(* aggregate.ts:486-563 — the map as it is when the directories asked for are *)
(* open, or the refusal.                                                     *)
LEMMA FirstLayout ==
  ASSUME graph \in Graphs, NEW req, IsRequest(req), Clustered(req), Answer(req),
         graph' = graph, lead' = lead
  PROVE  LET sel == SelectView(graph, req, lead)
             opened == Closure(req.expand)
         IN  /\ pc' \in {"opening", "answered"} => MapFits' /\ AllTried'
             /\ pc' = "opening" => req.auto /\ queue' \subseteq Present(sel, open')
             /\ pc' = "answered" => queue' = {}
             /\ pc' \in {"opening", "answered", "refused", "failed"}
             /\ ~req.auto /\ req.expand \subseteq Tree(sel) /\ Elements(Layout(sel, opened)) <= req.cap
                  => pc' = "answered" /\ open' = opened
<1>. DEFINE sel == SelectView(graph, req, lead)
            opened == Closure(req.expand)
<1>1. Drawable(sel) /\ ~sel.error
  BY MapIsDrawable
<1>2. asked' = req /\ Selected' = sel
  BY DEF Answer, Selected
<1>3. Layout(sel, opened).collapsed = Present(sel, opened) \ opened
  BY <1>1, LayoutParts
<1>4. Elements(Layout(sel, opened)) \in Nat \/ ~(req.expand \subseteq Tree(sel))
  BY <1>1, ClosureIsUpClosed, FewerElements
<1>5. CASE ~(req.expand \subseteq Tree(sel))
  BY <1>5 DEF Answer
<1>6. CASE req.expand \subseteq Tree(sel)
  <2>1. opened \subseteq Tree(sel) /\ opened \in SUBSET Dirs /\ UpClosed(opened)
    BY <1>1, <1>6, ClosureIsUpClosed
  <2>2. CASE Elements(Layout(sel, opened)) > req.cap
    <3>1. pc' = "refused"
      BY <1>1, <1>6, <2>2 DEF Answer
    <3>. QED
      BY <1>4, <1>6, <2>2, <3>1 DEF IsRequest
  <2>3. CASE ~(Elements(Layout(sel, opened)) > req.cap)
    <3>. HIDE DEF opened, sel
    <3>1. Elements(Layout(sel, opened)) <= req.cap
      BY <1>4, <1>6, <2>3 DEF IsRequest
    <3>2. /\ open' = opened
          /\ queue' = IF req.auto THEN Layout(sel, opened).collapsed ELSE {}
          /\ pc' = IF queue' = {} THEN "answered" ELSE "opening"
      BY <1>1, <1>6, <2>3 DEF Answer, sel, opened
    <3>3. queue' = IF req.auto THEN Present(sel, opened) \ opened ELSE {}
      BY <1>3, <3>2
    <3>4. MapFits'
      <4>1. Fits(Selected, open)'
        <5>1. PICK s, o : s = sel /\ o = opened
          OBVIOUS
        <5>2. Selected' = s /\ open' = o
          BY <1>2, <3>2, <5>1
        <5>. QED
          BY <1>2, <3>1, <5>1, <5>2, MapsStay DEF Fits
      <4>. QED
        BY <1>2, <2>1, <3>2, <4>1 DEF MapFits, Tree, UpClosed
    <3>5. AllTried'
      BY <1>2, <3>2, <3>3 DEF AllTried, Present, Tree
    <3>. QED
      BY <3>2, <3>3, <3>4, <3>5 DEF sel, opened
  <2>. QED
    BY <2>2, <2>3
<1>. QED
  BY <1>5, <1>6

(* aggregate.ts:561-600 — a directory that does not fit now never will: what  *)
(* is opened later only adds to it.                                          *)
LEMMA NextLayout ==
  ASSUME IInv, TryOpen
  PROVE  MapFits' /\ AllTried' /\ (pc' = "opening" => queue' \subseteq Present(Selected, open)')
         /\ (pc' = "answered" => queue' = {})
<1>1. /\ graph \in Graphs /\ Clustered(asked) /\ asked.auto /\ MapFits /\ AllTried
      /\ queue \subseteq Present(Selected, open) /\ asked.cap \in Nat
  BY DEF IInv, TryOpen, IsRequest
<1>2. PICK sel : sel = Selected
  OBVIOUS
<1>3. Drawable(sel)
  BY <1>1, <1>2, MapIsDrawable DEF Selected
<1>4. open \in SUBSET Dirs /\ UpClosed(open) /\ open \subseteq Tree(sel) /\ Fits(sel, open)
  BY <1>1, <1>2 DEF MapFits
<1>5. PICK path \in queue :
        /\ open' = IF Fits(sel, open \cup {path}) THEN open \cup {path} ELSE open
        /\ queue' = (queue \ {path})
                      \cup (IF Fits(sel, open \cup {path}) THEN Children(sel, path) ELSE {})
  BY <1>2 DEF TryOpen, Then
<1>6. path \in Present(sel, open)
  BY <1>1, <1>2
<1>7. /\ open \cup {path} \in SUBSET Dirs /\ UpClosed(open \cup {path})
      /\ path \in Tree(sel) /\ path \in Dirs
  BY <1>3, <1>4, <1>6, OneMore
<1>8. UNCHANGED <<graph, asked, lead>> /\ pc' = IF queue' = {} THEN "answered" ELSE "opening"
  BY DEF TryOpen
<1>9. /\ Selected' = sel /\ Tree(Selected)' = Tree(sel)
      /\ \A o : Present(Selected, o)' = Present(sel, o)
      /\ \A o : Fits(Selected, o)' <=> Fits(sel, o)
  <2>1. Selected' = sel
    BY <1>2, <1>8 DEF Selected
  <2>2. graph' = graph /\ asked' = asked
    BY <1>8
  <2>. QED
    BY <2>1, <2>2, MapsStay DEF Fits
<1>10. MapFits'
  <2>1. CASE Fits(sel, open \cup {path})
    BY <1>4, <1>5, <1>7, <1>9, <2>1 DEF MapFits, UpClosed
  <2>2. CASE ~Fits(sel, open \cup {path})
    BY <1>4, <1>5, <1>9, <2>2 DEF MapFits, UpClosed
  <2>. QED
    BY <2>1, <2>2
<1>11. queue' \subseteq Present(sel, open')
  <2>1. Present(sel, open) \subseteq Present(sel, open')
    BY <1>5 DEF Present
  <2>2. ASSUME Fits(sel, open \cup {path}), NEW c \in Children(sel, path)
        PROVE  c \in Present(sel, open \cup {path})
    <3>1. c \in Tree(sel) /\ c \in Dirs /\ Parent[c] = path
      BY <1>3, TreeIsUpClosed DEF Children
    <3>2. Above[c] \ {c} = Above[path]
      BY <1>7, <3>1, AboveParent
    <3>3. Above[path] \subseteq open \cup {path}
      BY <1>6 DEF Present
    <3>. QED
      BY <3>1, <3>2, <3>3 DEF Present
  <2>. QED
    BY <1>1, <1>2, <1>5, <2>1, <2>2
<1>12. ASSUME asked.auto, NEW d \in Present(sel, open') \ open', d \notin queue'
       PROVE  ~Fits(sel, open' \cup {d})
  <2>1. CASE d \in Present(sel, open) /\ d # path
    <3>1. ~Fits(sel, open \cup {d})
      BY <1>1, <1>2, <1>5, <1>12, <2>1 DEF AllTried
    <3>2. open \cup {d} \in SUBSET Dirs /\ UpClosed(open \cup {d})
      BY <1>3, <1>4, <2>1, OneMore
    <3>3. open' \in SUBSET Dirs /\ UpClosed(open')
      BY <1>4, <1>5, <1>7
    <3>4. open' \cup {d} \in SUBSET Dirs /\ UpClosed(open' \cup {d})
      BY <1>3, <1>12, <3>3, OneMore
    <3>5. open \cup {d} \subseteq open' \cup {d}
      BY <1>5
    <3>. QED
      BY <1>1, <1>3, <3>1, <3>2, <3>4, <3>5, FewerElements DEF Fits
  <2>2. CASE d = path
    BY <1>5, <1>12, <2>2
  <2>3. CASE d \notin Present(sel, open)
    <3>1. Fits(sel, open \cup {path}) /\ open' = open \cup {path} /\ queue' = (queue \ {path}) \cup Children(sel, path)
      BY <1>5, <1>12, <2>3
    <3>2. d \in Tree(sel) /\ d \in Dirs /\ Above[d] \ {d} \subseteq open \cup {path} /\ d \notin open
      BY <1>3, <1>12, <3>1, TreeIsUpClosed DEF Present
    <3>3. path \in Above[d] \ {d}
      BY <2>3, <3>2 DEF Present
    <3>4. Parent[d] # None
      BY <3>2, <3>3, AboveSteps
    <3>5. path \in Above[Parent[d]] /\ Parent[d] \in open \cup {path} /\ Parent[d] \in Dirs
      BY <3>2, <3>3, <3>4, AboveParent, AboveType
    <3>6. CASE Parent[d] = path
      BY <1>12, <3>1, <3>2, <3>6 DEF Children
    <3>7. CASE Parent[d] \in open
      <4>1. path \in open
        BY <1>4, <3>5, <3>7, AboveLeast
      <4>. QED
        BY <2>3, <3>2, <4>1 DEF Present
    <3>. QED
      BY <3>5, <3>6, <3>7
  <2>. QED
    BY <2>1, <2>2, <2>3
<1>13. AllTried'
  BY <1>8, <1>9, <1>12 DEF AllTried
<1>. QED
  BY <1>8, <1>9, <1>10, <1>11, <1>13

(* aggregate.ts:157-180 — asking again with some of what was open.            *)
LEMMA AskedAgain ==
  ASSUME IInv, pc = "answered", NEW expand, Again(expand),
         expand \subseteq open => UpClosed(expand)
  PROVE  IInv'
<1>. DEFINE same == [asked EXCEPT !.expand = expand]
            req == [same EXCEPT !.auto = FALSE]
<1>1. graph \in Graphs /\ IsRequest(asked) /\ Clustered(asked) /\ MapFits
  BY DEF IInv, Again
<1>2. PICK sel : sel = Selected
  OBVIOUS
<1>3. /\ req.view = asked.view /\ req.focus = asked.focus /\ req.hops = asked.hops
      /\ req.tests = asked.tests /\ req.cap = asked.cap /\ req.expand = expand /\ req.auto = FALSE
      /\ IsRequest(req)
  <2>1. PICK v, f, h, t, x, c, u :
          asked = [view |-> v, focus |-> f, hops |-> h, tests |-> t, expand |-> x, cap |-> c, auto |-> u]
    BY <1>1 DEF IsRequest
  <2>2. c \in Nat
    BY <1>1, <2>1 DEF IsRequest
  <2>3. same = [view |-> v, focus |-> f, hops |-> h, tests |-> t, expand |-> expand, cap |-> c, auto |-> u]
    BY <2>1
  <2>. HIDE DEF same
  <2>4. req = [view |-> v, focus |-> f, hops |-> h, tests |-> t, expand |-> expand, cap |-> c, auto |-> FALSE]
    <3>1. ASSUME NEW w PROVE [same EXCEPT !.auto = w] = [view |-> v, focus |-> f, hops |-> h, tests |-> t,
                                                         expand |-> expand, cap |-> c, auto |-> w]
      BY <2>3
    <3>. QED
      BY <3>1, Zenon
  <2>. HIDE DEF req
  <2>. QED
    BY <2>1, <2>2, <2>4 DEF IsRequest
<1>4. Clustered(req) /\ SelectView(graph, req, lead) = sel
  <2>. HIDE DEF req
  <2>. QED
    BY <1>1, <1>2, <1>3 DEF Clustered, Selected, SelectView
<1>5. Answer(req) /\ graph' = graph /\ lead' = lead /\ before' = open
  BY DEF Again
<1>6. asked' = req
  BY <1>5 DEF Answer
<1>. HIDE DEF req
<1>7. /\ pc' \in {"opening", "answered"} => MapFits' /\ AllTried'
      /\ pc' \in {"answered", "refused", "failed"} /\ (pc' = "answered" => queue' = {})
      /\ expand \subseteq Tree(sel) /\ Elements(Layout(sel, Closure(expand))) <= req.cap
           => pc' = "answered" /\ open' = Closure(expand)
  BY <1>1, <1>3, <1>4, <1>5, FirstLayout
<1>8. ASSUME expand \subseteq open PROVE pc' = "answered" /\ open' = expand
  <2>1. Drawable(sel)
    BY <1>1, <1>2, MapIsDrawable DEF Selected
  <2>2. open \in SUBSET Dirs /\ UpClosed(open) /\ open \subseteq Tree(sel)
        /\ Elements(Layout(sel, open)) <= req.cap
    BY <1>1, <1>2, <1>3 DEF MapFits, Fits
  <2>3. expand \in SUBSET Tree(sel) /\ expand \in SUBSET Dirs /\ UpClosed(expand)
    BY <1>8, <2>2
  <2>4. Closure(expand) = expand
    BY <2>1, <2>3, ClosureIsUpClosed
  <2>5. /\ Elements(Layout(sel, expand)) <= Elements(Layout(sel, open))
        /\ Elements(Layout(sel, expand)) \in Nat /\ Elements(Layout(sel, open)) \in Nat
    BY <1>8, <2>1, <2>2, <2>3, FewerElements
  <2>6. req.cap \in Nat
    BY <1>3 DEF IsRequest
  <2>. QED
    BY <1>7, <2>2, <2>3, <2>4, <2>5, <2>6
<1>9. ClosingIsAWayOut'
  BY <1>3, <1>5, <1>6, <1>8 DEF ClosingIsAWayOut
<1>. QED
  BY <1>1, <1>3, <1>4, <1>5, <1>6, <1>7, <1>9 DEF IInv

LEMMA StepKeeps == IInv /\ [Next]_vars => IInv'
<1>. SUFFICES ASSUME IInv, [Next]_vars PROVE IInv'
  OBVIOUS
<1>1. CASE Ask
  <2>1. pc = "idle" /\ before = None /\ graph \in Graphs
    BY <1>1 DEF Ask, IInv
  <2>2. PICK req \in Requests : Answer(req)
    BY <1>1 DEF Ask
  <2>3. UNCHANGED <<graph, lead, before>> /\ asked' = req
    BY <1>1, <2>2 DEF Ask, Answer
  <2>4. IsRequest(req)
    BY RequestAssumption DEF IsRequest
  <2>5. CASE Clustered(req)
    <3>1. /\ pc' \in {"opening", "answered"} => MapFits' /\ AllTried'
          /\ pc' = "opening" => req.auto /\ queue' \subseteq Present(SelectView(graph, req, lead), open')
          /\ pc' = "answered" => queue' = {}
          /\ pc' \in {"opening", "answered", "refused", "failed"}
      BY <2>1, <2>2, <2>3, <2>4, <2>5, FirstLayout
    <3>2. PICK sel : sel = SelectView(graph, req, lead)
      OBVIOUS
    <3>3. Selected' = sel
      BY <2>3, <3>2 DEF Selected
    <3>4. \A o : Present(sel, o)' = Present(sel, o)
      BY <2>3, MapsStay
    <3>. QED
      BY <2>1, <2>3, <2>4, <2>5, <3>1, <3>2, <3>3, <3>4 DEF IInv
  <2>6. CASE ~Clustered(req)
    <3>1. pc' \in {"answered", "refused", "failed"} /\ queue' = {}
      BY <2>2, <2>6 DEF Answer
    <3>2. ~Clustered(asked)'
      BY <2>3, <2>6 DEF Clustered
    <3>. QED
      BY <2>1, <2>3, <2>4, <3>1, <3>2 DEF IInv
  <2>. QED
    BY <2>5, <2>6
<1>2. CASE TryOpen
  <2>1. UNCHANGED <<graph, asked, lead, before>> /\ pc = "opening" /\ pc' \in {"answered", "opening"}
    BY <1>2 DEF TryOpen
  <2>2. MapFits' /\ AllTried' /\ (pc' = "opening" => queue' \subseteq Present(Selected, open)')
         /\ (pc' = "answered" => queue' = {})
    BY <1>2, NextLayout
  <2>3. graph \in Graphs /\ IsRequest(asked) /\ Clustered(asked) /\ asked.auto /\ before = None
    BY <2>1 DEF IInv
  <2>. QED
    BY <2>1, <2>2, <2>3 DEF IInv, Clustered, IsRequest
<1>3. CASE FeedBack
  BY <1>3, AskedAgain DEF FeedBack, IInv, MapFits, Again
<1>4. CASE CloseOne
  <2>1. PICK d \in open : Again({x \in open : d \notin Above[x]})
    BY <1>4 DEF CloseOne
  <2>2. pc = "answered" /\ open \in SUBSET Dirs /\ UpClosed(open)
    BY <1>4, <2>1 DEF CloseOne, IInv, MapFits, Again
  <2>3. UpClosed({x \in open : d \notin Above[x]})
    <3>1. ASSUME NEW x \in open, d \notin Above[x], Parent[x] # None
          PROVE  Parent[x] \in open /\ d \notin Above[Parent[x]]
      BY <2>2, <3>1, AboveSteps DEF UpClosed
    <3>. QED
      BY <3>1 DEF UpClosed
  <2>. QED
    BY <2>1, <2>2, <2>3, AskedAgain
<1>5. CASE OpenOne
  <2>1. PICK d \in Drawing.collapsed : Again(open \cup {d})
    BY <1>5 DEF OpenOne
  <2>2. pc = "answered" /\ Clustered(asked) /\ graph \in Graphs
    BY <1>5, <2>1 DEF OpenOne, Again, IInv
  <2>3. d \notin open
    BY <2>1, <2>2, MapIsDrawable, LayoutParts DEF Drawing, Selected
  <2>. QED
    BY <2>1, <2>2, <2>3, AskedAgain
<1>6. CASE UNCHANGED vars
  <2>1. UNCHANGED <<graph, asked, lead, open, queue, pc, before>>
    BY <1>6 DEF vars
  <2>2. PICK sel : sel = Selected
    OBVIOUS
  <2>3. /\ Selected' = sel /\ Tree(sel)' = Tree(sel)
        /\ \A o : Present(sel, o)' = Present(sel, o) /\ (Fits(sel, o)' <=> Fits(sel, o))
    BY <2>1, <2>2, MapsStay DEF Selected, Fits
  <2>4. (MapFits /\ AllTried) <=> (MapFits /\ AllTried)'
    BY <2>1, <2>2, <2>3 DEF MapFits, AllTried, UpClosed
  <2>5. (queue \subseteq Present(Selected, open)) => (queue \subseteq Present(Selected, open))'
    BY <2>1, <2>2, <2>3
  <2>. QED
    BY <2>1, <2>4, <2>5 DEF IInv, IsRequest, Clustered, ClosingIsAWayOut
<1>. QED
  BY <1>1, <1>2, <1>3, <1>4, <1>5, <1>6 DEF Next

-----------------------------------------------------------------------------
(* Traversal: what is seen first at a depth is what is that many hops away.  *)

(* What is at the end of d hops, of at most d, and of d but no fewer.        *)
Hops(g, o, dir, d) ==
  {n \in Nodes(g) : \E p \in [0 .. d -> Nodes(g)] :
      p[0] = o /\ p[d] = n /\ \A k \in 0 .. (d - 1) : p[k + 1] \in Neighbours(g, p[k], dir)}
Within(g, o, dir, d) == UNION {Hops(g, o, dir, k) : k \in 0 .. d}
Exactly(g, o, dir, d) == {n \in Hops(g, o, dir, d) : \A k \in 0 .. (d - 1) : n \notin Hops(g, o, dir, k)}

(* traverse.ts:99-116 — a hop seen from its other end is the same hop.       *)
LEMMA BothWaysRound ==
  ASSUME NEW g \in Graphs
  PROVE  /\ \A n, dir : Neighbours(g, n, dir) \subseteq Nodes(g)
         /\ \A m, n : n \in Neighbours(g, m, "callees") <=> m \in Neighbours(g, n, "callers")
<1>1. ASSUME NEW s \in CallSteps(g) PROVE \E x, y \in Nodes(g) : s = <<x, y>>
  <2>1. PICK e \in Calls(g.edge) : s \in {<<e.from, t>> : t \in {e.to} \cup (e.possible \cap Nodes(g))}
    BY <1>1 DEF CallSteps
  <2>2. PICK t \in {e.to} \cup (e.possible \cap Nodes(g)) : s = <<e.from, t>>
    BY <2>1
  <2>3. e \in g.edge
    BY <2>1 DEF Calls
  <2>4. e.from \in Nodes(g) /\ e.to \in Nodes(g)
    BY <2>3, GraphAssumption
  <2>. QED
    BY <2>2, <2>4
<1>2. \A m, n : n \in Neighbours(g, m, "callees") <=> \E s \in CallSteps(g) : s[1] = m /\ s[2] = n
  BY DEF Neighbours
<1>3. \A m, n, dir : dir # "callees" => (n \in Neighbours(g, m, dir) <=> \E s \in CallSteps(g) : s[2] = m /\ s[1] = n)
  BY DEF Neighbours
<1>. QED
  BY <1>1, <1>2, <1>3

LEMMA NoHop ==
  ASSUME NEW g \in Graphs, NEW o \in Nodes(g), NEW dir
  PROVE  Hops(g, o, dir, 0) = {o}
<1>1. o \in Hops(g, o, dir, 0)
  <2>. DEFINE p == [k \in 0 .. 0 |-> o]
  <2>1. p \in [0 .. 0 -> Nodes(g)] /\ p[0] = o /\ \A k \in 0 .. (0 - 1) : FALSE
    OBVIOUS
  <2>. HIDE DEF p
  <2>. QED
    BY <2>1 DEF Hops
<1>. QED
  BY <1>1 DEF Hops

LEMMA OneHop ==
  ASSUME NEW g \in Graphs, NEW o, NEW dir, NEW d \in Nat
  PROVE  Hops(g, o, dir, d + 1) = UNION {Neighbours(g, m, dir) : m \in Hops(g, o, dir, d)}
<1>1. ASSUME NEW n \in Hops(g, o, dir, d + 1) PROVE \E m \in Hops(g, o, dir, d) : n \in Neighbours(g, m, dir)
  <2>1. PICK p \in [0 .. (d + 1) -> Nodes(g)] :
          p[0] = o /\ p[d + 1] = n /\ \A k \in 0 .. d : p[k + 1] \in Neighbours(g, p[k], dir)
    BY <1>1 DEF Hops
  <2>. DEFINE q == [k \in 0 .. d |-> p[k]]
  <2>2. q \in [0 .. d -> Nodes(g)] /\ q[0] = o /\ q[d] = p[d]
        /\ \A k \in 0 .. (d - 1) : q[k + 1] \in Neighbours(g, q[k], dir)
    BY <2>1
  <2>3. p[d] \in Nodes(g) /\ n \in Neighbours(g, p[d], dir)
    BY <2>1
  <2>. HIDE DEF q
  <2>4. p[d] \in Hops(g, o, dir, d)
    BY <2>2, <2>3 DEF Hops
  <2>. QED
    BY <2>3, <2>4
<1>2. ASSUME NEW m \in Hops(g, o, dir, d), NEW n \in Neighbours(g, m, dir) PROVE n \in Hops(g, o, dir, d + 1)
  <2>1. PICK p \in [0 .. d -> Nodes(g)] :
          p[0] = o /\ p[d] = m /\ \A k \in 0 .. (d - 1) : p[k + 1] \in Neighbours(g, p[k], dir)
    BY <1>2 DEF Hops
  <2>2. n \in Nodes(g)
    BY <1>2, BothWaysRound
  <2>. DEFINE q == [k \in 0 .. (d + 1) |-> IF k = d + 1 THEN n ELSE p[k]]
  <2>3. q \in [0 .. (d + 1) -> Nodes(g)] /\ q[0] = o /\ q[d + 1] = n
    BY <2>1, <2>2
  <2>4. ASSUME NEW k \in 0 .. d PROVE q[k + 1] \in Neighbours(g, q[k], dir)
    <3>1. CASE k = d
      BY <1>2, <2>1, <3>1
    <3>2. CASE k # d
      BY <2>1, <3>2
    <3>. QED
      BY <3>1, <3>2
  <2>. HIDE DEF q
  <2>5. \A k \in 0 .. ((d + 1) - 1) : q[k + 1] \in Neighbours(g, q[k], dir)
    BY <2>4
  <2>. QED
    BY <2>2, <2>3, <2>5 DEF Hops
<1>. QED
  BY <1>1, <1>2

(* A walk turned round is a walk the other way.                              *)
LEMMA WalkedBack ==
  ASSUME NEW g \in Graphs, NEW a \in Nodes(g), NEW n \in Nodes(g), NEW d \in Nat, NEW dir, NEW back,
         <<dir, back>> \in {<<"callees", "callers">>, <<"callers", "callees">>},
         n \in Hops(g, a, dir, d)
  PROVE  a \in Hops(g, n, back, d)
<1>1. PICK p \in [0 .. d -> Nodes(g)] :
        p[0] = a /\ p[d] = n /\ \A k \in 0 .. (d - 1) : p[k + 1] \in Neighbours(g, p[k], dir)
  BY DEF Hops
<1>. DEFINE q == [k \in 0 .. d |-> p[d - k]]
<1>2. q \in [0 .. d -> Nodes(g)] /\ q[0] = n /\ q[d] = a
  BY <1>1
<1>3. ASSUME NEW k \in 0 .. (d - 1) PROVE q[k + 1] \in Neighbours(g, q[k], back)
  <2>1. d - (k + 1) \in 0 .. (d - 1) /\ (d - (k + 1)) + 1 = d - k
    OBVIOUS
  <2>2. p[d - k] \in Neighbours(g, p[d - (k + 1)], dir)
    BY <1>1, <2>1
  <2>3. p[d - (k + 1)] \in Neighbours(g, p[d - k], back)
    BY <2>2, BothWaysRound
  <2>4. q[k + 1] = p[d - (k + 1)] /\ q[k] = p[d - k]
    OBVIOUS
  <2>. QED
    BY <2>3, <2>4
<1>. HIDE DEF q
<1>. QED
  BY <1>2, <1>3 DEF Hops

LEMMA SphereStarts ==
  ASSUME NEW g \in Graphs, NEW o \in Nodes(g), NEW dir
  PROVE  Exactly(g, o, dir, 0) = {o} /\ Within(g, o, dir, 0) = {o}
<1>1. 0 .. 0 = {0} /\ 0 .. (0 - 1) = {}
  OBVIOUS
<1>. QED
  BY <1>1, NoHop DEF Exactly, Within

LEMMA SphereSteps ==
  ASSUME NEW g \in Graphs, NEW o \in Nodes(g), NEW dir, NEW d \in Nat
  PROVE  /\ Exactly(g, o, dir, d + 1)
              = (UNION {Neighbours(g, n, dir) : n \in Exactly(g, o, dir, d)}) \ Within(g, o, dir, d)
         /\ Within(g, o, dir, d + 1) = Within(g, o, dir, d) \cup Exactly(g, o, dir, d + 1)
<1>1. /\ \A n : n \in Within(g, o, dir, d) <=> \E k \in 0 .. d : n \in Hops(g, o, dir, k)
      /\ \A n : n \in Within(g, o, dir, d + 1) <=> \E k \in 0 .. (d + 1) : n \in Hops(g, o, dir, k)
      /\ \A n : n \in Exactly(g, o, dir, d + 1) <=> n \in Hops(g, o, dir, d + 1) /\ n \notin Within(g, o, dir, d)
  <2>1. \A n : n \in Within(g, o, dir, d) <=> \E k \in 0 .. d : n \in Hops(g, o, dir, k)
    BY DEF Within
  <2>2. \A n : n \in Within(g, o, dir, d + 1) <=> \E k \in 0 .. (d + 1) : n \in Hops(g, o, dir, k)
    BY DEF Within
  <2>3. 0 .. ((d + 1) - 1) = 0 .. d
    OBVIOUS
  <2>4. \A n : n \in Exactly(g, o, dir, d + 1) <=> n \in Hops(g, o, dir, d + 1) /\ \A k \in 0 .. d : n \notin Hops(g, o, dir, k)
    BY <2>3 DEF Exactly
  <2>. QED
    BY <2>1, <2>2, <2>4
<1>2. ASSUME NEW n \in Exactly(g, o, dir, d + 1)
      PROVE  \E m \in Exactly(g, o, dir, d) : n \in Neighbours(g, m, dir)
  <2>1. n \in Hops(g, o, dir, d + 1) /\ \A k \in 0 .. d : n \notin Hops(g, o, dir, k)
    BY <1>1, <1>2
  <2>2. PICK m \in Hops(g, o, dir, d) : n \in Neighbours(g, m, dir)
    BY <2>1, OneHop
  <2>3. ASSUME NEW k \in 0 .. (d - 1) PROVE m \notin Hops(g, o, dir, k)
    <3>1. n \notin Hops(g, o, dir, k + 1) /\ k \in Nat
      BY <2>1
    <3>. QED
      BY <2>2, <3>1, OneHop
  <2>. QED
    BY <2>2, <2>3 DEF Exactly
<1>3. ASSUME NEW m \in Exactly(g, o, dir, d), NEW n \in Neighbours(g, m, dir), n \notin Within(g, o, dir, d)
      PROVE  n \in Exactly(g, o, dir, d + 1)
  <2>1. m \in Hops(g, o, dir, d)
    BY <1>3 DEF Exactly
  <2>. QED
    BY <1>1, <1>3, <2>1, OneHop
<1>4. Exactly(g, o, dir, d + 1)
        = (UNION {Neighbours(g, n, dir) : n \in Exactly(g, o, dir, d)}) \ Within(g, o, dir, d)
  BY <1>1, <1>2, <1>3
<1>5. \A k : k \in 0 .. (d + 1) <=> k \in 0 .. d \/ k = d + 1
  OBVIOUS
<1>6. Within(g, o, dir, d + 1) = Within(g, o, dir, d) \cup Exactly(g, o, dir, d + 1)
  BY <1>1, <1>5
<1>. QED
  BY <1>4, <1>6

(* traverse.ts:123-154 — the walk finds at each depth what is that far away. *)
LEMMA FrontierIsExact ==
  ASSUME NEW g \in Graphs, NEW o \in Nodes(g), NEW dir, NEW depth \in Nat
  PROVE  Frontier(g, o, dir, depth) = Exactly(g, o, dir, depth)
<1>. DEFINE next(last) == (UNION {Neighbours(g, n, dir) : n \in last.at}) \ last.seen
            more(last) == [at |-> next(last), seen |-> last.seen \cup next(last)]
            step(f) == [d \in 0 .. depth |-> IF d = 0 THEN [at |-> {o}, seen |-> {o}] ELSE more(f[d - 1])]
            sphere(d) == [at |-> Exactly(g, o, dir, d), seen |-> Within(g, o, dir, d)]
            F == [d \in 0 .. depth |-> sphere(d)]
            W == CHOOSE f : f = step(f)
<1>1. ASSUME NEW d \in Nat PROVE sphere(d + 1) = more(sphere(d))
  <2>. DEFINE beyond == UNION {Neighbours(g, n, dir) : n \in Exactly(g, o, dir, d)}
  <2>0. /\ Exactly(g, o, dir, d + 1) = beyond \ Within(g, o, dir, d)
        /\ Within(g, o, dir, d + 1) = Within(g, o, dir, d) \cup Exactly(g, o, dir, d + 1)
    BY SphereSteps
  <2>1. sphere(d).at = Exactly(g, o, dir, d) /\ sphere(d).seen = Within(g, o, dir, d)
    OBVIOUS
  <2>2. sphere(d + 1) = [at |-> Exactly(g, o, dir, d + 1), seen |-> Within(g, o, dir, d + 1)]
    OBVIOUS
  <2>. HIDE DEF sphere
  <2>3. next(sphere(d)) = Exactly(g, o, dir, d + 1)
    BY <2>0, <2>1
  <2>4. more(sphere(d)) = [at |-> next(sphere(d)), seen |-> sphere(d).seen \cup next(sphere(d))]
    OBVIOUS
  <2>. HIDE DEF more, next
  <2>5. sphere(d).seen \cup next(sphere(d)) = Within(g, o, dir, d + 1)
    BY <2>0, <2>1, <2>3
  <2>. QED
    BY <2>2, <2>3, <2>4, <2>5
<1>2. sphere(0) = [at |-> {o}, seen |-> {o}]
  BY SphereStarts
<1>3. F = step(F)
  <2>. HIDE DEF sphere, more
  <2>1. ASSUME NEW d \in 0 .. depth, d # 0 PROVE sphere(d) = more(F[d - 1])
    <3>1. d - 1 \in Nat /\ d - 1 \in 0 .. depth /\ (d - 1) + 1 = d
      BY <2>1
    <3>2. F[d - 1] = sphere(d - 1)
      BY <3>1
    <3>3. sphere((d - 1) + 1) = more(sphere(d - 1))
      BY <1>1, <3>1
    <3>. QED
      BY <3>1, <3>2, <3>3
  <2>. QED
    BY <1>2, <2>1
<1>4. W = step(W)
  <2>. HIDE DEF step, F
  <2>. QED
    BY <1>3
<1>5. \A d \in 0 .. depth : W[d] = sphere(d)
  <2>. HIDE DEF W, sphere, more
  <2>. DEFINE wrong == {d \in 0 .. depth : W[d] # sphere(d)}
  <2>1. SUFFICES ASSUME wrong # {} PROVE FALSE
    OBVIOUS
  <2>2. PICK d \in wrong : \A other \in wrong : d <= other
    <3>1. wrong \in SUBSET Nat
      OBVIOUS
    <3>. HIDE DEF wrong
    <3>. QED
      BY <2>1, <3>1, Least
  <2>3. W[d] = IF d = 0 THEN [at |-> {o}, seen |-> {o}] ELSE more(W[d - 1])
    BY <1>4
  <2>4. CASE d = 0
    BY <1>2, <2>3, <2>4
  <2>5. CASE d # 0
    <3>1. d - 1 \in Nat /\ d - 1 \in 0 .. depth /\ (d - 1) + 1 = d /\ ~(d <= d - 1)
      BY <2>5
    <3>2. W[d - 1] = sphere(d - 1)
      BY <2>2, <3>1
    <3>3. sphere((d - 1) + 1) = more(sphere(d - 1))
      BY <1>1, <3>1
    <3>. QED
      BY <2>3, <2>5, <3>1, <3>2, <3>3
  <2>. QED
    BY <2>4, <2>5
<1>6. Frontier(g, o, dir, depth) = W[depth].at
  BY DEF Frontier
<1>7. W[depth] = sphere(depth)
  <2>. HIDE DEF W, sphere
  <2>. QED
    BY <1>5
<1>. HIDE DEF W
<1>. QED
  BY <1>6, <1>7

(* A hit is what is exactly that far away, and nothing is two distances away. *)
LEMMA HitsAreExact ==
  ASSUME NEW g \in Graphs, NEW o \in Nodes(g), NEW dir, NEW limit \in Nat
  PROVE  /\ \A h : h \in Traverse(g, o, dir, limit)
              <=> \E d \in 1 .. limit : \E n \in Exactly(g, o, dir, d) : h = [id |-> n, depth |-> d]
         /\ \A n, c, d : c \in Nat /\ d \in Nat /\ n \in Exactly(g, o, dir, c) /\ n \in Exactly(g, o, dir, d) => c = d
<1>1. \A d \in 1 .. limit : d \in Nat /\ Frontier(g, o, dir, d) = Exactly(g, o, dir, d)
  BY FrontierIsExact
<1>2. \A h : h \in Traverse(g, o, dir, limit)
         <=> \E d \in 1 .. limit : \E n \in Frontier(g, o, dir, d) : h = [id |-> n, depth |-> d]
  BY DEF Traverse
<1>3. ASSUME NEW n, NEW c \in Nat, NEW d \in Nat, n \in Exactly(g, o, dir, c), n \in Exactly(g, o, dir, d), c < d
      PROVE  FALSE
  BY <1>3 DEF Exactly
<1>4. \A c, d \in Nat : c = d \/ c < d \/ d < c
  OBVIOUS
<1>. QED
  BY <1>1, <1>2, <1>3, <1>4

(* traverse.ts:123-173 — whoever is some hops above a function has a shortest *)
(* path of that length to it.                                                *)
LEMMA CallersReachIt ==
  ASSUME NEW g \in Graphs, NEW a \in Nodes(g), NEW h \in Traverse(g, a, "callers", Cardinality(Nodes(g)))
  PROVE  CallPathLength(g, h.id, a) = h.depth
<1>1. Cardinality(Nodes(g)) \in Nat
  BY GraphAssumption, FS_CardinalityType
<1>2. PICK d \in 1 .. Cardinality(Nodes(g)) : \E n \in Exactly(g, a, "callers", d) : h = [id |-> n, depth |-> d]
  BY <1>1, HitsAreExact
<1>3. PICK n \in Exactly(g, a, "callers", d) : h = [id |-> n, depth |-> d]
  BY <1>2
<1>4. n \in Nodes(g) /\ n # a /\ d \in Nat
  <2>1. d \in Nat /\ 0 \in 0 .. (d - 1)
    BY <1>1
  <2>2. n \notin Hops(g, a, "callers", 0) /\ n \in Nodes(g)
    BY <2>1 DEF Exactly, Hops
  <2>. QED
    BY <2>1, <2>2, NoHop
<1>5. a \in Exactly(g, n, "callees", d)
  <2>1. n \in Hops(g, a, "callers", d) /\ \A k \in 0 .. (d - 1) : n \notin Hops(g, a, "callers", k)
    BY DEF Exactly
  <2>2. a \in Hops(g, n, "callees", d)
    BY <1>4, <2>1, WalkedBack
  <2>3. ASSUME NEW k \in 0 .. (d - 1), a \in Hops(g, n, "callees", k) PROVE FALSE
    <3>1. k \in Nat
      BY <1>4
    <3>. QED
      BY <1>4, <2>1, <2>3, <3>1, WalkedBack
  <2>. QED
    BY <2>2, <2>3 DEF Exactly
<1>. DEFINE hits == {x \in ReachableFrom(g, n) : x.id = a}
<1>6. [id |-> a, depth |-> d] \in hits
  BY <1>1, <1>4, <1>5, HitsAreExact DEF ReachableFrom
<1>7. ASSUME NEW x \in hits PROVE x.depth = d
  <2>1. PICK c \in 1 .. Cardinality(Nodes(g)) : \E m \in Exactly(g, n, "callees", c) : x = [id |-> m, depth |-> c]
    BY <1>1, <1>4, <1>7, HitsAreExact DEF ReachableFrom
  <2>2. PICK m \in Exactly(g, n, "callees", c) : x = [id |-> m, depth |-> c]
    BY <2>1
  <2>3. m = a /\ c \in Nat
    BY <1>1, <1>7, <2>2
  <2>. QED
    BY <1>1, <1>4, <1>5, <2>2, <2>3, HitsAreExact
<1>8. (CHOOSE x \in hits : TRUE) \in hits
  <2>. HIDE DEF hits
  <2>. QED
    BY <1>6
<1>9. CallPathLength(g, n, a) = (CHOOSE x \in hits : TRUE).depth
  BY <1>4, <1>6 DEF CallPathLength
<1>. HIDE DEF hits
<1>10. CallPathLength(g, n, a) = d
  BY <1>7, <1>8, <1>9
<1>. QED
  BY <1>3, <1>10

(* What is one hop away.                                                     *)
LEMMA OneHopAway ==
  ASSUME NEW g \in Graphs, NEW a \in Nodes(g), NEW dir
  PROVE  {h.id : h \in Traverse(g, a, dir, 1)} = Neighbours(g, a, dir) \ {a}
<1>1. \A h : h \in Traverse(g, a, dir, 1) <=> \E n \in Exactly(g, a, dir, 1) : h = [id |-> n, depth |-> 1]
  <2>1. 1 .. 1 = {1}
    OBVIOUS
  <2>. QED
    BY <2>1, HitsAreExact
<1>2. Exactly(g, a, dir, 1) = Neighbours(g, a, dir) \ {a}
  <2>1. Exactly(g, a, dir, 0 + 1)
          = (UNION {Neighbours(g, n, dir) : n \in Exactly(g, a, dir, 0)}) \ Within(g, a, dir, 0)
    BY SphereSteps
  <2>2. 0 + 1 = 1
    OBVIOUS
  <2>. QED
    BY <2>1, <2>2, SphereStarts
<1>3. \A n : n \in {h.id : h \in Traverse(g, a, dir, 1)} <=> n \in Exactly(g, a, dir, 1)
  <2>1. ASSUME NEW n \in Exactly(g, a, dir, 1) PROVE n \in {h.id : h \in Traverse(g, a, dir, 1)}
    <3>1. [id |-> n, depth |-> 1] \in Traverse(g, a, dir, 1)
      BY <1>1
    <3>. QED
      BY <3>1
  <2>2. ASSUME NEW h \in Traverse(g, a, dir, 1) PROVE h.id \in Exactly(g, a, dir, 1)
    BY <1>1
  <2>. QED
    BY <2>1, <2>2
<1>. QED
  BY <1>2, <1>3

(* inspect.ts:458-508 — the relations of a node, with the edges they are of. *)
RelationsOut(g, a, yes, no) ==
  UNION {{Relation(e, e.to, no)} \cup {Relation(e, t, yes) : t \in Arms(g, e)} :
         e \in {x \in g.edge : x.from = a /\ x.kind # "declares"}}
RelationsIn(g, b, yes, no) ==
       {Relation(e, e.from, no) : e \in {x \in g.edge : x.to = b /\ x.kind # "declares"}}
    \cup {Relation(e, e.from, yes) : e \in {x \in g.edge : x.to # b /\ b \in x.possible}}

Says(relations, other, virtual, kind) ==
  \E r \in relations : r.id = other /\ r.virtual = virtual /\ r.kind = kind

LEMMA RelationsAgree ==
  ASSUME NEW g \in Graphs, NEW a \in Nodes(g), NEW b \in Nodes(g), NEW k, NEW yes, NEW no, yes # no
  PROVE  /\ Says(RelationsOut(g, a, yes, no), b, no, k) <=> Says(RelationsIn(g, b, yes, no), a, no, k)
         /\ Says(RelationsOut(g, a, yes, no), b, yes, k) <=> Says(RelationsIn(g, b, yes, no), a, yes, k)
<1>. DEFINE from == {x \in g.edge : x.from = a /\ x.kind # "declares"}
            into == {x \in g.edge : x.to = b /\ x.kind # "declares"}
            maybe == {x \in g.edge : x.to # b /\ b \in x.possible}
<1>1. \A e, other, virtual : /\ Relation(e, other, virtual).id = other
                             /\ Relation(e, other, virtual).kind = e.kind
                             /\ Relation(e, other, virtual).virtual = virtual
  BY DEF Relation
<1>2. \A e \in g.edge : e.possible # {} => e.kind # "declares"
  BY GraphAssumption DEF CallKinds
<1>3. \A r : r \in RelationsOut(g, a, yes, no)
        <=> \E e \in from : r = Relation(e, e.to, no) \/ \E t \in Arms(g, e) : r = Relation(e, t, yes)
  BY DEF RelationsOut
<1>4. \A r : r \in RelationsIn(g, b, yes, no) <=> \/ \E e \in into : r = Relation(e, e.from, no)
                                                  \/ \E e \in maybe : r = Relation(e, e.from, yes)
  BY DEF RelationsIn
<1>5. \A e : b \in Arms(g, e) <=> b \in e.possible /\ b # e.to
  BY DEF Arms
<1>6. Says(RelationsOut(g, a, yes, no), b, no, k)
        <=> \E e \in g.edge : e.from = a /\ e.kind = k /\ k # "declares" /\ e.to = b
  BY <1>1, <1>3 DEF Says
<1>7. Says(RelationsOut(g, a, yes, no), b, yes, k)
        <=> \E e \in g.edge : e.from = a /\ e.kind = k /\ b \in e.possible /\ b # e.to
  BY <1>1, <1>2, <1>3, <1>5 DEF Says
<1>8. Says(RelationsIn(g, b, yes, no), a, no, k)
        <=> \E e \in g.edge : e.from = a /\ e.kind = k /\ k # "declares" /\ e.to = b
  BY <1>1, <1>4 DEF Says
<1>9. Says(RelationsIn(g, b, yes, no), a, yes, k)
        <=> \E e \in g.edge : e.from = a /\ e.kind = k /\ b \in e.possible /\ b # e.to
  BY <1>1, <1>4 DEF Says
<1>. QED
  BY <1>6, <1>7, <1>8, <1>9

(* What a relation says at one end it says at the other.                     *)
LEMMA BothEndsAgree ==
  ASSUME NEW g \in Graphs, NEW a \in Nodes(g), NEW b \in Nodes(g), NEW k, NEW v \in BOOLEAN
  PROVE  (\E r \in Outgoing(g, a) : r.id = b /\ r.virtual = v /\ r.kind = k)
           <=> (\E r \in Incoming(g, b) : r.id = a /\ r.virtual = v /\ r.kind = k)
<1>1. Outgoing(g, a) = RelationsOut(g, a, TRUE, FALSE) /\ Incoming(g, b) = RelationsIn(g, b, TRUE, FALSE)
  BY Zenon DEF Outgoing, Incoming, RelationsOut, RelationsIn
<1>2. PICK yes, no : yes = TRUE /\ no = FALSE
  OBVIOUS
<1>3. Outgoing(g, a) = RelationsOut(g, a, yes, no) /\ Incoming(g, b) = RelationsIn(g, b, yes, no)
  BY <1>1, <1>2, Zenon
<1>4. yes # no
  BY <1>2
<1>5. v = yes \/ v = no
  BY <1>2
<1>6. /\ Says(Outgoing(g, a), b, yes, k) <=> Says(Incoming(g, b), a, yes, k)
      /\ Says(Outgoing(g, a), b, no, k) <=> Says(Incoming(g, b), a, no, k)
  BY <1>3, <1>4, RelationsAgree
<1>7. Says(Outgoing(g, a), b, v, k) <=> Says(Incoming(g, b), a, v, k)
  BY <1>5, <1>6, Zenon
<1>. QED
  BY <1>7, Zenon DEF Says

(* traverse.ts:99-116, lenses.ts:89-148 — the hops and the callers above a  *)
(* function are the ends of its call relations.                              *)
LEMMA CallRelations ==
  ASSUME NEW g \in Graphs, NEW a \in Nodes(g), NEW yes, NEW no
  PROVE  /\ {r.id : r \in {x \in RelationsOut(g, a, yes, no) : x.kind \in CallKinds}} = Neighbours(g, a, "callees")
         /\ {r.id : r \in {x \in RelationsIn(g, a, yes, no) : x.kind \in CallKinds}} = Neighbours(g, a, "callers")
         /\ FileLens(g, a).callers = {r.id : r \in {x \in RelationsIn(g, a, yes, no) : x.kind = "calls"}}
<1>. DEFINE from == {x \in g.edge : x.from = a /\ x.kind # "declares"}
            into == {x \in g.edge : x.to = a /\ x.kind # "declares"}
            maybe == {x \in g.edge : x.to # a /\ a \in x.possible}
            calls == {e \in g.edge : e.kind = "calls"}
<1>1. \A e, other, virtual : Relation(e, other, virtual).id = other /\ Relation(e, other, virtual).kind = e.kind
  BY DEF Relation
<1>2. \A e \in g.edge : e.to \in Nodes(g) /\ e.from \in Nodes(g)
  BY GraphAssumption
<1>3. \A r : r \in RelationsOut(g, a, yes, no)
        <=> \E e \in from : r = Relation(e, e.to, no) \/ \E t \in Arms(g, e) : r = Relation(e, t, yes)
  BY DEF RelationsOut
<1>4. \A r : r \in RelationsIn(g, a, yes, no) <=> \/ \E e \in into : r = Relation(e, e.from, no)
                                                  \/ \E e \in maybe : r = Relation(e, e.from, yes)
  BY DEF RelationsIn
<1>5. \A e, t : t \in Arms(g, e) <=> t \in e.possible /\ t # e.to /\ t \in Nodes(g)
  BY DEF Arms
<1>6. \A m, n : /\ n \in Neighbours(g, m, "callees") <=> <<m, n>> \in CallSteps(g)
                /\ n \in Neighbours(g, m, "callers") <=> <<n, m>> \in CallSteps(g)
  <2>1. ASSUME NEW s \in CallSteps(g) PROVE s = <<s[1], s[2]>>
    <3>1. PICK e \in Calls(g.edge) : s \in {<<e.from, t>> : t \in {e.to} \cup (e.possible \cap Nodes(g))}
      BY <2>1 DEF CallSteps
    <3>. QED
      BY <3>1
  <2>2. \A m, n : n \in Neighbours(g, m, "callees") <=> \E s \in CallSteps(g) : s[1] = m /\ s[2] = n
    BY DEF Neighbours
  <2>3. \A m, n : n \in Neighbours(g, m, "callers") <=> \E s \in CallSteps(g) : s[2] = m /\ s[1] = n
    BY DEF Neighbours
  <2>. QED
    BY <2>1, <2>2, <2>3
<1>7. \A m, n : <<m, n>> \in CallSteps(g)
        <=> \E e \in g.edge : e.kind \in CallKinds /\ e.from = m /\ (n = e.to \/ (n \in e.possible /\ n \in Nodes(g)))
  <2>1. \A s : s \in CallSteps(g)
          <=> \E e \in Calls(g.edge) : \E t \in {e.to} \cup (e.possible \cap Nodes(g)) : s = <<e.from, t>>
    BY DEF CallSteps
  <2>2. \A m, n : <<m, n>> \in CallSteps(g)
          <=> \E e \in Calls(g.edge) : e.from = m /\ n \in {e.to} \cup (e.possible \cap Nodes(g))
    BY <2>1
  <2>3. \A e : e \in Calls(g.edge) <=> e \in g.edge /\ e.kind \in CallKinds
    BY DEF Calls
  <2>4. \A n, e : n \in {e.to} \cup (e.possible \cap Nodes(g)) <=> (n = e.to \/ (n \in e.possible /\ n \in Nodes(g)))
    OBVIOUS
  <2>5. ASSUME NEW m, NEW n
        PROVE  (\E e \in Calls(g.edge) : e.from = m /\ n \in {e.to} \cup (e.possible \cap Nodes(g)))
                 <=> \E e \in g.edge : e.kind \in CallKinds /\ e.from = m /\ (n = e.to \/ (n \in e.possible /\ n \in Nodes(g)))
    BY <2>3, <2>4
  <2>. QED
    BY <2>2, <2>5
<1>8. "declares" \notin CallKinds
  BY DEF CallKinds
<1>9. \A n : n \in {r.id : r \in {x \in RelationsOut(g, a, yes, no) : x.kind \in CallKinds}}
         <=> \E e \in g.edge : e.kind \in CallKinds /\ e.from = a /\ (n = e.to \/ (n \in e.possible /\ n \in Nodes(g)))
  <2>1. \A n : n \in {r.id : r \in {x \in RelationsOut(g, a, yes, no) : x.kind \in CallKinds}}
           <=> \E r \in RelationsOut(g, a, yes, no) : r.kind \in CallKinds /\ r.id = n
    OBVIOUS
  <2>2. \A n : (\E r \in RelationsOut(g, a, yes, no) : r.kind \in CallKinds /\ r.id = n)
           <=> \E e \in from : e.kind \in CallKinds /\ (n = e.to \/ n \in Arms(g, e))
    BY <1>1, <1>3
  <2>3. \A n : \A e \in g.edge : (n = e.to \/ n \in Arms(g, e)) <=> (n = e.to \/ (n \in e.possible /\ n \in Nodes(g)))
    BY <1>5
  <2>4. \A n : (\E e \in from : e.kind \in CallKinds /\ (n = e.to \/ n \in Arms(g, e)))
           <=> \E e \in g.edge : e.kind \in CallKinds /\ e.from = a /\ (n = e.to \/ (n \in e.possible /\ n \in Nodes(g)))
    BY <1>8, <2>3
  <2>. QED
    BY <2>1, <2>2, <2>4
<1>10. \A n : n \in {r.id : r \in {x \in RelationsIn(g, a, yes, no) : x.kind \in CallKinds}}
         <=> \E e \in g.edge : e.kind \in CallKinds /\ e.from = n /\ (a = e.to \/ a \in e.possible)
  BY <1>1, <1>4, <1>8
<1>11. \A n : n \in {r.id : r \in {x \in RelationsIn(g, a, yes, no) : x.kind = "calls"}}
         <=> \E e \in calls : e.from = n /\ (a = e.to \/ a \in e.possible)
  BY <1>1, <1>4
<1>12. FileLens(g, a).callers = {e.from : e \in {x \in calls : a \in {x.to} \cup x.possible}}
  BY DEF FileLens
<1>13. FileLens(g, a).callers = {r.id : r \in {x \in RelationsIn(g, a, yes, no) : x.kind = "calls"}}
  BY <1>11, <1>12
<1>14. {r.id : r \in {x \in RelationsOut(g, a, yes, no) : x.kind \in CallKinds}} = Neighbours(g, a, "callees")
  BY <1>6, <1>7, <1>9
<1>15. {r.id : r \in {x \in RelationsIn(g, a, yes, no) : x.kind \in CallKinds}} = Neighbours(g, a, "callers")
  <2>1. \A n : n \in Neighbours(g, a, "callers")
           <=> \E e \in g.edge : e.kind \in CallKinds /\ e.from = n /\ (a = e.to \/ a \in e.possible)
    <3>1. \A n : n \in Neighbours(g, a, "callers") <=> <<n, a>> \in CallSteps(g)
      BY <1>6
    <3>2. a \in Nodes(g)
      OBVIOUS
    <3>3. \A n : <<n, a>> \in CallSteps(g)
             <=> \E e \in g.edge : e.kind \in CallKinds /\ e.from = n /\ (a = e.to \/ (a \in e.possible /\ a \in Nodes(g)))
      BY <1>7
    <3>. QED
      BY <3>1, <3>2, <3>3
  <2>. QED
    BY <1>10, <2>1
<1>. QED
  BY <1>13, <1>14, <1>15

-----------------------------------------------------------------------------
(* Call sites. *)

Resolutions == {"semantic", "heuristic", "ambiguous", "unresolved"}

(* views.ts:123-134 — of edges that are there, one of the least certain.     *)
LEMMA WorstIsLeastCertain ==
  ASSUME NEW E, E # {}, \A e \in E : e.res \in Resolutions
  PROVE  Worst(E) \in Resolutions /\ \A e \in E : Rank(e.res) \in Nat /\ Rank(e.res) <= Rank(Worst(E))
<1>1. \A r \in Resolutions : Rank(r) \in 0 .. 3
  BY DEF Resolutions, Rank
<1>. DEFINE gap == {3 - Rank(e.res) : e \in E}
<1>2. gap \in SUBSET Nat /\ gap # {}
  BY <1>1
<1>3. PICK n \in gap : \A o \in gap : n <= o
  BY <1>2, Least
<1>4. PICK w \in E : n = 3 - Rank(w.res)
  BY <1>3
<1>5. \A e \in E : Rank(e.res) <= Rank(w.res)
  BY <1>1, <1>3, <1>4
<1>6. w.res \in {e.res : e \in E} /\ \A e \in E : Rank(e.res) <= Rank(w.res)
  BY <1>5
<1>7. Worst(E) \in {e.res : e \in E} /\ \A e \in E : Rank(e.res) <= Rank(Worst(E))
  BY <1>6 DEF Worst
<1>. QED
  BY <1>1, <1>7

(* Calls that cross from one contract that is kept to another.               *)
Ends(e) == <<ContainerOf(graph, e.from), ContainerOf(graph, e.to)>>
Crossing(keep) == {e \in Calls(graph.edge) : /\ Ends(e)[1] # Ends(e)[2]
                                             /\ {Ends(e)[1], Ends(e)[2]} \subseteq keep}
Between(keep, p) == {e \in Crossing(keep) : Ends(e) = p}

LEMMA CrossingType ==
  ASSUME graph \in Graphs, NEW keep
  PROVE  /\ Counted(Crossing(keep)) /\ \A e \in Crossing(keep) : e.res \in Resolutions /\ e.kind \in CallKinds
         /\ \A e \in Crossing(keep) : Ends(e) \in keep \X keep /\ Ends(e)[1] # Ends(e)[2]
<1>1. Crossing(keep) \subseteq graph.edge /\ \A e \in Crossing(keep) : e.kind \in CallKinds
  BY DEF Crossing, Calls
<1>2. IsFiniteSet(Crossing(keep))
  BY <1>1, GraphAssumption, FS_Subset
<1>3. \A e \in Crossing(keep) : e.count \in Nat /\ e.res \in Resolutions
  BY <1>1, GraphAssumption DEF Resolutions
<1>4. \A e \in Crossing(keep) : Ends(e) \in keep \X keep /\ Ends(e)[1] # Ends(e)[2]
  BY DEF Crossing, Ends
<1>. QED
  BY <1>1, <1>2, <1>3, <1>4 DEF Counted

(* views.ts:143-178 — one edge for each pair of contracts with calls between *)
(* them.                                                                     *)
LEMMA RolledUpAre ==
  ASSUME graph \in Graphs, NEW keep
  PROVE  /\ \A r \in RolledUp(graph, keep, lead) :
              /\ r.kind \in CallKinds /\ r.count = Sites(Between(keep, <<r.from, r.to>>))
              /\ r.res = Worst(Between(keep, <<r.from, r.to>>))
              /\ \E e \in Crossing(keep) : Ends(e) = <<r.from, r.to>>
         /\ \A r, s \in RolledUp(graph, keep, lead) : r.from = s.from /\ r.to = s.to => r = s
         /\ \A e \in Crossing(keep) : \E r \in RolledUp(graph, keep, lead) : <<r.from, r.to>> = Ends(e)
<1>. DEFINE pairs == {Ends(e) : e \in Crossing(keep)}
            kinds(p) == {e.kind : e \in Between(keep, p)}
            one(p) == [kind |-> IF lead \in kinds(p) THEN lead ELSE CHOOSE k \in kinds(p) : TRUE,
                       from |-> p[1], to |-> p[2], sub |-> "rollup", possible |-> {},
                       count |-> Sites(Between(keep, p)), res |-> Worst(Between(keep, p))]
<1>1. RolledUp(graph, keep, lead) = {one(p) : p \in pairs}
  BY DEF RolledUp, Crossing, Between, Ends
<1>2. ASSUME NEW p \in pairs
      PROVE  /\ \E e \in Crossing(keep) : Ends(e) = p
             /\ <<p[1], p[2]>> = p
             /\ one(p).from = p[1] /\ one(p).to = p[2] /\ one(p).kind \in CallKinds
             /\ one(p).count = Sites(Between(keep, p)) /\ one(p).res = Worst(Between(keep, p))
  <2>1. PICK e \in Crossing(keep) : Ends(e) = p
    OBVIOUS
  <2>2. e.kind \in kinds(p) /\ kinds(p) \subseteq CallKinds
    BY <2>1, CrossingType DEF Between
  <2>3. <<p[1], p[2]>> = p
    BY <2>1 DEF Ends
  <2>4. one(p).kind \in kinds(p)
    <3>. HIDE DEF kinds
    <3>. QED
      BY <2>2
  <2>. QED
    BY <2>1, <2>2, <2>3, <2>4
<1>. HIDE DEF one
<1>3. \A r \in RolledUp(graph, keep, lead) : \E p \in pairs : r = one(p) /\ p = <<r.from, r.to>>
  BY <1>1, <1>2
<1>4. \A e \in Crossing(keep) : Ends(e) \in pairs
  OBVIOUS
<1>5. \A p \in pairs : one(p) \in RolledUp(graph, keep, lead) /\ <<one(p).from, one(p).to>> = p
  BY <1>1, <1>2
<1>6. \A r, s \in RolledUp(graph, keep, lead) : r.from = s.from /\ r.to = s.to => r = s
  BY <1>3
<1>7. \A e \in Crossing(keep) : \E r \in RolledUp(graph, keep, lead) : <<r.from, r.to>> = Ends(e)
  BY <1>4, <1>5
<1>8. ASSUME NEW r \in RolledUp(graph, keep, lead)
      PROVE  /\ r.kind \in CallKinds /\ r.count = Sites(Between(keep, <<r.from, r.to>>))
             /\ r.res = Worst(Between(keep, <<r.from, r.to>>))
             /\ \E e \in Crossing(keep) : Ends(e) = <<r.from, r.to>>
  <2>1. PICK p \in pairs : r = one(p) /\ p = <<r.from, r.to>>
    BY <1>3
  <2>. HIDE DEF pairs
  <2>. QED
    BY <1>2, <2>1
<1>. QED
  BY <1>6, <1>7, <1>8

(* What is rolled up carries the call sites it stands for.                   *)
LEMMA RolledUpSites ==
  ASSUME graph \in Graphs, NEW keep, IsFiniteSet(RolledUp(graph, keep, lead)),
         NEW B \in SUBSET RolledUp(graph, keep, lead)
  PROVE  Counted(B) /\ Sites(B) = Sites({e \in Crossing(keep) : \E r \in B : Ends(e) = <<r.from, r.to>>})
<1>. DEFINE part == [r \in B |-> Between(keep, <<r.from, r.to>>)]
<1>1. part \in [B -> SUBSET Crossing(keep)]
  BY DEF Between
<1>2. \A r, s \in B : r # s => part[r] \cap part[s] = {}
  <2>1. ASSUME NEW r \in B, NEW s \in B, NEW e \in part[r], e \in part[s] PROVE r = s
    <3>1. <<r.from, r.to>> = Ends(e) /\ <<s.from, s.to>> = Ends(e)
      BY <2>1 DEF Between
    <3>2. r.from = s.from /\ r.to = s.to
      BY <3>1
    <3>. QED
      BY <3>2, RolledUpAre
  <2>. QED
    BY <2>1
<1>3. \A r \in B : r.count = Sites(part[r])
  BY RolledUpAre
<1>4. UNION {part[r] : r \in B} = {e \in Crossing(keep) : \E r \in B : Ends(e) = <<r.from, r.to>>}
  BY DEF Between
<1>5. IsFiniteSet(B) /\ Counted(Crossing(keep))
  BY CrossingType, FS_Subset
<1>. HIDE DEF part
<1>6. Counted(B) /\ Sites(B) = Sites(UNION {part[r] : r \in B})
  BY <1>1, <1>2, <1>3, <1>5, SitesOfParts
<1>. QED
  BY <1>4, <1>6, Zenon

(* aggregate.ts:348-439 — the bundles of a map, one for each key.             *)
Fold(sel, opened, k) == {e \in Across(sel, opened) : Key(sel, opened, e) = k}
Inside(sel, opened) ==
  {e \in sel.edges \ Plain(sel, opened) : Rep(sel, opened)[e.from] = Rep(sel, opened)[e.to]}

LEMMA BundlesAre ==
  ASSUME NEW sel, NEW opened
  PROVE  /\ \A a \in Layout(sel, opened).aggregates :
              /\ a.key \in Keys(sel, opened)
              /\ a.count = Sites(Fold(sel, opened, a.key)) /\ a.res = Worst(Fold(sel, opened, a.key))
         /\ \A a, b \in Layout(sel, opened).aggregates : a.key = b.key => a = b
         /\ \A k \in Keys(sel, opened) : \E a \in Layout(sel, opened).aggregates : a.key = k
         /\ IsFiniteSet(Keys(sel, opened)) => IsFiniteSet(Layout(sel, opened).aggregates)
<1>. DEFINE keys == Keys(sel, opened)
            bundle(k) == [key |-> k, count |-> Sites(Fold(sel, opened, k)),
                          pairs |-> Cardinality(Fold(sel, opened, k)), res |-> Worst(Fold(sel, opened, k))]
            bundles == {bundle(k) : k \in keys}
<1>1. Layout(sel, opened).aggregates = bundles
  <2>. DEFINE lifted == sel.edges \ Plain(sel, opened)
              inside == {e \in lifted : Rep(sel, opened)[e.from] = Rep(sel, opened)[e.to]}
  <2>1. Across(sel, opened) = lifted \ inside
    BY DEF Across
  <2>2. Layout(sel, opened).aggregates =
          {[key |-> k, count |-> Sites({e \in lifted \ inside : Key(sel, opened, e) = k}),
            pairs |-> Cardinality({e \in lifted \ inside : Key(sel, opened, e) = k}),
            res |-> Worst({e \in lifted \ inside : Key(sel, opened, e) = k})]
           : k \in {Key(sel, opened, e) : e \in lifted \ inside}}
    BY DEF Layout, Plain, Key, Rep
  <2>. QED
    BY <2>1, <2>2 DEF Keys, Fold
<1>2. \A k : /\ bundle(k).key = k /\ bundle(k).count = Sites(Fold(sel, opened, k))
             /\ bundle(k).res = Worst(Fold(sel, opened, k))
  OBVIOUS
<1>. HIDE DEF bundle
<1>3. \A a \in bundles : \E k \in keys : a = bundle(k)
  OBVIOUS
<1>4. \A k \in keys : bundle(k) \in bundles
  OBVIOUS
<1>5. IsFiniteSet(keys) => IsFiniteSet(bundles)
  <2>1. [k \in keys |-> bundle(k)] \in Surjection(keys, bundles)
    <3>. HIDE DEF keys
    <3>. QED
      BY DEF Surjection
  <2>. HIDE DEF keys, bundles
  <2>. QED
    BY <2>1, FS_Surjection
<1>. HIDE DEF bundles
<1>. QED
  BY <1>1, <1>2, <1>3, <1>4, <1>5

Carried(sel, opened, B) == {e \in Across(sel, opened) : \E a \in B : a.key = Key(sel, opened, e)}

LEMMA BundleSites ==
  ASSUME NEW sel, Drawable(sel), Counted(sel.edges), NEW opened, NEW B \in SUBSET Layout(sel, opened).aggregates
  PROVE  Counted(B) /\ Sites(B) = Sites(Carried(sel, opened, B))
<1>. DEFINE part == [a \in B |-> Fold(sel, opened, a.key)]
<1>1. part \in [B -> SUBSET Across(sel, opened)]
  BY DEF Fold
<1>2. \A a, b \in B : a # b => part[a] \cap part[b] = {}
  <2>1. ASSUME NEW a \in B, NEW b \in B, NEW e \in part[a], e \in part[b] PROVE a = b
    <3>1. a.key = Key(sel, opened, e) /\ b.key = Key(sel, opened, e)
      BY <2>1 DEF Fold
    <3>. QED
      BY <3>1, BundlesAre
  <2>. QED
    BY <2>1
<1>3. \A a \in B : a.count = Sites(part[a])
  BY BundlesAre
<1>4. UNION {part[a] : a \in B} = Carried(sel, opened, B)
  BY DEF Fold, Carried
<1>5. IsFiniteSet(B)
  BY KeysFinite, BundlesAre, FS_Subset
<1>6. Counted(Across(sel, opened))
  BY KeysFinite DEF Counted, Across
<1>. HIDE DEF part
<1>7. Counted(B) /\ Sites(B) = Sites(UNION {part[a] : a \in B})
  BY <1>1, <1>2, <1>3, <1>5, <1>6, SitesOfParts
<1>. QED
  BY <1>4, <1>7, Zenon

(* aggregate.ts:375-390 — an edge hidden inside a directory is counted there. *)
LEMMA InsideIsInDirs ==
  ASSUME NEW sel, Drawable(sel), NEW opened \in SUBSET Dirs, UpClosed(opened), NEW e \in Inside(sel, opened)
  PROVE  Rep(sel, opened)[e.from] \in Present(sel, opened)
<1>1. e.from \in sel.nodes /\ e.to \in sel.nodes /\ e \notin Plain(sel, opened)
      /\ Rep(sel, opened)[e.from] = Rep(sel, opened)[e.to] /\ e \in sel.edges
  BY DEF Inside, Drawable
<1>2. Representative(sel, opened, e.from) = Representative(sel, opened, e.to)
  BY <1>1 DEF Rep
<1>3. ~(Above[DirOf(e.from)] \subseteq opened)
  <2>1. ASSUME Above[DirOf(e.from)] \subseteq opened PROVE FALSE
    <3>1. Representative(sel, opened, e.from) = e.from /\ e.from \notin Dirs
      BY <1>1, <2>1, Represents
    <3>2. Representative(sel, opened, e.to) = e.to
      <4>1. Representative(sel, opened, e.to) \notin Dirs
        BY <1>2, <3>1
      <4>2. CASE Above[DirOf(e.to)] \subseteq opened
        BY <1>1, <4>2, Represents
      <4>3. CASE ~(Above[DirOf(e.to)] \subseteq opened)
        BY <1>1, <4>1, <4>3, Represents
      <4>. QED
        BY <4>2, <4>3
    <3>. QED
      BY <1>1, <3>1, <3>2 DEF Plain, Rep
  <2>. QED
    BY <2>1
<1>4. /\ Representative(sel, opened, e.from) \in Above[DirOf(e.from)]
      /\ Shut(Representative(sel, opened, e.from), opened)
  BY <1>1, <1>3, Represents
<1>5. Above[DirOf(e.from)] \subseteq Tree(sel)
  BY <1>1 DEF Tree, DirOf
<1>. QED
  BY <1>1, <1>4, <1>5 DEF Present, Rep, Shut

InsideOf(sel, opened, d) == {e \in Inside(sel, opened) : Rep(sel, opened)[e.from] = d}

Hidden(l) == MapThenSumSet(LAMBDA x : l.internal[x], l.dirs)

(* What is counted inside the directories is all that is hidden in them.     *)
LEMMA InternalSites ==
  ASSUME NEW sel, Drawable(sel), Counted(sel.edges), NEW opened \in SUBSET Dirs, UpClosed(opened)
  PROVE  /\ \A d \in Present(sel, opened) : Layout(sel, opened).internal[d] = Sites(InsideOf(sel, opened, d))
         /\ Counted(Inside(sel, opened))
         /\ Hidden(Layout(sel, opened)) = Sites(Inside(sel, opened))
<1>. DEFINE D == Present(sel, opened)
            E == Inside(sel, opened)
            n == Layout(sel, opened).internal
            part == [d \in D |-> {e \in E : Rep(sel, opened)[e.from] = d}]
            c == [e \in E |-> e.count]
<1>1. n = [d \in D |-> Sites(part[d])]
  BY DEF Layout, Inside, Plain, Rep
<1>2. IsFiniteSet(D)
  <2>1. D \subseteq Dirs
    BY TreeIsUpClosed DEF Present
  <2>. QED
    BY <2>1, FS_Subset
<1>3. Counted(E)
  <2>1. E \subseteq sel.edges
    BY DEF Inside
  <2>. QED
    BY <2>1, FS_Subset DEF Counted
<1>4. IsFiniteSet(E) /\ \A e \in E : c[e] = e.count /\ c[e] \in Nat
  BY <1>3 DEF Counted
<1>5. part \in [D -> SUBSET E] /\ \A a, b \in D : a # b => part[a] \cap part[b] = {}
  OBVIOUS
<1>6. UNION {part[d] : d \in D} = E
  BY InsideIsInDirs
<1>7. Layout(sel, opened).dirs = D
  BY LayoutParts
<1>8. \A d \in D : n[d] = Sites(InsideOf(sel, opened, d))
  BY <1>1 DEF InsideOf
<1>. HIDE DEF D, E, n, c
<1>9. \A d \in D : part[d] \in SUBSET E /\ n[d] = Sites(part[d])
  BY <1>1, <1>5
<1>. HIDE DEF part
<1>10. \A d \in D : IsFiniteSet(part[d]) /\ \A e \in part[d] : c[e] = e.count /\ c[e] \in Nat
  BY <1>4, <1>9, FS_Subset
<1>11. \A d \in D : n[d] = Total(c, part[d]) /\ n[d] \in Nat
  BY <1>9, <1>10, SitesAre, TotalType
<1>12. Total(n, D) = Total(c, UNION {part[d] : d \in D})
  BY <1>2, <1>4, <1>5, <1>11, TotalOfParts
<1>13. Sites(E) = Total(c, E)
  BY <1>4, SitesAre
<1>14. MapThenSumSet(LAMBDA x : n[x], D) = Total(n, D)
  BY <1>2, <1>11, SumsAre
<1>15. MapThenSumSet(LAMBDA x : n[x], D) = Sites(E)
  BY <1>6, <1>12, <1>13, <1>14, Zenon
<1>. QED
  BY <1>3, <1>7, <1>8, <1>15, Zenon DEF n, D, E, Hidden

(* views.ts:111-180 — the protocol map: contracts, the inheritance between   *)
(* them and the calls rolled up.                                             *)
Rolled(sel) == RolledUp(graph, sel.nodes, lead)
Inherited(sel) == {e \in sel.edges : e.kind = "inherits"}
Protocol(sel) ==
  /\ Drawable(sel)
  /\ sel.edges = Induced(graph, sel.nodes, {"inherits"}) \cup Rolled(sel)

LEMMA ProtocolParts ==
  ASSUME NEW sel, Protocol(sel)
  PROVE  /\ Counted(sel.edges) /\ Rolled(sel) \in SUBSET sel.edges /\ IsFiniteSet(Rolled(sel))
         /\ Calls(sel.edges) = Rolled(sel)
         /\ Inherited(sel) \in SUBSET sel.edges /\ Rolled(sel) \cup Inherited(sel) = sel.edges
         /\ Rolled(sel) \cap Inherited(sel) = {}
         /\ \A r \in Rolled(sel) : r.from \in sel.nodes /\ r.to \in sel.nodes /\ r.from # r.to
<1>1. graph \in Graphs /\ IsFiniteSet(sel.edges)
  BY DEF Protocol, Drawable
<1>2. \A r \in Rolled(sel) : r.kind \in CallKinds /\ \E e \in Crossing(sel.nodes) : Ends(e) = <<r.from, r.to>>
  BY <1>1, RolledUpAre DEF Rolled
<1>3. ASSUME NEW r \in Rolled(sel)
      PROVE  r.from \in sel.nodes /\ r.to \in sel.nodes /\ r.from # r.to
  <2>1. PICK e \in Crossing(sel.nodes) : Ends(e) = <<r.from, r.to>>
    BY <1>2
  <2>. QED
    BY <1>1, <2>1, CrossingType
<1>4. Rolled(sel) \in SUBSET sel.edges /\ IsFiniteSet(Rolled(sel))
  BY <1>1, FS_Subset DEF Protocol
<1>5. Counted(Rolled(sel))
  BY <1>1, <1>4, RolledUpSites DEF Rolled
<1>6. \A e \in Induced(graph, sel.nodes, {"inherits"}) : e.kind = "inherits" /\ e.kind \notin CallKinds /\ e \in graph.edge
  BY DEF Induced, CallKinds
<1>7. \A e \in sel.edges : e.count \in Nat
  BY <1>1, <1>5, <1>6, GraphAssumption DEF Protocol, Counted
<1>8. "inherits" \notin CallKinds
  BY DEF CallKinds
<1>9. Calls(sel.edges) = Rolled(sel)
  BY <1>2, <1>6 DEF Protocol, Calls
<1>10. Rolled(sel) \cup Inherited(sel) = sel.edges /\ Rolled(sel) \cap Inherited(sel) = {}
  BY <1>2, <1>6, <1>8 DEF Protocol, Inherited
<1>. QED
  BY <1>1, <1>3, <1>4, <1>7, <1>9, <1>10 DEF Counted, Inherited

LEMMA RolledIsResolved ==
  ASSUME NEW sel, Protocol(sel), NEW r \in Rolled(sel)
  PROVE  r.res \in Resolutions
<1>. DEFINE E == Between(sel.nodes, <<r.from, r.to>>)
<1>1. graph \in Graphs
  BY DEF Protocol, Drawable
<1>2. r.res = Worst(E) /\ \E e \in Crossing(sel.nodes) : Ends(e) = <<r.from, r.to>>
  BY <1>1, RolledUpAre DEF Rolled
<1>3. E # {} /\ \A e \in E : e.res \in Resolutions
  BY <1>1, <1>2, CrossingType DEF Between
<1>. HIDE DEF E
<1>. QED
  BY <1>2, <1>3, WorstIsLeastCertain

(* The calls, and the contracts' edges, between what two elements stand for. *)
Stand(sel, opened, r) == <<Rep(sel, opened)[r.from], Rep(sel, opened)[r.to]>>
Under(sel, opened, p) ==
  {e \in Crossing(sel.nodes) : <<Rep(sel, opened)[Ends(e)[1]], Rep(sel, opened)[Ends(e)[2]]>> = p}
Over(sel, opened, p) == {r \in Rolled(sel) : Stand(sel, opened, r) = p}
Drawn(sel, opened, p) == {e \in Calls(Plain(sel, opened)) : <<e.from, e.to>> = p}
Lifted(sel, opened, p) ==
  {a \in Layout(sel, opened).aggregates : <<a.key[2], a.key[3]>> = p /\ a.key[1] \in CallKinds}

LEMMA OverIsUnder ==
  ASSUME NEW sel, Protocol(sel), NEW opened, NEW p
  PROVE  /\ Counted(Over(sel, opened, p)) /\ Sites(Over(sel, opened, p)) = Sites(Under(sel, opened, p))
         /\ \A u \in Under(sel, opened, p) : \E r \in Over(sel, opened, p) :
              Rank(u.res) \in Nat /\ Rank(r.res) \in Nat /\ Rank(u.res) <= Rank(r.res)
<1>. DEFINE B == Over(sel, opened, p)
<1>1. graph \in Graphs
  BY DEF Protocol, Drawable
<1>2. \A e \in Crossing(sel.nodes) : \E r \in Rolled(sel) : <<r.from, r.to>> = Ends(e)
  BY <1>1, RolledUpAre DEF Rolled
<1>3. \A e \in Crossing(sel.nodes), r \in Rolled(sel) : <<r.from, r.to>> = Ends(e) => r.from = Ends(e)[1] /\ r.to = Ends(e)[2]
  BY DEF Ends
<1>4. {e \in Crossing(sel.nodes) : \E r \in B : Ends(e) = <<r.from, r.to>>} = Under(sel, opened, p)
  BY <1>2, <1>3 DEF Over, Under, Stand
<1>5. B \in SUBSET RolledUp(graph, sel.nodes, lead) /\ IsFiniteSet(RolledUp(graph, sel.nodes, lead))
  BY ProtocolParts DEF Over, Rolled
<1>6. Counted(B) /\ Sites(B) = Sites({e \in Crossing(sel.nodes) : \E r \in B : Ends(e) = <<r.from, r.to>>})
  BY <1>1, <1>5, RolledUpSites
<1>7. ASSUME NEW u \in Under(sel, opened, p)
      PROVE  \E r \in B : Rank(u.res) \in Nat /\ Rank(r.res) \in Nat /\ Rank(u.res) <= Rank(r.res)
  <2>1. PICK r \in B : Ends(u) = <<r.from, r.to>>
    BY <1>4
  <2>. DEFINE E == Between(sel.nodes, <<r.from, r.to>>)
  <2>2. u \in E
    BY <2>1 DEF Under, Between
  <2>3. r.res = Worst(E)
    BY <1>1, <1>5, RolledUpAre
  <2>4. \A e \in E : e.res \in Resolutions
    BY <1>1, CrossingType DEF Between
  <2>. HIDE DEF E, B
  <2>5. Worst(E) \in Resolutions /\ Rank(u.res) \in Nat /\ Rank(u.res) <= Rank(Worst(E))
    BY <2>2, <2>4, WorstIsLeastCertain
  <2>6. Rank(r.res) \in Nat
    BY <2>3, <2>5 DEF Resolutions, Rank
  <2>. QED
    BY <2>3, <2>5, <2>6
<1>. HIDE DEF B
<1>8. Sites(B) = Sites(Under(sel, opened, p))
  BY <1>4, <1>6, Zenon
<1>. QED
  BY <1>6, <1>7, <1>8 DEF B

(* Between two elements of the map are the call sites between what they stand *)
(* for, on an edge drawn as it is or in a bundle.                            *)
LEMMA OverIsDrawn ==
  ASSUME NEW sel, Protocol(sel), NEW opened, NEW p, p[1] # p[2]
  PROVE  /\ Over(sel, opened, p) \cap Plain(sel, opened) = Drawn(sel, opened, p)
         /\ Over(sel, opened, p) \ Plain(sel, opened) = Carried(sel, opened, Lifted(sel, opened, p))
<1>1. Calls(sel.edges) = Rolled(sel) /\ Rolled(sel) \in SUBSET sel.edges
  BY ProtocolParts
<1>2. \A e \in sel.edges : e.kind \in CallKinds <=> e \in Rolled(sel)
  BY <1>1 DEF Calls
<1>3. \A e \in Plain(sel, opened) : e \in sel.edges /\ Stand(sel, opened, e) = <<e.from, e.to>>
  BY DEF Plain, Stand
<1>4. Over(sel, opened, p) \cap Plain(sel, opened) = Drawn(sel, opened, p)
  BY <1>2, <1>3 DEF Over, Drawn, Calls
<1>5. \A e : /\ Key(sel, opened, e)[1] = e.kind
             /\ <<Key(sel, opened, e)[2], Key(sel, opened, e)[3]>> = Stand(sel, opened, e)
  BY DEF Key, Stand
<1>6. ASSUME NEW r \in Over(sel, opened, p) \ Plain(sel, opened)
      PROVE  r \in Across(sel, opened) /\ \E a \in Lifted(sel, opened, p) : a.key = Key(sel, opened, r)
  <2>1. r \in sel.edges /\ r.kind \in CallKinds /\ Stand(sel, opened, r) = p
    BY <1>1, <1>2 DEF Over
  <2>2. Rep(sel, opened)[r.from] # Rep(sel, opened)[r.to]
    BY <2>1 DEF Stand
  <2>3. r \in Across(sel, opened)
    BY <2>1, <2>2 DEF Across
  <2>4. Key(sel, opened, r) \in Keys(sel, opened)
    BY <2>3 DEF Keys
  <2>5. PICK a \in Layout(sel, opened).aggregates : a.key = Key(sel, opened, r)
    BY <2>4, BundlesAre
  <2>. QED
    BY <1>5, <2>1, <2>3, <2>5 DEF Lifted
<1>7. ASSUME NEW e \in Across(sel, opened), NEW a \in Lifted(sel, opened, p), a.key = Key(sel, opened, e)
      PROVE  e \in Over(sel, opened, p) \ Plain(sel, opened)
  <2>1. e \in sel.edges /\ e \notin Plain(sel, opened)
    BY DEF Across
  <2>2. e.kind \in CallKinds /\ Stand(sel, opened, e) = p
    BY <1>5, <1>7 DEF Lifted
  <2>. QED
    BY <1>2, <2>1, <2>2 DEF Over
<1>. QED
  BY <1>4, <1>6, <1>7 DEF Carried

LEMMA SitesBetween ==
  ASSUME NEW sel, Protocol(sel), NEW opened, NEW p, p[1] # p[2]
  PROVE  Sites(Under(sel, opened, p)) = Sites(Drawn(sel, opened, p)) + Sites(Lifted(sel, opened, p))
<1>. DEFINE in == Over(sel, opened, p) \cap Plain(sel, opened)
            out == Over(sel, opened, p) \ Plain(sel, opened)
            L == Lifted(sel, opened, p)
<1>1. Drawable(sel) /\ Counted(sel.edges)
  BY ProtocolParts DEF Protocol
<1>2. L \in SUBSET Layout(sel, opened).aggregates
  BY DEF Lifted
<1>3. Sites(L) = Sites(Carried(sel, opened, L))
  <2>. HIDE DEF L
  <2>. QED
    BY <1>1, <1>2, BundleSites
<1>4. Sites(L) = Sites(out) /\ Sites(Drawn(sel, opened, p)) = Sites(in)
  <2>1. in = Drawn(sel, opened, p) /\ out = Carried(sel, opened, L)
    BY OverIsDrawn
  <2>. QED
    BY <1>3, <2>1, Zenon
<1>5. Counted(Over(sel, opened, p)) /\ Sites(Over(sel, opened, p)) = Sites(Under(sel, opened, p))
  BY OverIsUnder
<1>6. Counted(in) /\ Counted(out)
  BY <1>5, FS_Subset DEF Counted
<1>7. in \cap out = {} /\ Over(sel, opened, p) = in \cup out
  OBVIOUS
<1>. HIDE DEF in, out
<1>8. Sites(in \cup out) = Sites(in) + Sites(out)
  BY <1>6, <1>7, SitesOfUnion
<1>. QED
  BY <1>4, <1>5, <1>7, <1>8, Zenon

(* views.ts:123-134 — one of them is as uncertain as any call under it.      *)
LEMMA LeastCertainBetween ==
  ASSUME NEW sel, Protocol(sel), NEW opened, NEW p, p[1] # p[2], Under(sel, opened, p) # {}
  PROVE  \E e \in Drawn(sel, opened, p) \cup Lifted(sel, opened, p) :
            \A u \in Under(sel, opened, p) : Rank(u.res) <= Rank(e.res)
<1>. DEFINE U == Under(sel, opened, p)
            both == Drawn(sel, opened, p) \cup Lifted(sel, opened, p)
<1>1. graph \in Graphs /\ U # {}
  BY DEF Protocol, Drawable
<1>2. \A e \in U : e.res \in Resolutions
  BY <1>1, CrossingType DEF Under
<1>3. PICK u \in U : \A e \in U : Rank(e.res) \in Nat /\ Rank(e.res) <= Rank(u.res)
  <2>. DEFINE ranks == {3 - Rank(e.res) : e \in U}
  <2>1. \A e \in U : Rank(e.res) \in 0 .. 3
    BY <1>2 DEF Resolutions, Rank
  <2>2. ranks \in SUBSET Nat /\ ranks # {}
    BY <1>1, <2>1
  <2>3. PICK n \in ranks : \A o \in ranks : n <= o
    BY <2>2, Least
  <2>4. PICK u \in U : n = 3 - Rank(u.res)
    BY <2>3
  <2>. QED
    BY <2>1, <2>3, <2>4
<1>4. PICK r \in Over(sel, opened, p) : Rank(u.res) \in Nat /\ Rank(r.res) \in Nat /\ Rank(u.res) <= Rank(r.res)
  BY OverIsUnder
<1>5. \E e \in both : Rank(e.res) \in Nat /\ Rank(r.res) <= Rank(e.res)
  <2>1. CASE r \in Plain(sel, opened)
    <3>1. r \in both
      BY <2>1, OverIsDrawn
    <3>. QED
      BY <1>4, <3>1
  <2>2. CASE r \notin Plain(sel, opened)
    <3>1. r \in Across(sel, opened) /\ \E a \in Lifted(sel, opened, p) : a.key = Key(sel, opened, r)
      BY <2>2, OverIsDrawn DEF Carried
    <3>2. PICK a \in Lifted(sel, opened, p) : a.key = Key(sel, opened, r)
      BY <3>1
    <3>. DEFINE F == Fold(sel, opened, a.key)
    <3>3. r \in F /\ F \subseteq sel.edges
      BY <3>1, <3>2 DEF Fold, Across
    <3>4. a.res = Worst(F)
      BY BundlesAre DEF Lifted
    <3>5. \A e \in F : e.res \in Resolutions
      <4>1. \A e \in F : e.kind = a.key[1]
        BY DEF Fold, Key
      <4>2. a.key[1] \in CallKinds
        BY DEF Lifted
      <4>3. \A e \in F : e \in Rolled(sel)
        BY <3>3, <4>1, <4>2, ProtocolParts DEF Calls
      <4>4. \A e \in Rolled(sel) : e.res \in Resolutions
        BY RolledIsResolved
      <4>. QED
        BY <4>3, <4>4
    <3>. HIDE DEF F
    <3>6. Worst(F) \in Resolutions /\ Rank(r.res) <= Rank(Worst(F))
      BY <3>3, <3>5, WorstIsLeastCertain
    <3>7. Rank(a.res) \in Nat
      BY <3>4, <3>6 DEF Resolutions, Rank
    <3>. QED
      BY <3>4, <3>6, <3>7
  <2>. QED
    BY <2>1, <2>2
<1>6. PICK e \in both : Rank(e.res) \in Nat /\ Rank(r.res) <= Rank(e.res)
  BY <1>5
<1>. HIDE DEF both
<1>7. \A v \in U : Rank(v.res) <= Rank(e.res)
  BY <1>3, <1>4, <1>6
<1>. QED
  BY <1>7 DEF both, U

(* aggregate.ts:375-390 — what stands in one directory is counted there.     *)
LEMMA SitesInside ==
  ASSUME NEW sel, Protocol(sel), NEW opened \in SUBSET Dirs, UpClosed(opened), NEW x,
         Under(sel, opened, <<x, x>>) # {}
  PROVE  Layout(sel, opened).internal[x]
           = Sites(Under(sel, opened, <<x, x>>))
               + Sites({e \in Inherited(sel) : Stand(sel, opened, e) = <<x, x>>})
<1>. DEFINE calls == Over(sel, opened, <<x, x>>)
            bases == {e \in Inherited(sel) : Stand(sel, opened, e) = <<x, x>>}
            all == InsideOf(sel, opened, x)
<1>1. Drawable(sel) /\ Counted(sel.edges) /\ graph \in Graphs
  BY ProtocolParts DEF Protocol, Drawable
<1>2. Rolled(sel) \in SUBSET sel.edges /\ Inherited(sel) \in SUBSET sel.edges
      /\ Rolled(sel) \cup Inherited(sel) = sel.edges /\ Rolled(sel) \cap Inherited(sel) = {}
  BY ProtocolParts
<1>3. \A r \in calls : r \in Inside(sel, opened) /\ Rep(sel, opened)[r.from] = x
  <2>1. ASSUME NEW r \in calls PROVE r \in Inside(sel, opened) /\ Rep(sel, opened)[r.from] = x
    <3>1. r \in Rolled(sel) /\ Rep(sel, opened)[r.from] = x /\ Rep(sel, opened)[r.to] = x
      BY DEF Over, Stand
    <3>2. r.from # r.to /\ r \in sel.edges
      BY <1>2, <3>1, ProtocolParts
    <3>3. r \notin Plain(sel, opened)
      BY <3>1, <3>2 DEF Plain
    <3>. QED
      BY <3>1, <3>2, <3>3 DEF Inside
  <2>. QED
    BY <2>1
<1>4. x \in Present(sel, opened)
  <2>1. PICK u \in Under(sel, opened, <<x, x>>) : TRUE
    OBVIOUS
  <2>2. PICK r \in calls : TRUE
    BY <2>1, OverIsUnder
  <2>3. r \in Inside(sel, opened) /\ Rep(sel, opened)[r.from] = x
    BY <1>3
  <2>. HIDE DEF calls
  <2>4. Rep(sel, opened)[r.from] \in Present(sel, opened)
    BY <1>1, <2>3, InsideIsInDirs
  <2>. QED
    BY <2>3, <2>4
<1>5. \A e \in bases : e \in Inside(sel, opened) /\ Rep(sel, opened)[e.from] = x
  <2>1. ASSUME NEW e \in bases PROVE e \in Inside(sel, opened) /\ Rep(sel, opened)[e.from] = x
    <3>1. e \in sel.edges /\ Rep(sel, opened)[e.from] = x /\ Rep(sel, opened)[e.to] = x
      BY <1>2 DEF Stand
    <3>2. x \in Dirs
      BY <1>1, <1>4, TreeIsUpClosed DEF Present
    <3>3. e.from \in Nodes(graph)
      BY <1>1, <3>1 DEF Drawable
    <3>4. e.from # x
      BY <1>1, <3>2, <3>3, GraphAssumption
    <3>. QED
      BY <3>1, <3>4 DEF Inside, Plain
  <2>. QED
    BY <2>1
<1>6. \A e \in all : e \in calls \/ e \in bases
  BY <1>2 DEF InsideOf, Inside, Over, Stand
<1>7. all = calls \cup bases /\ calls \cap bases = {}
  BY <1>2, <1>3, <1>5, <1>6 DEF Over, InsideOf
<1>8. Counted(calls) /\ Sites(calls) = Sites(Under(sel, opened, <<x, x>>))
  BY OverIsUnder
<1>9. Counted(bases)
  <2>1. bases \subseteq sel.edges
    BY <1>2
  <2>. QED
    BY <1>1, <2>1, FS_Subset DEF Counted
<1>10. Layout(sel, opened).internal[x] = Sites(all)
  BY <1>1, <1>4, InternalSites
<1>. HIDE DEF calls, bases, all
<1>11. Sites(calls \cup bases) = Sites(calls) + Sites(bases)
  BY <1>7, <1>8, <1>9, SitesOfUnion
<1>. QED
  BY <1>7, <1>8, <1>10, <1>11, Zenon DEF bases

(* In all, the map has the call sites of the calls between its contracts.    *)
LEMMA SitesInAll ==
  ASSUME NEW sel, Protocol(sel), NEW opened \in SUBSET Dirs, UpClosed(opened)
  PROVE  Sites(Layout(sel, opened).edges) + Sites(Layout(sel, opened).aggregates)
           + Hidden(Layout(sel, opened))
           = Sites(Crossing(sel.nodes)) + Sites(Inherited(sel))
<1>. DEFINE P == Plain(sel, opened)
            A == Across(sel, opened)
            I == Inside(sel, opened)
            B == Layout(sel, opened).aggregates
            n == Hidden(Layout(sel, opened))
<1>1. Drawable(sel) /\ Counted(sel.edges) /\ graph \in Graphs
  BY ProtocolParts DEF Protocol, Drawable
<1>2. /\ P \cup A \cup I = sel.edges /\ P \cap A = {} /\ (P \cup A) \cap I = {}
  BY DEF Plain, Across, Inside
<1>3. Counted(P) /\ Counted(A) /\ Counted(I)
  <2>1. P \subseteq sel.edges /\ A \subseteq sel.edges /\ I \subseteq sel.edges
    BY <1>2
  <2>. QED
    BY <1>1, <2>1, FS_Subset DEF Counted
<1>4. n = Sites(I)
  BY <1>1, InternalSites
<1>5. Layout(sel, opened).edges = P
  BY <1>1, LayoutParts
<1>6. Carried(sel, opened, B) = A
  <2>1. \A e \in A : Key(sel, opened, e) \in Keys(sel, opened)
    BY DEF Keys
  <2>2. \A k \in Keys(sel, opened) : \E a \in B : a.key = k
    BY BundlesAre
  <2>. QED
    BY <2>1, <2>2 DEF Carried
<1>7. Sites(B) = Sites(Carried(sel, opened, B))
  BY <1>1, BundleSites
<1>8. Counted(Rolled(sel)) /\ Counted(Inherited(sel)) /\ Rolled(sel) \cup Inherited(sel) = sel.edges
      /\ Rolled(sel) \cap Inherited(sel) = {}
  <2>1. Rolled(sel) \subseteq sel.edges /\ Inherited(sel) \subseteq sel.edges
    BY ProtocolParts
  <2>. QED
    BY <1>1, <2>1, ProtocolParts, FS_Subset DEF Counted
<1>9. Sites(Rolled(sel)) = Sites(Crossing(sel.nodes))
  <2>1. IsFiniteSet(RolledUp(graph, sel.nodes, lead))
    BY ProtocolParts DEF Rolled
  <2>2. Sites(Rolled(sel)) = Sites({e \in Crossing(sel.nodes) : \E r \in Rolled(sel) : Ends(e) = <<r.from, r.to>>})
    BY <1>1, <2>1, RolledUpSites DEF Rolled
  <2>3. {e \in Crossing(sel.nodes) : \E r \in Rolled(sel) : Ends(e) = <<r.from, r.to>>} = Crossing(sel.nodes)
    BY <1>1, RolledUpAre DEF Rolled
  <2>. QED
    BY <2>2, <2>3, Zenon
<1>. HIDE DEF P, A, I, B, n
<1>10. Sites(P \cup A) = Sites(P) + Sites(A) /\ Counted(P \cup A) /\ Sites(P) \in Nat /\ Sites(A) \in Nat
  BY <1>2, <1>3, SitesOfUnion
<1>11. Sites(P \cup A \cup I) = Sites(P \cup A) + Sites(I) /\ Sites(I) \in Nat
  BY <1>2, <1>3, <1>10, SitesOfUnion
<1>12. Sites(Rolled(sel) \cup Inherited(sel)) = Sites(Rolled(sel)) + Sites(Inherited(sel))
  BY <1>8, SitesOfUnion
<1>13. Sites(P) + Sites(B) + n = Sites(Crossing(sel.nodes)) + Sites(Inherited(sel))
  <2>1. Sites(B) = Sites(A)
    BY <1>6, <1>7, Zenon
  <2>2. Sites(sel.edges) = Sites(P \cup A) + Sites(I)
    BY <1>2, <1>11, Zenon
  <2>3. Sites(sel.edges) = Sites(Crossing(sel.nodes)) + Sites(Inherited(sel))
    BY <1>8, <1>9, <1>12, Zenon
  <2>. QED
    BY <1>4, <1>10, <1>11, <2>1, <2>2, <2>3
<1>. QED
  BY <1>5, <1>13, Zenon DEF B, n

-----------------------------------------------------------------------------
(* The theorems. *)

LEMMA Invariance == Spec => []IInv
<1>1. Init => IInv
  BY DEF Init, IInv
<1>. QED
  BY <1>1, StepKeeps, PTL DEF Spec

(* aggregate.ts:561-600 — for any graph, any directories and any cap, the map *)
(* answered is under the cap, and when the engine chose what to open no      *)
(* directory it left shut could be opened under it.                          *)
THEOREM OpenedAsFarAsItFits == Spec => []OpensAsFarAsItFits
<1>1. IInv => OpensAsFarAsItFits
  <2>. SUFFICES ASSUME IInv, pc = "answered", Clustered(asked)
                PROVE  /\ Elements(Drawing) <= asked.cap
                       /\ asked.auto => \A d \in Drawing.collapsed : ~Fits(Selected, open \cup {d})
    BY DEF OpensAsFarAsItFits
  <2>1. graph \in Graphs /\ MapFits /\ AllTried /\ queue = {}
    BY DEF IInv
  <2>2. Drawing = Layout(Selected, open) /\ Drawing.collapsed = Present(Selected, open) \ open
    BY <2>1, MapIsDrawable, LayoutParts DEF Drawing, Selected
  <2>. QED
    BY <2>1, <2>2 DEF MapFits, AllTried, Fits
<1>. QED
  BY <1>1, Invariance, PTL

(* aggregate.ts:157-180, 441-457 — for any graph, any directories and any cap, *)
(* feeding back what an answer says is open gives the same map, and closing  *)
(* any directory of it is never refused.                                     *)
THEOREM ClosingIsNeverRefused == Spec => []ClosingIsAWayOut
<1>1. IInv => ClosingIsAWayOut
  BY DEF IInv, ClosingIsAWayOut
<1>. QED
  BY <1>1, Invariance, PTL

(* inspect.ts:41-508, traverse.ts:99-173, lenses.ts:89-148 — the             *)
(* queries walk the edges each in their own way and tell one story, for any  *)
(* graph whose edges have their ends in it.                                  *)
THEOREM TheQueriesTellOneStory == Spec => []OneStory
<1>1. ASSUME NEW g \in Graphs, NEW a \in Nodes(g)
      PROVE  /\ {h.id : h \in Traverse(g, a, "callees", 1)}
                  = {r.id : r \in {x \in Outgoing(g, a) : x.kind \in CallKinds}} \ {a}
             /\ {h.id : h \in Traverse(g, a, "callers", 1)}
                  = {r.id : r \in {x \in Incoming(g, a) : x.kind \in CallKinds}} \ {a}
             /\ FileLens(g, a).callers = {r.id : r \in {x \in Incoming(g, a) : x.kind = "calls"}}
  <2>1. Outgoing(g, a) = RelationsOut(g, a, TRUE, FALSE) /\ Incoming(g, a) = RelationsIn(g, a, TRUE, FALSE)
    BY Zenon DEF Outgoing, Incoming, RelationsOut, RelationsIn
  <2>2. PICK yes, no : yes = TRUE /\ no = FALSE
    OBVIOUS
  <2>3. Outgoing(g, a) = RelationsOut(g, a, yes, no) /\ Incoming(g, a) = RelationsIn(g, a, yes, no)
    BY <2>1, <2>2, Zenon
  <2>4. PICK out, in : out = RelationsOut(g, a, yes, no) /\ in = RelationsIn(g, a, yes, no)
    OBVIOUS
  <2>5. /\ {r.id : r \in {x \in out : x.kind \in CallKinds}} = Neighbours(g, a, "callees")
        /\ {r.id : r \in {x \in in : x.kind \in CallKinds}} = Neighbours(g, a, "callers")
        /\ FileLens(g, a).callers = {r.id : r \in {x \in in : x.kind = "calls"}}
    BY <2>4, CallRelations
  <2>6. Outgoing(g, a) = out /\ Incoming(g, a) = in
    BY <2>3, <2>4
  <2>7. /\ {r.id : r \in {x \in Outgoing(g, a) : x.kind \in CallKinds}} = Neighbours(g, a, "callees")
        /\ {r.id : r \in {x \in Incoming(g, a) : x.kind \in CallKinds}} = Neighbours(g, a, "callers")
        /\ FileLens(g, a).callers = {r.id : r \in {x \in Incoming(g, a) : x.kind = "calls"}}
    BY <2>5, <2>6
  <2>8. /\ {h.id : h \in Traverse(g, a, "callees", 1)} = Neighbours(g, a, "callees") \ {a}
        /\ {h.id : h \in Traverse(g, a, "callers", 1)} = Neighbours(g, a, "callers") \ {a}
    BY OneHopAway
  <2>. QED
    BY <2>7, <2>8, Zenon
<1>2. ASSUME NEW g \in Graphs, NEW a \in Nodes(g)
      PROVE  AccessorsOf(g, a, "writes") = {f \in OfKind(g, "Function") : a \in FileLens(g, f).writes}
  <2>1. \A e \in g.edge : e.from \in Nodes(g)
    BY GraphAssumption
  <2>2. \A f : a \in FileLens(g, f).writes <=> \E e \in g.edge : e.kind = "writes" /\ e.from = f /\ e.to = a
    BY DEF FileLens
  <2>. QED
    BY <2>1, <2>2 DEF AccessorsOf, OfKind
<1>3. ASSUME NEW g \in Graphs
      PROVE  /\ GraphStats(g).unprotected = Cardinality(Externals(g, TRUE, FALSE))
             /\ GraphStats(g).callable = Cardinality(Externals(g, FALSE, FALSE))
             /\ UnresolvedEdges(g) \subseteq g.edge
  <2>1. Externals(g, TRUE, FALSE) = {f \in Nodes(g) : Callable(g.node[f]) /\ g.node[f].mut \notin {"view", "pure"}
                                                                        /\ g.node[f].guard = "none"}
    BY DEF Externals
  <2>2. Externals(g, FALSE, FALSE) = {f \in Nodes(g) : Callable(g.node[f])}
    BY DEF Externals
  <2>. QED
    BY <2>1, <2>2 DEF GraphStats, UnresolvedEdges
<1>4. IInv => graph \in Graphs
  BY DEF IInv
<1>5. IInv => OneStory
  <2>. SUFFICES ASSUME graph \in Graphs PROVE OneStory
    BY <1>4
  <2>1. \A a, b \in Nodes(graph) : \A v \in BOOLEAN, k \in EdgeKinds :
           (\E r \in Outgoing(graph, a) : r.id = b /\ r.virtual = v /\ r.kind = k)
             <=> (\E r \in Incoming(graph, b) : r.id = a /\ r.virtual = v /\ r.kind = k)
    <3>. SUFFICES ASSUME NEW a \in Nodes(graph), NEW b \in Nodes(graph), NEW v \in BOOLEAN, NEW k \in EdgeKinds
                  PROVE  (\E r \in Outgoing(graph, a) : r.id = b /\ r.virtual = v /\ r.kind = k)
                           <=> (\E r \in Incoming(graph, b) : r.id = a /\ r.virtual = v /\ r.kind = k)
      BY Zenon
    <3>. QED
      BY BothEndsAgree
  <2>2. \A a \in Nodes(graph) :
          /\ {h.id : h \in Traverse(graph, a, "callees", 1)}
               = {r.id : r \in {x \in Outgoing(graph, a) : x.kind \in CallKinds}} \ {a}
          /\ {h.id : h \in Traverse(graph, a, "callers", 1)}
               = {r.id : r \in {x \in Incoming(graph, a) : x.kind \in CallKinds}} \ {a}
          /\ FileLens(graph, a).callers = {r.id : r \in {x \in Incoming(graph, a) : x.kind = "calls"}}
    BY <1>1, Zenon
  <2>3. \A a \in Nodes(graph) : \A h \in Traverse(graph, a, "callers", Cardinality(Nodes(graph))) :
           CallPathLength(graph, h.id, a) = h.depth
    BY CallersReachIt, Zenon
  <2>4. \A a \in Nodes(graph) :
           AccessorsOf(graph, a, "writes") = {f \in OfKind(graph, "Function") : a \in FileLens(graph, f).writes}
    BY <1>2, Zenon
  <2>5. /\ GraphStats(graph).unprotected = Cardinality(Externals(graph, TRUE, FALSE))
        /\ GraphStats(graph).callable = Cardinality(Externals(graph, FALSE, FALSE))
        /\ UnresolvedEdges(graph) \subseteq graph.edge
    BY <1>3, Zenon
  <2>. QED
    BY <2>1, <2>2, <2>3, <2>4, <2>5, Zenon DEF OneStory
<1>. QED
  BY <1>5, Invariance, PTL

(* views.ts:111-180, aggregate.ts:348-439 — for any graph, any directories   *)
(* and any request, a protocol map that is answered has between two of its   *)
(* elements exactly the call sites between what they stand for, no more      *)
(* certain than the least certain of them, and hides exactly those inside    *)
(* what stands in one directory.                                             *)
THEOREM NoCallSiteIsLost == Spec => []CallSitesConserved
<1>1. IInv => CallSitesConserved
  <2>. SUFFICES ASSUME IInv, pc = "answered", Clustered(asked) PROVE CallSitesConserved
    BY DEF CallSitesConserved
  <2>. DEFINE sel == Selected
              stand == [c \in sel.nodes |-> Representative(sel, open, c)]
              cross == {e \in Calls(graph.edge) :
                          LET tail == ContainerOf(graph, e.from) head == ContainerOf(graph, e.to)
                          IN  tail # head /\ {tail, head} \subseteq sel.nodes}
              ends(e) == <<stand[ContainerOf(graph, e.from)], stand[ContainerOf(graph, e.to)]>>
              pairs == {ends(e) : e \in cross}
              under(p) == {e \in cross : ends(e) = p}
              drawn(p) == {e \in Calls(Drawing.edges) : <<e.from, e.to>> = p}
              lifted(p) == {a \in Drawing.aggregates : <<a.key[2], a.key[3]>> = p /\ a.key[1] \in CallKinds}
              bases(x) == {e \in sel.edges : e.kind = "inherits" /\ stand[e.from] = x /\ stand[e.to] = x}
              derived == {e \in sel.edges : e.kind = "inherits"}
  <2>1. graph \in Graphs /\ open \in SUBSET Dirs /\ UpClosed(open)
    BY DEF IInv, MapFits
  <2>2. Protocol(sel)
    <3>1. Drawable(sel)
      BY <2>1, MapIsDrawable DEF Selected
    <3>2. sel.nodes = Contracts(graph, asked.tests)
          /\ sel.edges = Induced(graph, Contracts(graph, asked.tests), {"inherits"})
                           \cup RolledUp(graph, Contracts(graph, asked.tests), lead)
      BY DEF Selected, SelectView, ProtocolView, Selection, Clustered
    <3>3. sel.edges = Induced(graph, sel.nodes, {"inherits"}) \cup Rolled(sel)
      BY <3>2, Zenon DEF Rolled
    <3>. QED
      BY <3>1, <3>3 DEF Protocol
  <2>3. Drawing = Layout(sel, open) /\ Drawing.edges = Plain(sel, open)
    BY <2>2, LayoutParts DEF Drawing, Protocol
  <2>4. stand = Rep(sel, open)
    BY DEF Rep
  <2>5. cross = Crossing(sel.nodes)
    BY DEF Crossing, Ends
  <2>6. \A e : ends(e) = <<Rep(sel, open)[Ends(e)[1]], Rep(sel, open)[Ends(e)[2]]>>
    BY <2>4 DEF Ends
  <2>7. derived = Inherited(sel)
    BY DEF Inherited
  <2>8. ASSUME NEW p \in pairs
        PROVE  /\ under(p) = Under(sel, open, p) /\ under(p) # {}
               /\ drawn(p) = Drawn(sel, open, p) /\ lifted(p) = Lifted(sel, open, p)
               /\ p = <<p[1], p[2]>>
    <3>1. under(p) = Under(sel, open, p) /\ under(p) # {}
      BY <2>5, <2>6 DEF Under
    <3>2. drawn(p) = Drawn(sel, open, p)
      BY <2>3 DEF Drawn
    <3>3. lifted(p) = Lifted(sel, open, p)
      BY <2>3 DEF Lifted
    <3>4. p = <<p[1], p[2]>>
      OBVIOUS
    <3>. QED
      BY <3>1, <3>2, <3>3, <3>4
  <2>9. \A x : bases(x) = {e \in Inherited(sel) : Stand(sel, open, e) = <<x, x>>}
    BY <2>4 DEF Inherited, Stand
  <2>. HIDE DEF stand, cross, ends, under, drawn, lifted, bases, derived, pairs, sel
  <2>10. ASSUME NEW p \in pairs, p[1] # p[2]
         PROVE  /\ Sites(under(p)) = Sites(drawn(p)) + Sites(lifted(p))
                /\ \E e \in drawn(p) \cup lifted(p) : \A u \in under(p) : Rank(u.res) <= Rank(e.res)
    BY <2>2, <2>8, <2>10, SitesBetween, LeastCertainBetween
  <2>11. ASSUME NEW p \in pairs, p[1] = p[2]
         PROVE  Drawing.internal[p[1]] = Sites(under(p)) + Sites(bases(p[1]))
    <3>1. p = <<p[1], p[1]>> /\ Under(sel, open, <<p[1], p[1]>>) # {} /\ under(p) = Under(sel, open, <<p[1], p[1]>>)
      BY <2>8, <2>11, Zenon
    <3>2. Layout(sel, open).internal[p[1]]
            = Sites(Under(sel, open, <<p[1], p[1]>>))
                + Sites({e \in Inherited(sel) : Stand(sel, open, e) = <<p[1], p[1]>>})
      BY <2>1, <2>2, <3>1, SitesInside
    <3>3. bases(p[1]) = {e \in Inherited(sel) : Stand(sel, open, e) = <<p[1], p[1]>>}
      BY <2>9
    <3>. QED
      BY <2>3, <3>1, <3>2, <3>3, Zenon
  <2>12. Sites(Drawing.edges) + Sites(Drawing.aggregates) + MapThenSumSet(LAMBDA x : Drawing.internal[x], Drawing.dirs)
           = Sites(cross) + Sites(derived)
    <3>1. Sites(Drawing.edges) + Sites(Drawing.aggregates) + Hidden(Drawing)
            = Sites(Crossing(sel.nodes)) + Sites(Inherited(sel))
      BY <2>1, <2>2, <2>3, SitesInAll
    <3>2. MapThenSumSet(LAMBDA x : Drawing.internal[x], Drawing.dirs) = Hidden(Drawing)
      BY DEF Hidden
    <3>. QED
      BY <2>5, <2>7, <3>1, <3>2, Zenon
  <2>. QED
    BY <2>10, <2>11, <2>12 DEF CallSitesConserved, sel, stand, cross, ends, under, drawn, lifted, bases, derived, pairs
<1>. QED
  BY <1>1, Invariance, PTL
=============================================================================
