--------------------------- MODULE AnalysisProofs ---------------------------
(***************************************************************************)
(* Proofs about Analysis, for every graph, setting and width of a word:    *)
(* what it keeps has its types, reachability is the least closure, a guard *)
(* is as certain as the strongest path to it, and a write after a call is  *)
(* found exactly where there is one.                                       *)
(***************************************************************************)
EXTENDS Analysis, WellFoundedInduction, TLAPS

After == phase \notin {"entry", "propagate"}

(* Nothing waits to be propagated from n. *)
Settled(n) == phase # "entry" /\ (n \notin queue \/ After)

(* Only entrypoints are propagated, each from itself, and each stays inside  *)
(* whatever is closed around it; a settled function has told its successors. *)
OnlyEntrypoints == \A f \in Functions : reach[f] \subseteq Entrypoints
EachFromItself == phase # "entry" => \A e \in Entrypoints : e \in reach[e]
Told == \A n \in Functions : Settled(n) => \A m \in Successors(n) : reach[n] \subseteq reach[m]
Inside == \A S \in SUBSET Functions :
            Closed(S) => \A f \in Functions : \A e \in reach[f] \cap S : f \in S

IInv == TypeOK /\ input \in Inputs /\ OnlyEntrypoints /\ EachFromItself /\ Told /\ Inside

(* The graph does not change: what is read of it does not either. *)
LEMMA GraphStands ==
  input' = input =>
    /\ Functions' = Functions /\ Entrypoints' = Entrypoints
    /\ Edges("modifiedBy")' = Edges("modifiedBy")
    /\ \A n : Successors(n)' = Successors(n)
BY DEF Functions, Entrypoints, Edges, Successors, Graph, DeployableScopes, Callable

(* What the worklists are filled with are functions. *)
LEMMA Ranges ==
  input \in Inputs =>
    /\ Entrypoints \subseteq Functions /\ Writers \subseteq Functions
    /\ DirectCallers \subseteq Functions
    /\ \A f : Callers(f) \subseteq Functions /\ Successors(f) \subseteq Functions
    /\ \A e \in Edges("modifiedBy") : e.from \in Functions /\ Graph.nodes[e.to].name \in Names
BY AnalysisAssumption
   DEF Entrypoints, Writers, DirectCallers, Callers, Successors, Functions, Edges, Graph

LEMMA InitHolds == Init => IInv
<1> SUFFICES ASSUME Init PROVE IInv
  OBVIOUS
<1> USE DEF Init
<1>1. TypeOK
  BY DEF TypeOK, Phases, Confidence
<1>2. \A f \in Functions : reach[f] = {}
  OBVIOUS
<1>3. OnlyEntrypoints /\ Inside
  BY <1>2 DEF OnlyEntrypoints, Inside
<1>4. EachFromItself /\ Told
  BY DEF EachFromItself, Told, Settled
<1> QED
  BY <1>1, <1>3, <1>4 DEF IInv

-----------------------------------------------------------------------------
(* Types. *)

(* access-control.ts:84-91 — what a modifier adds is evidence again. *)
LEMMA WeighType ==
  ASSUME NEW so \in [modifiers : SUBSET Names, confidence : Confidence],
         NEW name \in Names, NEW sender
  PROVE  Weigh(so, name, sender) \in [modifiers : SUBSET Names, confidence : Confidence]
BY DEF Weigh, Confidence

(* Every step of the passes keeps the types. *)
LEMMA TypeStep == TypeOK /\ input \in Inputs /\ [Next]_vars => TypeOK'
<1> SUFFICES ASSUME TypeOK, input \in Inputs, [Next]_vars PROVE TypeOK'
  OBVIOUS
<1> USE DEF TypeOK
<1>0. input' = input
  BY DEF Next, vars, FindEntrypoints, PropagateEnds, LookAtModifier, LookAtOwnBody,
         CloseExternalEnds, CloseWritesEnds, Classify, Propagate, CloseExternal, CloseWrites
<1>1. /\ Functions' = Functions /\ Entrypoints' = Entrypoints
      /\ Edges("modifiedBy")' = Edges("modifiedBy")
  BY <1>0, GraphStands
<1>2. CASE FindEntrypoints
  BY <1>1, <1>2, Ranges DEF FindEntrypoints, Phases
<1>3. CASE PropagateEnds \/ CloseExternalEnds \/ CloseWritesEnds
  BY <1>1, <1>3, Ranges DEF PropagateEnds, CloseExternalEnds, CloseWritesEnds, Phases
<1>4. CASE LookAtModifier
  <2>1. PICK e \in applied :
          /\ applied' = applied \ {e}
          /\ access' = [access EXCEPT ![e.from] = Weigh(@, Graph.nodes[e.to].name, Sender(e.to))]
    BY <1>4 DEF LookAtModifier
  <2>2. e.from \in Functions /\ Graph.nodes[e.to].name \in Names
    BY Ranges
  <2>3. access' \in [Functions -> [modifiers : SUBSET Names, confidence : Confidence]]
    BY <2>1, <2>2, WeighType
  <2> QED
    BY <1>1, <1>4, <2>1, <2>3 DEF LookAtModifier
<1>5. CASE LookAtOwnBody
  <2>1. access' \in [Functions -> [modifiers : SUBSET Names, confidence : Confidence]]
    BY <1>5 DEF LookAtOwnBody, Confidence
  <2> QED
    BY <1>1, <1>5, <2>1, Ranges DEF LookAtOwnBody, Phases
<1>6. CASE Classify
  <2>1. shape' \in [Functions -> [externalCallThenWrite : BOOLEAN, guarded : BOOLEAN]]
    BY <1>6 DEF Classify, CallThenWrite, Guarded
  <2> QED
    BY <1>1, <1>6, <2>1 DEF Classify, Phases
<1>7. ASSUME NEW f \in Functions, Propagate(f) PROVE TypeOK'
  BY <1>1, <1>7, Ranges DEF Propagate
<1>8. ASSUME NEW f \in Functions, CloseExternal(f) \/ CloseWrites(f) PROVE TypeOK'
  BY <1>1, <1>8, Ranges DEF CloseExternal, CloseWrites
<1>9. CASE UNCHANGED vars
  BY <1>1, <1>9 DEF vars
<1> QED
  BY <1>2, <1>3, <1>4, <1>5, <1>6, <1>7, <1>8, <1>9 DEF Next

-----------------------------------------------------------------------------
(* The propagation. *)

(* A successor whose set did not grow has nothing to tell. *)
LEMMA Unchanged ==
  ASSUME NEW target, NEW source, ~ Changed(target, source)
  PROVE  target \cup source = target
BY DEF Changed

(* reachability.ts:178-197 — a turn of the loop keeps the three facts: the   *)
(* function taken from the queue tells every successor what it knows, and a  *)
(* successor that learns something is queued.                                *)
LEMMA PropagateStep ==
  ASSUME IInv, NEW f \in Functions, Propagate(f)
  PROVE  OnlyEntrypoints' /\ EachFromItself' /\ Told' /\ Inside'
<1> USE DEF IInv
<1>1. /\ Functions' = Functions /\ Entrypoints' = Entrypoints
      /\ \A n : Successors(n)' = Successors(n)
  BY GraphStands DEF Propagate
<1>2. /\ phase = "propagate" /\ phase' = "propagate" /\ f \in queue
      /\ queue' = (queue \ {f}) \cup {n \in Successors(f) : Changed(reach[n], reach[f])}
      /\ \A n \in Functions :
           reach'[n] = IF n \in Successors(f) THEN reach[n] \cup reach[f] ELSE reach[n]
  BY DEF Propagate
<1>3. OnlyEntrypoints' /\ EachFromItself'
  BY <1>1, <1>2, Ranges DEF OnlyEntrypoints, EachFromItself
<1>4. Told'
  <2> SUFFICES ASSUME NEW n \in Functions, n \notin queue', NEW m \in Successors(n)
               PROVE  reach'[n] \subseteq reach'[m]
    BY <1>1, <1>2 DEF Told, Settled, After
  <2>1. m \in Functions
    BY Ranges
  <2>2. reach[m] \subseteq reach'[m] /\ (m \in Successors(f) => reach[f] \subseteq reach'[m])
    BY <1>2, <2>1
  <2>3. CASE n = f
    BY <1>2, <2>2, <2>3
  <2>4. CASE n # f
    <3>1. n \notin queue /\ reach'[n] = reach[n]
      BY <1>2, <2>4, Unchanged
    <3>2. reach[n] \subseteq reach[m]
      BY <1>2, <3>1 DEF Told, Settled
    <3> QED
      BY <2>2, <3>1, <3>2
  <2> QED
    BY <2>3, <2>4
<1>5. Inside'
  <2> SUFFICES ASSUME NEW S \in SUBSET Functions, \A n \in S : Successors(n) \subseteq S,
                      NEW n \in Functions, NEW e \in reach'[n] \cap S
               PROVE  n \in S
    BY <1>1 DEF Inside, Closed
  <2>1. Closed(S)
    BY DEF Closed
  <2>2. CASE e \in reach[n]
    BY <2>1, <2>2 DEF Inside
  <2>3. CASE n \in Successors(f) /\ e \in reach[f]
    BY <2>1, <2>3 DEF Inside
  <2> QED
    BY <1>2, <2>2, <2>3
<1> QED
  BY <1>3, <1>4, <1>5

(* Every step of the passes keeps what is known of the sets. *)
LEMMA ReachStep == IInv /\ [Next]_vars => IInv'
<1> SUFFICES ASSUME IInv, [Next]_vars PROVE IInv'
  OBVIOUS
<1> USE DEF IInv
<1>0. input' = input
  BY DEF Next, vars, FindEntrypoints, PropagateEnds, LookAtModifier, LookAtOwnBody,
         CloseExternalEnds, CloseWritesEnds, Classify, Propagate, CloseExternal, CloseWrites
<1>1. /\ Functions' = Functions /\ Entrypoints' = Entrypoints
      /\ \A n : Successors(n)' = Successors(n)
  BY <1>0, GraphStands
<1>2. TypeOK' /\ input' \in Inputs
  BY <1>0, TypeStep
<1>3. CASE FindEntrypoints
  <2>1. /\ phase' = "propagate" /\ queue' = Entrypoints
        /\ \A n \in Functions : reach'[n] = IF n \in Entrypoints THEN {n} ELSE {}
    BY <1>3 DEF FindEntrypoints
  <2>2. OnlyEntrypoints' /\ EachFromItself'
    BY <1>1, <2>1, Ranges DEF OnlyEntrypoints, EachFromItself
  <2>3. Told'
    BY <1>1, <2>1 DEF Told, Settled, After
  <2>4. \A n \in Functions : \A e \in reach'[n] : e = n
    BY <2>1
  <2>5. Inside'
    BY <1>1, <2>4 DEF Inside
  <2> QED
    BY <1>2, <2>2, <2>3, <2>5
<1>4. ASSUME reach' = reach, phase # "entry", phase' # "entry", \A n : Settled(n)' => Settled(n)
      PROVE  IInv'
  <2>1. OnlyEntrypoints' /\ EachFromItself' /\ Told'
    BY <1>1, <1>4 DEF OnlyEntrypoints, EachFromItself, Told
  <2>2. Inside'
    BY <1>1, <1>4 DEF Inside, Closed
  <2> QED
    BY <1>2, <2>1, <2>2
<1>5. CASE PropagateEnds
  BY <1>4, <1>5 DEF PropagateEnds, Settled, After
<1>6. CASE LookAtModifier \/ LookAtOwnBody \/ CloseExternalEnds \/ CloseWritesEnds \/ Classify
  BY <1>4, <1>6 DEF LookAtModifier, LookAtOwnBody, CloseExternalEnds, CloseWritesEnds, Classify,
                    Settled, After
<1>7. ASSUME NEW f \in Functions, CloseExternal(f) \/ CloseWrites(f) PROVE IInv'
  BY <1>4, <1>7 DEF CloseExternal, CloseWrites, Settled, After
<1>8. ASSUME NEW f \in Functions, Propagate(f) PROVE IInv'
  BY <1>2, <1>8, PropagateStep
<1>9. CASE UNCHANGED vars
  <2>1. OnlyEntrypoints' /\ EachFromItself' /\ Told' /\ Inside'
    BY <1>1, <1>9 DEF vars, OnlyEntrypoints, EachFromItself, Told, Settled, After, Inside, Closed
  <2> QED
    BY <1>2, <2>1
<1> QED
  BY <1>3, <1>5, <1>6, <1>7, <1>8, <1>9 DEF Next

LEMMA Invariance == Spec => []IInv
BY InitHolds, ReachStep, PTL DEF Spec

-----------------------------------------------------------------------------
(* The evidence of a guard. *)

(* What the modifier edges looked at so far say of f, the body left aside. *)
Evidence(seen, f) ==
  IF \E e \in seen : e.from = f /\ Graph.nodes[e.to].name \in input.accessControlModifiers
  THEN "high"
  ELSE IF \E e \in seen : e.from = f /\ Sender(e.to) THEN "low" ELSE "none"

EarlyPhases == {"entry", "propagate", "guards"}

Weighed ==
  phase \in EarlyPhases =>
    \A f \in Functions : access[f].confidence = Evidence(Edges("modifiedBy") \ applied, f)

GuardInv == Weighed /\ ConfidenceIsTheStrongest

(* access-control.ts:83-91 — one more modifier, whatever was seen before it: *)
(* the confidence is that of the strongest of all of them.                   *)
LEMMA WeighIsTheStronger ==
  ASSUME NEW so, NEW seen, NEW e, so.confidence = Evidence(seen, e.from)
  PROVE  Weigh(so, Graph.nodes[e.to].name, Sender(e.to)).confidence
           = Evidence(seen \cup {e}, e.from)
<1> DEFINE name == Graph.nodes[e.to].name
           listed == name \in input.accessControlModifiers
<1>1. CASE listed
  BY <1>1 DEF Weigh, Evidence
<1>2. CASE ~ listed /\ Sender(e.to)
  BY <1>2 DEF Weigh, Evidence
<1>3. CASE ~ listed /\ ~ Sender(e.to)
  BY <1>3 DEF Weigh, Evidence
<1> QED
  BY <1>1, <1>2, <1>3

(* What the graph says of modifiers does not change. *)
LEMMA EvidenceStands ==
  input' = input =>
    /\ Functions' = Functions /\ Edges("modifiedBy")' = Edges("modifiedBy")
    /\ \A n : Sender(n)' = Sender(n)
    /\ \A seen, f : Evidence(seen, f)' = Evidence(seen, f)
    /\ Graph' = Graph /\ input'.accessControlModifiers = input.accessControlModifiers
BY DEF Functions, Edges, Sender, Graph, Evidence

(* access-control.ts:93 — the function's own comparison counts when no   *)
(* modifier said anything, and only then.                                    *)
LEMMA OwnBodyIsLast ==
  ASSUME TypeOK, Weighed, LookAtOwnBody
  PROVE  ConfidenceIsTheStrongest'
<1> SUFFICES ASSUME NEW f \in Functions
             PROVE  access'[f].confidence =
                      LET modifiers == {e.to : e \in {d \in Edges("modifiedBy") : d.from = f}} IN
                      IF \E m \in modifiers : Graph.nodes[m].name \in input.accessControlModifiers
                      THEN "high"
                      ELSE IF \E m \in modifiers \cup {f} : Sender(m) THEN "low" ELSE "none"
  BY EvidenceStands DEF LookAtOwnBody, ConfidenceIsTheStrongest
<1>1. access[f].confidence = Evidence(Edges("modifiedBy"), f)
  BY DEF Weighed, EarlyPhases, LookAtOwnBody
<1>2. access[f] \in [modifiers : SUBSET Names, confidence : Confidence]
  BY DEF TypeOK
<1>3. access'[f].confidence = IF access[f].confidence = "none" /\ Sender(f) THEN "low"
                              ELSE access[f].confidence
  BY <1>2 DEF LookAtOwnBody
<1> DEFINE modifiers == {e.to : e \in {d \in Edges("modifiedBy") : d.from = f}}
<1>4. \A P : (\E m \in modifiers : m = P) <=> \E e \in Edges("modifiedBy") : e.from = f /\ e.to = P
  OBVIOUS
<1>5. (\E m \in modifiers : Graph.nodes[m].name \in input.accessControlModifiers)
        <=> \E e \in Edges("modifiedBy") :
              e.from = f /\ Graph.nodes[e.to].name \in input.accessControlModifiers
  BY <1>4
<1>6. (\E m \in modifiers : Sender(m)) <=> \E e \in Edges("modifiedBy") : e.from = f /\ Sender(e.to)
  BY <1>4
<1>7. (\E m \in modifiers \cup {f} : Sender(m)) <=> (\E m \in modifiers : Sender(m)) \/ Sender(f)
  OBVIOUS
<1> HIDE DEF modifiers
<1>8. access'[f].confidence =
        IF \E m \in modifiers : Graph.nodes[m].name \in input.accessControlModifiers THEN "high"
        ELSE IF \E m \in modifiers \cup {f} : Sender(m) THEN "low" ELSE "none"
  BY <1>1, <1>3, <1>5, <1>6, <1>7 DEF Evidence
<1> QED
  BY <1>8 DEF modifiers

(* Every step of the passes keeps what is known of the evidence. *)
LEMMA GuardStep == IInv /\ GuardInv /\ [Next]_vars => GuardInv'
<1> SUFFICES ASSUME IInv, GuardInv, [Next]_vars PROVE GuardInv'
  OBVIOUS
<1> USE DEF GuardInv
<1>0. input' = input
  BY DEF Next, vars, FindEntrypoints, PropagateEnds, LookAtModifier, LookAtOwnBody,
         CloseExternalEnds, CloseWritesEnds, Classify, Propagate, CloseExternal, CloseWrites
<1>1. ASSUME access' = access, applied' = applied,
             (phase \in EarlyPhases) = (phase' \in EarlyPhases)
      PROVE  GuardInv'
  <2>1. Weighed'
    BY <1>0, <1>1, EvidenceStands DEF Weighed
  <2>2. ConfidenceIsTheStrongest'
    BY <1>0, <1>1, EvidenceStands DEF ConfidenceIsTheStrongest, EarlyPhases
  <2> QED
    BY <2>1, <2>2
<1>2. CASE LookAtModifier
  <2>1. PICK e \in applied :
          /\ applied' = applied \ {e}
          /\ access' = [access EXCEPT ![e.from] = Weigh(@, Graph.nodes[e.to].name, Sender(e.to))]
    BY <1>2 DEF LookAtModifier
  <2> DEFINE seen == Edges("modifiedBy") \ applied
  <2>2. e.from \in Functions /\ Edges("modifiedBy") \ applied' = seen \cup {e}
    BY <2>1, Ranges DEF IInv, TypeOK
  <2>3. \A f \in Functions : access[f].confidence = Evidence(seen, f)
    BY <1>2 DEF Weighed, EarlyPhases, LookAtModifier
  <2> HIDE DEF seen
  <2>4. ASSUME NEW f \in Functions PROVE access'[f].confidence = Evidence(seen \cup {e}, f)
    <3>1. CASE f = e.from
      <4>1. access'[f] = Weigh(access[f], Graph.nodes[e.to].name, Sender(e.to))
        BY <2>1, <3>1 DEF IInv, TypeOK
      <4>2. access[f].confidence = Evidence(seen, e.from)
        BY <2>3, <3>1
      <4>3. PICK so : so = access[f]
        OBVIOUS
      <4>4. Weigh(so, Graph.nodes[e.to].name, Sender(e.to)).confidence
              = Evidence(seen \cup {e}, e.from)
        BY <4>2, <4>3, WeighIsTheStronger
      <4> QED
        BY <3>1, <4>1, <4>3, <4>4
    <3>2. CASE f # e.from
      BY <2>1, <2>2, <2>3, <3>2 DEF IInv, TypeOK, Evidence
    <3> QED
      BY <3>1, <3>2
  <2>5. Weighed'
    BY <1>0, <2>2, <2>4, EvidenceStands DEF Weighed
  <2>6. ConfidenceIsTheStrongest'
    BY <1>2 DEF LookAtModifier, ConfidenceIsTheStrongest
  <2> QED
    BY <2>5, <2>6
<1>3. CASE LookAtOwnBody
  <2>1. Weighed'
    BY <1>3 DEF LookAtOwnBody, Weighed, EarlyPhases
  <2> QED
    BY <1>3, <2>1, OwnBodyIsLast DEF IInv
<1>4. CASE FindEntrypoints \/ PropagateEnds \/ CloseExternalEnds \/ CloseWritesEnds \/ Classify
  BY <1>1, <1>4 DEF EarlyPhases, FindEntrypoints, PropagateEnds, CloseExternalEnds,
                    CloseWritesEnds, Classify
<1>5. ASSUME NEW f \in Functions, Propagate(f) \/ CloseExternal(f) \/ CloseWrites(f) PROVE GuardInv'
  BY <1>1, <1>5 DEF Propagate, CloseExternal, CloseWrites
<1>6. CASE UNCHANGED vars
  BY <1>1, <1>6 DEF vars
<1> QED
  BY <1>2, <1>3, <1>4, <1>5, <1>6 DEF Next

-----------------------------------------------------------------------------
(* The closures over callers. *)

(* What closeOverCallers has done and has yet to do: it started from those,  *)
(* the callers of what is done are known, and all it knows gets to those.    *)
Traced(known, pending, those) ==
  /\ those \subseteq known \cup pending
  /\ \A f \in known : Callers(f) \subseteq known \cup pending
  /\ \A f \in known \cup pending : GetsTo(f, those)

BeforeWrites == EarlyPhases \cup {"external"}

ShapeInv ==
  /\ phase \in EarlyPhases => leaving = {}
  /\ phase \notin EarlyPhases =>
       Traced(leaving, IF phase = "external" THEN queue ELSE {}, DirectCallers)
  /\ phase \in BeforeWrites => writing = {}
  /\ phase \notin BeforeWrites => Traced(writing, IF phase = "writes" THEN queue ELSE {}, Writers)
  /\ phase = "done" => \A f \in Functions : shape[f].externalCallThenWrite = CallThenWrite(f)

(* A function gets where it is, and where what it calls gets. *)
LEMMA GetsToItself ==
  ASSUME NEW those, NEW f \in those
  PROVE  GetsTo(f, those)
BY DEF GetsTo

LEMMA GetsToThroughACall ==
  ASSUME NEW those, NEW e \in Edges("calls"), e.to \in Functions, GetsTo(e.to, those)
  PROVE  GetsTo(e.from, those)
BY DEF GetsTo

(* The seeds are where the closure starts. *)
LEMMA TraceStarts ==
  ASSUME NEW those
  PROVE  Traced({}, those, those)
BY GetsToItself DEF Traced

(* external-calls.ts:107-115 — one turn of the loop: a function taken from   *)
(* the queue is done, and its callers are known.                             *)
LEMMA TraceStep ==
  ASSUME NEW known, NEW pending \in SUBSET Functions, NEW those, NEW f \in pending,
         Traced(known, pending, those)
  PROVE  Traced(known \cup {f}, (pending \cup Callers(f)) \ (known \cup {f}), those)
<1> DEFINE after == known \cup {f}
           left == (pending \cup Callers(f)) \ after
<1>1. after \cup left = known \cup pending \cup Callers(f)
  OBVIOUS
<1>2. \A g \in Callers(f) : GetsTo(g, those)
  BY GetsToThroughACall DEF Callers, Traced
<1>3. those \subseteq after \cup left
  BY <1>1 DEF Traced
<1>4. \A g \in after : Callers(g) \subseteq after \cup left
  BY <1>1 DEF Traced
<1>5. \A g \in after \cup left : GetsTo(g, those)
  BY <1>1, <1>2 DEF Traced
<1> HIDE DEF after, left
<1>6. Traced(after, left, those)
  BY <1>3, <1>4, <1>5 DEF Traced
<1> QED
  BY <1>6 DEF after, left

(* external-calls.ts:93-116 — when nothing is left to do, what is done is     *)
(* what gets to the seeds: the others are closed under calls and have none.  *)
LEMMA TraceEnds ==
  ASSUME NEW known \in SUBSET Functions, NEW those, Traced(known, {}, those), NEW f \in Functions
  PROVE  f \in known <=> GetsTo(f, those)
<1>1. ASSUME f \notin known PROVE ~ GetsTo(f, those)
  <2> DEFINE others == Functions \ known
  <2>1. \A e \in Edges("calls") : e.from \in others /\ e.to \in Functions => e.to \in others
    BY DEF Traced, Callers
  <2>2. f \in others /\ others \cap those = {} /\ others \in SUBSET Functions
    BY <1>1 DEF Traced
  <2> HIDE DEF others
  <2> QED
    BY <2>1, <2>2 DEF GetsTo
<1> QED
  BY <1>1 DEF Traced

-----------------------------------------------------------------------------
(* The shape. *)

(* A set of offsets that is not empty has an earliest. *)
LEMMA Earliest ==
  ASSUME NEW S \in SUBSET Nat, S # {}
  PROVE  \E s \in S : \A o \in S : s <= o
<1> DEFINE R == OpToRel(<, Nat)
<1>1. IsWellFoundedOn(R, Nat)
  BY NatLessThanWellFounded
<1>2. \A x, y \in Nat : x < y => <<x, y>> \in R
  BY DEF OpToRel
<1> HIDE DEF R
<1>3. PICK s \in S : \A o \in S : ~ (<<o, s>> \in R)
  BY <1>1, WFMin
<1>4. \A o \in S : ~ (o < s)
  BY <1>2, <1>3, Zenon
<1> QED
  BY <1>4

(* external-calls.ts:158-212 — the earliest call that leaves comes before    *)
(* some write exactly when some call that leaves does.                       *)
LEMMA ShapeMeans ==
  ASSUME TypeOK, input \in Inputs, NEW f \in Functions,
         Traced(leaving, {}, DirectCallers), Traced(writing, {}, Writers)
  PROVE  CallThenWrite(f) <=>
           \E c \in Edges("calls"), w \in Edges("calls") \cup Edges("writes") :
             /\ c.from = f /\ w.from = f
             /\ \E s \in c.sites, t \in w.sites : s < t
             /\ c.subkind \in Direct \/ (c.to \in Functions /\ GetsTo(c.to, DirectCallers))
             /\ w.kind = "writes" \/ (w.to \in Functions /\ GetsTo(w.to, Writers))
<1> DEFINE Out(c) == c.subkind \in Direct \/ (c.to \in Functions /\ GetsTo(c.to, DirectCallers))
           Wrote(w) == w.kind = "writes" \/ (w.to \in Functions /\ GetsTo(w.to, Writers))
<1>1. leaving \in SUBSET Functions /\ writing \in SUBSET Functions
  BY DEF TypeOK
<1>2. \A c \in Edges("calls") : ~ IsInternal(c) <=> Out(c)
  BY <1>1, TraceEnds DEF IsInternal
<1>3. \A w \in Edges("calls") : w.to \in writing <=> Wrote(w)
  BY <1>1, TraceEnds DEF Edges
<1>4. \A w \in Edges("writes") : Wrote(w)
  BY DEF Edges
<1> HIDE DEF Out, Wrote
<1>5. \A s : s \in ExternalSites(f) <=>
              \E c \in Edges("calls") : c.from = f /\ s \in c.sites /\ Out(c)
  BY <1>2 DEF ExternalSites
<1>6. \A t : t \in WriteSites(f) <=>
              \E w \in Edges("calls") \cup Edges("writes") : w.from = f /\ t \in w.sites /\ Wrote(w)
  BY <1>3, <1>4 DEF WriteSites
<1>7. ExternalSites(f) \in SUBSET Nat /\ WriteSites(f) \in SUBSET Nat
  BY <1>5, <1>6, AnalysisAssumption DEF Edges, Graph
<1>8. CallThenWrite(f) <=> \E s \in ExternalSites(f), t \in WriteSites(f) : s < t
  <2>1. ASSUME NEW s \in ExternalSites(f), NEW t \in WriteSites(f), s < t PROVE CallThenWrite(f)
    <3>1. PICK first \in ExternalSites(f) : \A o \in ExternalSites(f) : first <= o
      BY <1>7, Earliest
    <3>2. t > first
      BY <1>7, <2>1, <3>1
    <3> QED
      BY <3>1, <3>2 DEF CallThenWrite
  <2>2. ASSUME CallThenWrite(f) PROVE \E s \in ExternalSites(f), t \in WriteSites(f) : s < t
    BY <1>7, <2>2 DEF CallThenWrite
  <2> QED
    BY <2>1, <2>2
<1>9. CallThenWrite(f) <=>
        \E c \in Edges("calls"), w \in Edges("calls") \cup Edges("writes") :
          /\ c.from = f /\ w.from = f
          /\ \E s \in c.sites, t \in w.sites : s < t
          /\ Out(c) /\ Wrote(w)
  BY <1>5, <1>6, <1>8
<1> QED
  BY <1>9 DEF Out, Wrote

(* What the closures and the shape are read from does not change. *)
LEMMA ShapeStands ==
  input' = input =>
    /\ Functions' = Functions /\ DirectCallers' = DirectCallers /\ Writers' = Writers
    /\ \A kind : Edges(kind)' = Edges(kind)
    /\ \A f : Callers(f)' = Callers(f)
    /\ \A f, those : GetsTo(f, those)' = GetsTo(f, those)
    /\ \A known, pending, those : Traced(known, pending, those)' = Traced(known, pending, those)
    /\ leaving' = leaving /\ writing' = writing =>
         \A f : CallThenWrite(f)' = CallThenWrite(f)
<1> SUFFICES ASSUME input' = input
             PROVE  /\ Functions' = Functions /\ DirectCallers' = DirectCallers /\ Writers' = Writers
                    /\ \A kind : Edges(kind)' = Edges(kind)
                    /\ \A f : Callers(f)' = Callers(f)
                    /\ \A f, those : GetsTo(f, those)' = GetsTo(f, those)
                    /\ \A known, pending, those :
                         Traced(known, pending, those)' = Traced(known, pending, those)
                    /\ leaving' = leaving /\ writing' = writing =>
                         \A f : CallThenWrite(f)' = CallThenWrite(f)
  OBVIOUS
<1>1. /\ Functions' = Functions /\ DirectCallers' = DirectCallers /\ Writers' = Writers
      /\ \A kind : Edges(kind)' = Edges(kind)
      /\ \A f : Callers(f)' = Callers(f)
  BY DEF Functions, DirectCallers, Writers, Edges, Callers, Graph
<1>2. \A f, those : GetsTo(f, those)' = GetsTo(f, those)
  BY <1>1 DEF GetsTo
<1>3. \A known, pending, those : Traced(known, pending, those)' = Traced(known, pending, those)
  BY <1>1, <1>2 DEF Traced
<1>4. leaving' = leaving /\ writing' = writing => \A f : CallThenWrite(f)' = CallThenWrite(f)
  BY <1>1 DEF CallThenWrite, ExternalSites, WriteSites, IsInternal
<1> QED
  BY <1>1, <1>2, <1>3, <1>4

(* Every step of the passes keeps what is known of the closures. *)
LEMMA ShapeStep == IInv /\ ShapeInv /\ [Next]_vars => ShapeInv'
<1> SUFFICES ASSUME IInv, ShapeInv, [Next]_vars PROVE ShapeInv'
  OBVIOUS
<1>0. input' = input
  BY DEF Next, vars, FindEntrypoints, PropagateEnds, LookAtModifier, LookAtOwnBody,
         CloseExternalEnds, CloseWritesEnds, Classify, Propagate, CloseExternal, CloseWrites
<1>1. ASSUME leaving' = leaving, writing' = writing, phase \in EarlyPhases, phase' \in EarlyPhases
      PROVE  ShapeInv'
  BY <1>0, <1>1, ShapeStands DEF ShapeInv, EarlyPhases, BeforeWrites
<1>2. CASE FindEntrypoints \/ PropagateEnds \/ LookAtModifier
  BY <1>1, <1>2 DEF FindEntrypoints, PropagateEnds, LookAtModifier, EarlyPhases
<1>3. ASSUME NEW f \in Functions, Propagate(f) PROVE ShapeInv'
  BY <1>1, <1>3 DEF Propagate, EarlyPhases
<1>4. CASE LookAtOwnBody
  <2>1. /\ phase' = "external" /\ leaving' = {} /\ writing' = {} /\ queue' = DirectCallers
    BY <1>4 DEF LookAtOwnBody, ShapeInv, EarlyPhases, BeforeWrites
  <2> QED
    BY <1>0, <2>1, ShapeStands, TraceStarts DEF ShapeInv, EarlyPhases, BeforeWrites
<1>5. ASSUME NEW f \in Functions, CloseExternal(f) PROVE ShapeInv'
  <2>1. Traced(leaving, queue, DirectCallers) /\ writing = {}
    BY <1>5 DEF ShapeInv, CloseExternal, EarlyPhases, BeforeWrites
  <2>2. /\ phase' = "external" /\ writing' = {} /\ f \in queue /\ queue \in SUBSET Functions
        /\ leaving' = leaving \cup {f} /\ queue' = (queue \cup Callers(f)) \ (leaving \cup {f})
    BY <1>5, <2>1 DEF CloseExternal, IInv, TypeOK
  <2>3. Traced(leaving', queue', DirectCallers)
    BY <2>1, <2>2, TraceStep
  <2> QED
    BY <1>0, <2>2, <2>3, ShapeStands DEF ShapeInv, EarlyPhases, BeforeWrites
<1>6. CASE CloseExternalEnds
  <2>1. Traced(leaving, {}, DirectCallers) /\ writing = {}
    BY <1>6 DEF ShapeInv, CloseExternalEnds, EarlyPhases, BeforeWrites
  <2>2. phase' = "writes" /\ leaving' = leaving /\ writing' = {} /\ queue' = Writers
    BY <1>6, <2>1 DEF CloseExternalEnds
  <2> QED
    BY <1>0, <2>1, <2>2, ShapeStands, TraceStarts DEF ShapeInv, EarlyPhases, BeforeWrites
<1>7. ASSUME NEW f \in Functions, CloseWrites(f) PROVE ShapeInv'
  <2>1. Traced(leaving, {}, DirectCallers) /\ Traced(writing, queue, Writers)
    BY <1>7 DEF ShapeInv, CloseWrites, EarlyPhases, BeforeWrites
  <2>2. /\ phase' = "writes" /\ leaving' = leaving /\ f \in queue /\ queue \in SUBSET Functions
        /\ writing' = writing \cup {f} /\ queue' = (queue \cup Callers(f)) \ (writing \cup {f})
    BY <1>7 DEF CloseWrites, IInv, TypeOK
  <2>3. Traced(writing', queue', Writers)
    BY <2>1, <2>2, TraceStep
  <2> QED
    BY <1>0, <2>1, <2>2, <2>3, ShapeStands DEF ShapeInv, EarlyPhases, BeforeWrites
<1>8. CASE CloseWritesEnds
  <2>1. Traced(leaving, {}, DirectCallers) /\ Traced(writing, {}, Writers)
    BY <1>8 DEF ShapeInv, CloseWritesEnds, EarlyPhases, BeforeWrites
  <2>2. phase' = "classify" /\ leaving' = leaving /\ writing' = writing
    BY <1>8 DEF CloseWritesEnds
  <2> QED
    BY <1>0, <2>1, <2>2, ShapeStands DEF ShapeInv, EarlyPhases, BeforeWrites
<1>9. CASE Classify
  <2>1. Traced(leaving, {}, DirectCallers) /\ Traced(writing, {}, Writers)
    BY <1>9 DEF ShapeInv, Classify, EarlyPhases, BeforeWrites
  <2>2. phase' = "done" /\ leaving' = leaving /\ writing' = writing
    BY <1>9 DEF Classify
  <2>3. \A f \in Functions : shape'[f].externalCallThenWrite = CallThenWrite(f)
    BY <1>9 DEF Classify
  <2> QED
    BY <1>0, <2>1, <2>2, <2>3, ShapeStands DEF ShapeInv, EarlyPhases, BeforeWrites
<1>10. CASE UNCHANGED vars
  BY <1>0, <1>10, ShapeStands DEF vars, ShapeInv
<1> QED
  BY <1>2, <1>3, <1>4, <1>5, <1>6, <1>7, <1>8, <1>9, <1>10 DEF Next

-----------------------------------------------------------------------------
(* The results. *)

(* analysis/index.ts:40-46 — whatever the graph, the passes keep their       *)
(* worklists among its functions and their findings of their types.          *)
THEOREM TypeCorrect == Spec => []TypeOK
<1>1. IInv => TypeOK
  BY DEF IInv
<1> QED
  BY <1>1, Invariance, PTL

(* reachability.ts:1-40, 146-197 — for every graph, width of a word and      *)
(* order of the worklist: when the passes are over, the functions marked as  *)
(* reached by an entrypoint are the least set around it that follows the     *)
(* edges.                                                                    *)
THEOREM ReachabilityIsExact == Spec => []ReachIsExact
<1>1. IInv => ReachIsExact
  <2> SUFFICES ASSUME IInv, phase = "done"
               PROVE  /\ \A f \in Functions : reach[f] \subseteq Entrypoints
                      /\ \A e \in Entrypoints :
                           /\ e \in Reached(e) /\ Closed(Reached(e))
                           /\ \A S \in SUBSET Reached(e) :
                                e \in S /\ Closed(S) => Reached(e) \subseteq S
    BY DEF ReachIsExact
  <2>1. \A f \in Functions : reach[f] \subseteq Entrypoints
    BY DEF IInv, OnlyEntrypoints
  <2>2. ASSUME NEW e \in Entrypoints PROVE e \in Reached(e)
    BY <2>2, Ranges DEF IInv, EachFromItself, Reached
  <2>3. ASSUME NEW e \in Entrypoints PROVE Closed(Reached(e))
    BY Ranges DEF IInv, Told, Settled, After, Closed, Reached
  <2>4. ASSUME NEW e \in Entrypoints, NEW S \in SUBSET Reached(e), e \in S, Closed(S)
        PROVE  Reached(e) \subseteq S
    BY <2>4 DEF IInv, Inside, Reached
  <2> QED
    BY <2>1, <2>2, <2>3, <2>4
<1> QED
  BY <1>1, Invariance, PTL

(* access-control.ts:7-27, 77-97 — for every graph, setting and order of    *)
(* the modifiers: a function's confidence is that of its strongest evidence. *)
THEOREM ConfidenceIsThatOfTheStrongest == Spec => []ConfidenceIsTheStrongest
<1>1. Init => GuardInv
  <2>1. Init => Weighed
    BY DEF Init, Weighed, Evidence
  <2> QED
    BY <2>1 DEF GuardInv, Init, ConfidenceIsTheStrongest
<1>2. GuardInv => ConfidenceIsTheStrongest
  BY DEF GuardInv
<1> QED
  BY <1>1, <1>2, GuardStep, Invariance, PTL DEF Spec

(* external-calls.ts:15-49, 93-212 — for every graph and order of the two    *)
(* worklists: a function is marked exactly when control leaves the contract  *)
(* somewhere down one of its calls and storage is written there or down a    *)
(* later one.                                                                *)
THEOREM TheShapeIsFound == Spec => []ShapeIsFound
<1>1. Init => ShapeInv
  BY DEF Init, ShapeInv, EarlyPhases, BeforeWrites
<1>2. IInv /\ ShapeInv => ShapeIsFound
  <2> SUFFICES ASSUME IInv, ShapeInv, phase = "done", NEW f \in Functions
               PROVE  shape[f].externalCallThenWrite <=>
                        \E c \in Edges("calls"), w \in Edges("calls") \cup Edges("writes") :
                          /\ c.from = f /\ w.from = f
                          /\ \E s \in c.sites, t \in w.sites : s < t
                          /\ c.subkind \in Direct \/ (c.to \in Functions /\ GetsTo(c.to, DirectCallers))
                          /\ w.kind = "writes" \/ (w.to \in Functions /\ GetsTo(w.to, Writers))
    BY DEF ShapeIsFound
  <2>1. /\ Traced(leaving, {}, DirectCallers) /\ Traced(writing, {}, Writers)
        /\ shape[f].externalCallThenWrite = CallThenWrite(f)
    BY DEF ShapeInv, EarlyPhases, BeforeWrites
  <2> QED
    BY <2>1, ShapeMeans DEF IInv
<1> QED
  BY <1>1, <1>2, ShapeStep, Invariance, PTL DEF Spec
=============================================================================
