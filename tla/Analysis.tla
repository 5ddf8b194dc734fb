------------------------------ MODULE Analysis ------------------------------
(***************************************************************************)
(* core's analyseGraph (analysis/): which functions an outsider can reach, *)
(* which are guarded, and where control leaves a contract before a write.  *)
(* The passes run one after the other over a graph that no longer changes. *)
(* Each is a worklist or a loop, taken here one turn at a time and in any  *)
(* order the edges may have been added in.                                 *)
(***************************************************************************)
EXTENDS Integers, FiniteSets

CONSTANTS Ids,       \* node ids, as numbers: sort() is <
          None,      \* no contract
          Names,     \* of functions, and of modifiers nothing resolves to
          WordBits,  \* bits of a Uint32Array element: 32
          Inputs     \* what to analyse: a graph and the settings of section 13

VARIABLES input, phase,
          reach,    \* propagate's sets: the entrypoints known to reach each function
          queue,    \* the worklist of the pass that runs
          applied,  \* access control: the modifiedBy edges still to be looked at
          access,
          leaving,  \* reachesExternal
          writing,  \* reachesWrite
          shape     \* externalCallThenWrite and guarded of each function

vars == <<input, phase, reach, queue, applied, access, leaving, writing, shape>>

Graph == input.graph
Functions == {n \in DOMAIN Graph.nodes : Graph.nodes[n].kind = "Function"}
Edges(kind) == {e \in Graph.edges : e.kind = kind}

ASSUME AnalysisAssumption ==
  /\ Ids \subseteq Nat /\ WordBits \in Nat \ {0}
  /\ \A i \in Inputs :
       LET graph == i.graph IN
       /\ DOMAIN graph.nodes \subseteq Ids /\ IsFiniteSet(DOMAIN graph.nodes)
       /\ \A e \in graph.edges :
            /\ e.from \in DOMAIN graph.nodes /\ e.sites \subseteq Nat
            /\ e.kind \in {"calls", "modifiedBy"} => graph.nodes[e.from].kind = "Function"
            /\ e.kind = "modifiedBy" => graph.nodes[e.to].name \in Names

Phases == {"entry", "propagate", "guards", "external", "writes", "classify", "done"}
Confidence == {"none", "low", "high"}

TypeOK ==
  /\ phase \in Phases
  /\ reach \in [Functions -> SUBSET Functions]
  /\ queue \subseteq Functions
  /\ applied \subseteq Edges("modifiedBy")
  /\ access \in [Functions -> [modifiers : SUBSET Names, confidence : Confidence]]
  /\ leaving \subseteq Functions /\ writing \subseteq Functions
  /\ shape \in [Functions -> [externalCallThenWrite : BOOLEAN, guarded : BOOLEAN]]

Init ==
  /\ input \in Inputs /\ phase = "entry"
  /\ reach = [f \in Functions |-> {}]
  /\ queue = {} /\ applied = Edges("modifiedBy")
  /\ access = [f \in Functions |-> [modifiers |-> {}, confidence |-> "none"]]
  /\ leaving = {} /\ writing = {}
  /\ shape = [f \in Functions |-> [externalCallThenWrite |-> FALSE, guarded |-> FALSE]]

-----------------------------------------------------------------------------
(* reachability.ts *)

DeployableScopes ==
  LET deployable == {n \in DOMAIN Graph.nodes : /\ Graph.nodes[n].kind = "Contract"
                                                /\ Graph.nodes[n].contractKind \in {"contract", "library"}}
  IN  deployable \cup UNION {Graph.nodes[c].bases : c \in deployable}

(* A function, fallback or receive somebody outside may name. *)
Callable(f) == Graph.nodes[f].subkind = "function" /\ Graph.nodes[f].open

Entrypoints ==
  {f \in Functions :
     LET n == Graph.nodes[f] IN
     /\ n.hasBody
     /\ \/ Callable(f) /\ n.scope \in DeployableScopes \cup input.entrypoints
        \/ f \in input.entrypoints}

(* What runs when f does: callees, and whoever may implement them; modifier  *)
(* bodies; the constructor of what it creates.                               *)
Successors(f) ==
  {n \in Functions :
     \/ \E e \in Edges("calls") : e.from = f /\ n \in {e.to} \cup e.targets
     \/ \E e \in Edges("modifiedBy") : e.from = f /\ n = e.to
     \/ \E e \in Edges("creates") : /\ e.from = f /\ Graph.nodes[n].subkind = "constructor"
                                    /\ Graph.nodes[n].scope = e.to}

FindEntrypoints ==
  /\ phase = "entry" /\ phase' = "propagate"
  /\ reach' = [f \in Functions |-> IF f \in Entrypoints THEN {f} ELSE {}]
  /\ queue' = Entrypoints
  /\ UNCHANGED <<input, applied, access, leaving, writing, shape>>

(* An entrypoint's bit, and whether it is the sign bit of its word. *)
Index(e) == Cardinality({d \in Entrypoints : d < e})
IsSignBit(e) == Index(e) % WordBits = WordBits - 1

(* Faulty: the number of bits decides. *)
ChangedSize(target, source) == Cardinality(source) > Cardinality(target)

(* Faulty: whatever is visited is queued again. *)
ChangedAlways(target, source) == TRUE

(* merged !== target[i] for some word i.  An element of a Uint32Array is     *)
(* read unsigned and | answers signed: a word with its top bit set differs   *)
(* from itself.                                                              *)
Changed(target, source) ==
  \/ target \cup source # target
  \/ \E e \in target : IsSignBit(e)

(* One turn of propagate's loop. *)
Propagate(f) ==
  /\ phase = "propagate" /\ f \in queue
  /\ reach' = [n \in Functions |->
                 IF n \in Successors(f) THEN reach[n] \cup reach[f] ELSE reach[n]]
  /\ queue' = (queue \ {f}) \cup {n \in Successors(f) : Changed(reach[n], reach[f])}
  /\ UNCHANGED <<input, phase, applied, access, leaving, writing, shape>>

PropagateEnds ==
  /\ phase = "propagate" /\ queue = {} /\ phase' = "guards"
  /\ UNCHANGED <<input, reach, queue, applied, access, leaving, writing, shape>>

-----------------------------------------------------------------------------
(* access-control.ts *)

Sender(n) == n \in Functions /\ Graph.nodes[n].sender

(* Faulty: a sender check counts last. *)
WeighLast(so, name, sender) ==
  CASE name \in input.accessControlModifiers ->
         [modifiers |-> so.modifiers \cup {name}, confidence |-> "high"]
    [] name \notin input.accessControlModifiers /\ sender ->
         [modifiers |-> so.modifiers \cup {name}, confidence |-> "low"]
    [] OTHER -> so

(* What one applied modifier adds to the evidence so far. *)
Weigh(so, name, sender) ==
  CASE name \in input.accessControlModifiers ->
         [modifiers |-> so.modifiers \cup {name}, confidence |-> "high"]
    [] name \notin input.accessControlModifiers /\ sender ->
         [modifiers |-> so.modifiers \cup {name},
          confidence |-> IF so.confidence = "none" THEN "low" ELSE so.confidence]
    [] OTHER -> so

(* Functions one by one, the modifiers of each in any order. *)
LookAtModifier ==
  /\ phase = "guards"
  /\ \E e \in applied :
       /\ \A d \in applied : e.from <= d.from
       /\ applied' = applied \ {e}
       /\ access' = [access EXCEPT ![e.from] = Weigh(@, Graph.nodes[e.to].name, Sender(e.to))]
  /\ UNCHANGED <<input, phase, reach, queue, leaving, writing, shape>>

Direct == {"external", "delegatecall", "lowlevel"}

(* Functions that call out of the contract themselves. *)
DirectCallers == {e.from : e \in {c \in Edges("calls") : c.subkind \in Direct}}

(* The function's own comparison, when no modifier said anything; then the   *)
(* next pass, whose queue is the functions that call out themselves.         *)
LookAtOwnBody ==
  /\ phase = "guards" /\ applied = {} /\ phase' = "external"
  /\ access' = [f \in Functions |->
                  IF access[f].confidence = "none" /\ Sender(f)
                  THEN [access[f] EXCEPT !.confidence = "low"] ELSE access[f]]
  /\ queue' = DirectCallers
  /\ UNCHANGED <<input, reach, applied, leaving, writing, shape>>

-----------------------------------------------------------------------------
(* external-calls.ts *)

(* Faulty: the possible targets propagate too. *)
CallersOfAny(f) == {e.from : e \in {c \in Edges("calls") : f \in {c.to} \cup c.targets}}

Callers(f) == {e.from : e \in {c \in Edges("calls") : c.to = f}}

Writers == {f \in Functions : Graph.nodes[f].writes}

(* One turn of closeOverCallers. *)
CloseExternal(f) ==
  /\ phase = "external" /\ f \in queue
  /\ leaving' = leaving \cup {f}
  /\ queue' = (queue \cup Callers(f)) \ leaving'
  /\ UNCHANGED <<input, phase, reach, applied, access, writing, shape>>

CloseExternalEnds ==
  /\ phase = "external" /\ queue = {} /\ phase' = "writes"
  /\ queue' = Writers
  /\ UNCHANGED <<input, reach, applied, access, leaving, writing, shape>>

CloseWrites(f) ==
  /\ phase = "writes" /\ f \in queue
  /\ writing' = writing \cup {f}
  /\ queue' = (queue \cup Callers(f)) \ writing'
  /\ UNCHANGED <<input, phase, reach, applied, access, leaving, shape>>

CloseWritesEnds ==
  /\ phase = "writes" /\ queue = {} /\ phase' = "classify"
  /\ UNCHANGED <<input, reach, queue, applied, access, leaving, writing, shape>>

(* byEdge: control leaves at the site, or further down. *)
IsInternal(e) == e.subkind \notin Direct /\ e.to \notin leaving

ExternalSites(f) == UNION {e.sites : e \in {c \in Edges("calls") : c.from = f /\ ~ IsInternal(c)}}
WriteSites(f) ==
  UNION {e.sites : e \in {d \in Edges("writes") : d.from = f}
                         \cup {c \in Edges("calls") : c.from = f /\ c.to \in writing}}

(* The earliest call that leaves against any later write. *)
CallThenWrite(f) ==
  \E s \in ExternalSites(f) : /\ \A o \in ExternalSites(f) : s <= o
                              /\ \E t \in WriteSites(f) : t > s

Guarded(f) ==
  \E e \in Edges("modifiedBy") :
    e.from = f /\ Graph.nodes[e.to].name \in input.reentrancyGuards

Classify ==
  /\ phase = "classify" /\ phase' = "done"
  /\ shape' = [f \in Functions |->
                 [externalCallThenWrite |-> CallThenWrite(f), guarded |-> Guarded(f)]]
  /\ UNCHANGED <<input, reach, queue, applied, access, leaving, writing>>

Next ==
  \/ FindEntrypoints \/ PropagateEnds
  \/ LookAtModifier \/ LookAtOwnBody
  \/ CloseExternalEnds \/ CloseWritesEnds \/ Classify
  \/ \E f \in Functions : Propagate(f) \/ CloseExternal(f) \/ CloseWrites(f)

Spec == Init /\ [][Next]_vars

(* The passes are one synchronous run. *)
FairSpec == Spec /\ WF_vars(Next)

-----------------------------------------------------------------------------
(* Properties *)

(* Everything that runs once one of S does is in S. *)
Closed(S) == \A m \in S : Successors(m) \subseteq S

(* What the passes say runs when e does. *)
Reached(e) == {f \in Functions : e \in reach[f]}

(* reachability.ts:1-40 — a function is externally reachable through exactly *)
(* the entrypoints that lead to it, through calls, implementations, modifier *)
(* bodies and constructors, cycles or not: what e reaches is the least set   *)
(* around e that follows the edges.  Unreachable code is dimmed, so an       *)
(* entrypoint lost on the way hides live code.                               *)
ReachIsExact ==
  phase = "done" =>
    /\ \A f \in Functions : reach[f] \subseteq Entrypoints
    /\ \A e \in Entrypoints :
         /\ e \in Reached(e) /\ Closed(Reached(e))
         /\ \A S \in SUBSET Reached(e) : e \in S /\ Closed(S) => Reached(e) \subseteq S

(* An entrypoint with the top bit of a word leads to a cycle: some set       *)
(* around it has a successor for each of its members.                        *)
SignBitOnCycle ==
  \E S \in SUBSET Functions : /\ \E e \in S \cap Entrypoints : IsSignBit(e)
                              /\ \A m \in S : Successors(m) \cap S # {}

(* reachability.ts:146-197 — the propagation ends, on cycles too, as long as *)
(* no cycle is reached by an entrypoint that has the top bit of a word.      *)
EndsWithoutSignBit ==
  (phase = "propagate" /\ ~ SignBitOnCycle) ~> (phase # "propagate")

(* reachability.ts:152-153 "cycles fall out of the fixpoint rather than      *)
(* needing a visited set per source": the propagation always ends.           *)
PropagationEnds == (phase = "propagate") ~> (phase # "propagate")

(* access-control.ts:7-27 — the confidence is that of the strongest evidence *)
(* there is, in whatever order the modifiers were resolved; a modifier that  *)
(* is neither listed nor compares the sender is none.                        *)
ConfidenceIsTheStrongest ==
  phase \notin {"entry", "propagate", "guards"} =>
    \A f \in Functions :
      LET modifiers == {e.to : e \in {d \in Edges("modifiedBy") : d.from = f}} IN
      access[f].confidence =
        IF \E m \in modifiers : Graph.nodes[m].name \in input.accessControlModifiers THEN "high"
        ELSE IF \E m \in modifiers \cup {f} : Sender(m) THEN "low" ELSE "none"

(* A function f gets to through calls is one of those: every set that holds  *)
(* f and follows the calls has one.                                          *)
GetsTo(f, those) ==
  \A S \in SUBSET Functions :
    f \in S /\ (\A e \in Edges("calls") : e.from \in S /\ e.to \in Functions => e.to \in S)
      => S \cap those # {}

(* external-calls.ts:15-49 — a function is marked exactly when somewhere     *)
(* down one of its calls control leaves the contract and somewhere down a    *)
(* later call, or there, storage is written: helpers hide neither half, and  *)
(* an implementation nobody calls adds none.                                 *)
ShapeIsFound ==
  phase = "done" =>
    \A f \in Functions :
      shape[f].externalCallThenWrite <=>
        \E c \in Edges("calls"), w \in Edges("calls") \cup Edges("writes") :
          /\ c.from = f /\ w.from = f
          /\ \E s \in c.sites, t \in w.sites : s < t
          /\ c.subkind \in Direct \/ (c.to \in Functions /\ GetsTo(c.to, DirectCallers))
          /\ w.kind = "writes" \/ (w.to \in Functions /\ GetsTo(w.to, Writers))
=============================================================================
