---------------------------- MODULE EditorSession ----------------------------
(***************************************************************************)
(* packages/vscode/src/session.ts: the one graph a workspace folder holds, *)
(* its single-flight load, and the artifact watch of extension.ts that     *)
(* drives it.  One action is one uninterrupted run of the extension host's *)
(* event loop: a load decides between artifact and build synchronously,    *)
(* reads the sources later, and publishes in a last run.                   *)
(***************************************************************************)
EXTENDS Integers, FiniteSets

CONSTANTS Callers,        \* whoever calls ready() or reload() and awaits it
          None, Torn,
          MaxEdits,       \* bound on saves of Solidity sources
          MaxAudits,      \* bound on rewrites of review.json / findings.json
          MaxLoads,       \* bound on calls of #load
          BuildMayFail    \* whether buildProjectGraph may throw

ASSUME BoundsAssumption ==
  /\ MaxEdits \in Nat /\ MaxAudits \in Nat /\ MaxLoads \in Nat
  /\ BuildMayFail \in BOOLEAN
ASSUME NoneAssumption == None \notin Int /\ Torn \notin Int /\ None # Torn

VARIABLES
  sources,   \* version of the Solidity sources on disk
  artifact,  \* .axiomap/graph.json: the version it describes (None: no file),
             \* and whether no source is newer than the file
  cli,       \* `axiomap build` in a terminal: None, or the version it has read
  audit,     \* version of the audit-state files
  torn,      \* one of them is truncated and not yet rewritten
  events,    \* file events the watcher has not delivered yet
  state,     \* #state: its graph (None: #state is null) and its audit state
  loading,   \* #loading: None or the load every caller shares
  loads,     \* the #load calls in flight: the version read so far, or None
  started,   \* how many #load calls there have been
  call       \* what each caller is doing

disk == <<sources, artifact, cli, audit, torn>>
session == <<state, loading, loads, started>>
vars == <<disk, events, session, call>>

Versions == 0..MaxEdits
Audits == 0..MaxAudits \cup {Torn}
LoadIds == 1..MaxLoads

Artifact == [graph : Versions \cup {None}, current : BOOLEAN]
State == [graph : Versions, audit : Audits] \cup {[graph |-> None, audit |-> None]}
(* load and asked are 0 unless waiting; own: it started the load it awaited; *)
(* fresh: the graph it got is no older than the sources were when it asked.  *)
Call == [op : {"ready", "reload"}, st : {"idle", "waiting", "done", "failed"},
         load : 0..MaxLoads, own : BOOLEAN, asked : Versions, fresh : BOOLEAN]

IdleCall ==
  [op |-> "ready", st |-> "idle", load |-> 0, own |-> FALSE, asked |-> 0, fresh |-> TRUE]

TypeOK ==
  /\ sources \in Versions
  /\ artifact \in Artifact
  /\ cli \in Versions \cup {None}
  /\ audit \in 0..MaxAudits
  /\ torn \in BOOLEAN
  /\ events \subseteq {"graph", "audit"}
  /\ state \in State
  /\ loading \in LoadIds \cup {None}
  /\ started \in 0..MaxLoads
  /\ \E L \in SUBSET LoadIds : loads \in [L -> Versions \cup {None}]
  /\ call \in [Callers -> Call]

Init ==
  /\ sources = 0
  /\ artifact = [graph |-> None, current |-> FALSE]
  /\ cli = None
  /\ audit = 0
  /\ torn = FALSE
  /\ events = {}
  /\ state = [graph |-> None, audit |-> None]
  /\ loading = None
  /\ loads = [l \in {} |-> None]
  /\ started = 0
  /\ call = [c \in Callers |-> IdleCall]

-----------------------------------------------------------------------------
(* The world outside the editor. *)

(* A save: the sources are now newer than any artifact on disk. *)
Edit ==
  /\ sources < MaxEdits
  /\ sources' = sources + 1
  /\ artifact' = [artifact EXCEPT !.current = FALSE]
  /\ UNCHANGED <<cli, audit, torn, events, session, call>>

(* `axiomap build` reads the sources, and some time later writes the file,  *)
(* whose mtime is then newer than every save made while it was building.    *)
CliBuildReads ==
  /\ cli = None
  /\ cli' = sources
  /\ UNCHANGED <<sources, artifact, audit, torn, events, session, call>>

CliBuildWrites ==
  /\ cli # None
  /\ artifact' = [graph |-> cli, current |-> TRUE]
  /\ cli' = None
  /\ events' = events \cup {"graph"}
  /\ UNCHANGED <<sources, audit, torn, session, call>>

(* writeReview and writeFindings truncate the file, then fill it; either    *)
(* half may reach the watcher as an event of its own.                       *)
AuditWriteBegins ==
  /\ ~torn /\ audit < MaxAudits
  /\ torn' = TRUE
  /\ events' = events \cup {"audit"}
  /\ UNCHANGED <<sources, artifact, cli, audit, session, call>>

AuditWriteEnds ==
  /\ torn /\ audit < MaxAudits
  /\ torn' = FALSE
  /\ audit' = audit + 1
  /\ events' = events \cup {"audit"}
  /\ UNCHANGED <<sources, artifact, cli, session, call>>

-----------------------------------------------------------------------------
(* session.ts *)

(* readAuditFiles: a malformed file is a warning and absent audit state. *)
ReadAuditFiles == IF torn THEN Torn ELSE audit

(* Faulty: a rebuild trusts the artifact too. *)
FirstStepTrusting(rebuild) == IF artifact.graph # None THEN artifact.graph ELSE None

(* core's loadProjectGraph up to its first await: the stored artifact while *)
(* no source is newer than it, otherwise a build that has read nothing yet. *)
FirstStep(rebuild) ==
  IF ~rebuild /\ artifact.current THEN artifact.graph ELSE None

Awaiting(op, load, own) ==
  [op |-> op, st |-> "waiting", load |-> load, own |-> own, asked |-> sources,
   fresh |-> TRUE]

Answered(waiting, graph) ==
  [op |-> waiting.op, st |-> "done", load |-> 0, own |-> waiting.own, asked |-> 0,
   fresh |-> graph >= waiting.asked]

Thrown(waiting) ==
  [op |-> waiting.op, st |-> "failed", load |-> 0, own |-> waiting.own, asked |-> 0,
   fresh |-> TRUE]

(* `this.#loading ??= this.#load(rebuild)`: a caller awaits the load in      *)
(* flight, or starts one.                                                    *)
Share(c, op) ==
  /\ loading # None
  /\ call' = [call EXCEPT ![c] = Awaiting(op, loading, FALSE)]
  /\ UNCHANGED session

Start(c, op, rebuild) ==
  /\ loading = None
  /\ started < MaxLoads
  /\ started' = started + 1
  /\ loading' = started + 1
  /\ loads' = [l \in DOMAIN loads \cup {started + 1} |->
                 IF l = started + 1 THEN FirstStep(rebuild) ELSE loads[l]]
  /\ call' = [call EXCEPT ![c] = Awaiting(op, started + 1, TRUE)]
  /\ UNCHANGED state

AnswerFromState(c) ==
  /\ state.graph # None
  /\ call' = [call EXCEPT ![c] = Answered(Awaiting("ready", 0, FALSE), state.graph)]
  /\ UNCHANGED session

Ready(c) ==
  /\ call[c].st # "waiting"
  /\ \/ AnswerFromState(c)
     \/ state.graph = None /\ (Share(c, "ready") \/ Start(c, "ready", FALSE))
  /\ UNCHANGED <<disk, events>>

Reload(c) ==
  /\ call[c].st # "waiting"
  /\ Share(c, "reload") \/ Start(c, "reload", TRUE)
  /\ UNCHANGED <<disk, events>>

(* The parse pool reads the sources of load l. *)
ReadSources(l) ==
  /\ l \in DOMAIN loads
  /\ loads[l] = None
  /\ loads' = [loads EXCEPT ![l] = sources]
  /\ UNCHANGED <<disk, events, state, loading, started, call>>

(* Faulty: `then` for `finally`: a load that throws stays in the slot. *)
SettleThen(l, graph) ==
  /\ loading' = IF graph = None THEN loading ELSE None
  /\ loads' = [k \in DOMAIN loads \ {l} |-> loads[k]]
  /\ call' = [c \in Callers |->
                IF call[c].st # "waiting" \/ call[c].load # l THEN call[c]
                ELSE IF graph = None THEN Thrown(call[c])
                ELSE Answered(call[c], graph)]

(* Faulty: only the caller that started the load hears of its end. *)
SettleStarter(l, graph) ==
  /\ loading' = None
  /\ loads' = [k \in DOMAIN loads \ {l} |-> loads[k]]
  /\ call' = [c \in Callers |->
                IF call[c].st # "waiting" \/ ~call[c].own THEN call[c]
                ELSE IF graph = None THEN Thrown(call[c])
                ELSE Answered(call[c], graph)]

(* The end of load l: `finally` clears the slot and everyone awaiting it      *)
(* continues, with its graph or (None) with what it threw.                   *)
Settle(l, graph) ==
  /\ loading' = None
  /\ loads' = [k \in DOMAIN loads \ {l} |-> loads[k]]
  /\ call' = [c \in Callers |->
                IF call[c].st # "waiting" \/ call[c].load # l THEN call[c]
                ELSE IF graph = None THEN Thrown(call[c])
                ELSE Answered(call[c], graph)]

(* The audit files are read after the graph, and #state replaced. *)
LoadDone(l) ==
  /\ l \in DOMAIN loads
  /\ loads[l] # None
  /\ state' = [graph |-> loads[l], audit |-> ReadAuditFiles]
  /\ Settle(l, loads[l])
  /\ UNCHANGED <<disk, events, started>>

(* The build threw: #state is left alone.  The last load MaxLoads allows     *)
(* does not fail, so that the bound is never what keeps a graph away.        *)
LoadFail(l) ==
  /\ BuildMayFail /\ started < MaxLoads
  /\ l \in DOMAIN loads
  /\ Settle(l, None)
  /\ UNCHANGED <<disk, events, state, started>>

(* Faulty: leaving it to a load in flight; checking the audit state instead  *)
(* of the state.                                                             *)
RefreshUnlessLoading ==
  state' = IF state.graph = None \/ loading # None THEN state
           ELSE [state EXCEPT !.audit = ReadAuditFiles]
RefreshUnlessTorn ==
  state' = IF state.graph = None \/ state.audit = Torn THEN state
           ELSE [state EXCEPT !.audit = ReadAuditFiles]

RefreshAuditState ==
  state' = IF state.graph = None THEN state ELSE [state EXCEPT !.audit = ReadAuditFiles]

-----------------------------------------------------------------------------
(* extension.ts: onArtifact, which does nothing before a first graph. *)

OnGraphEvent(c) ==
  /\ "graph" \in events
  /\ events' = events \ {"graph"}
  /\ \/ state.graph = None /\ UNCHANGED <<session, call>>
     \/ /\ state.graph # None
        /\ call[c].st # "waiting"
        /\ Share(c, "reload") \/ Start(c, "reload", TRUE)
  /\ UNCHANGED disk

OnAuditEvent ==
  /\ "audit" \in events
  /\ events' = events \ {"audit"}
  /\ RefreshAuditState
  /\ UNCHANGED <<disk, loading, loads, started, call>>

Next ==
  \/ Edit \/ CliBuildReads \/ CliBuildWrites
  \/ AuditWriteBegins \/ AuditWriteEnds
  \/ \E c \in Callers : Ready(c) \/ Reload(c) \/ OnGraphEvent(c)
  \/ OnAuditEvent
  \/ \E l \in LoadIds : ReadSources(l) \/ LoadDone(l) \/ LoadFail(l)

Spec == Init /\ [][Next]_vars

(* Node runs every promise that can make progress; a write once begun ends  *)
(* and VS Code delivers the file events it has.                             *)
Fairness ==
  /\ \A l \in LoadIds : WF_vars(ReadSources(l)) /\ WF_vars(LoadDone(l) \/ LoadFail(l))
  /\ WF_vars(AuditWriteEnds)
  /\ WF_vars(OnAuditEvent)

FairSpec == Spec /\ Fairness

-----------------------------------------------------------------------------
(* Properties *)

(* session.ts:97-118 — concurrent callers share one load: the only load ever *)
(* in flight is the one in #loading, whether loads succeed or throw, and     *)
(* when none is in flight the slot is free, so a failed build never leaves a *)
(* dead promise that every later call would await.                           *)
OneLoadInFlight == DOMAIN loads = IF loading = None THEN {} ELSE {loading}

(* session.ts:97-118 — nobody awaits a load that has already settled. *)
WaitersHaveALoad ==
  \A c \in Callers : call[c].st = "waiting" => call[c].load \in DOMAIN loads

(* session.ts:106-118 — a reload that was not folded into somebody else's    *)
(* load describes sources at least as new as when it was asked for, also     *)
(* when a build in a terminal has left an artifact older than a save that    *)
(* looks newer than it.  Of one that was folded this is false.               *)
OwnReloadIsFresh ==
  \A c \in Callers :
    call[c].st = "done" /\ call[c].op = "reload" /\ call[c].own => call[c].fresh

(* session.ts:113-152 — the graph the features answer from never goes back   *)
(* to an older version of the sources, however loads and events interleave.  *)
GraphNeverGoesBack ==
  [][state.graph # None => state'.graph # None /\ state'.graph >= state.graph]_vars

(* session.ts:120-152, extension.ts:242-256 — the audit state on screen is   *)
(* the one on disk unless an event that will re-read it is still to come: no *)
(* write is missed because it landed during a load or was read half-written. *)
AuditBehindHasEvent ==
  state.graph # None /\ state.audit # ReadAuditFiles => "audit" \in events

(* session.ts:97-118 — every awaited call returns or throws. *)
EveryCallReturns == \A c \in Callers : (call[c].st = "waiting") ~> (call[c].st # "waiting")

(* extension.ts:229-256 — an audit state that could only be half-read is     *)
(* replaced by a whole one.                                                  *)
TornStateHeals == (state.audit = Torn) ~> (state.audit # Torn)

Holder == INSTANCE GraphHolder WITH held <- state

(* The session implements the holder its features rely on. *)
ImplementsHolder == Holder!Spec
=============================================================================
