---------------------------- MODULE EditorProofs ----------------------------
(***************************************************************************)
(* Proofs about EditorSession and EditorPanel for any callers, panels and  *)
(* bounds.                                                                 *)
(*                                                                         *)
(* First the session: its type correctness, that loads never overlap, that *)
(* the graph held never goes back, that an audit state behind the disk has *)
(* an event coming, and that the session implements GraphHolder.           *)
(*                                                                         *)
(* Then the panels: a panel that does not show what the session holds has  *)
(* something on its way to it that will tell it so; the one exception is   *)
(* the panel opened under a watcher's reload.                              *)
(*                                                                         *)
(* The argument follows each answer from the moment it is posted, about    *)
(* the state of that moment: whatever replaces the state later leaves a    *)
(* refresh behind the answer in the channel, or a caller that will post    *)
(* one (AnswersFollowed).  A load that replaces a graph was started by     *)
(* such a caller (Reloading), because ready() starts one only while there  *)
(* is no graph.  An ask that waited for the first graph may be dropped,    *)
(* but then nothing is shown yet (WaitedFirst), which needs that an ask is *)
(* in one place only (Once).                                               *)
(***************************************************************************)
EXTENDS EditorPanel, SequenceTheorems, TLAPS

(***************************************************************************)
(* The session.                                                            *)
(***************************************************************************)
(* No graph describes sources that are not there yet. *)
GraphsExist ==
  /\ artifact.graph # None => artifact.graph <= sources
  /\ cli # None => cli <= sources
  /\ state.graph # None => state.graph <= sources
  /\ \A l \in DOMAIN loads : loads[l] # None => loads[l] <= sources

(* Only a first load may read the artifact, so every later one read sources *)
(* at least as new as those of the graph held.                              *)
LoadsAreNewer ==
  state.graph # None => \A l \in DOMAIN loads : loads[l] # None => loads[l] >= state.graph

(* What a reload that started its own load has read was there when it asked. *)
OwnLoadIsNewer ==
  \A c \in Callers :
    call[c].st = "waiting" /\ call[c].op = "reload" /\ call[c].own
      => /\ call[c].asked <= sources
         /\ loads[call[c].load] # None => loads[call[c].load] >= call[c].asked

IInv ==
  /\ TypeOK
  /\ OneLoadInFlight
  /\ WaitersHaveALoad
  /\ GraphsExist
  /\ LoadsAreNewer
  /\ OwnLoadIsNewer
  /\ OwnReloadIsFresh

USE BoundsAssumption, NoneAssumption

-----------------------------------------------------------------------------
(* The state a folder is opened in satisfies every part of the invariant.    *)
THEOREM InitEstablishes == Init => IInv
<1>. SUFFICES ASSUME Init PROVE IInv
  OBVIOUS
<1>1. TypeOK
  <2>1. loads \in [{} -> Versions \cup {None}]
    BY DEF Init
  <2>2. call \in [Callers -> Call]
    BY DEF Init, IdleCall, Call, Versions
  <2>. QED
    BY <2>1, <2>2 DEF Init, TypeOK, Versions, Audits, LoadIds, Artifact, State
<1>2. OneLoadInFlight /\ WaitersHaveALoad /\ GraphsExist /\ LoadsAreNewer
  BY DEF Init, IdleCall, OneLoadInFlight, WaitersHaveALoad, GraphsExist, LoadsAreNewer
<1>3. OwnLoadIsNewer /\ OwnReloadIsFresh
  BY DEF Init, IdleCall, OwnLoadIsNewer, OwnReloadIsFresh
<1>. QED
  BY <1>1, <1>2, <1>3 DEF IInv

-----------------------------------------------------------------------------
(* Type correctness. *)

(* What joining a load does to the session's state and to the caller. *)
LEMMA JoinTypes ==
  ASSUME TypeOK, NEW c \in Callers, NEW op \in {"ready", "reload"}, NEW rebuild \in BOOLEAN,
         Share(c, op) \/ Start(c, op, rebuild)
  PROVE  /\ state' = state
         /\ loading' \in LoadIds
         /\ started' \in 0..MaxLoads
         /\ \E L \in SUBSET LoadIds : loads' \in [L -> Versions \cup {None}]
         /\ call' \in [Callers -> Call]
<1>1. CASE Share(c, op)
  <2>1. loading \in LoadIds /\ UNCHANGED session
    BY <1>1 DEF Share, TypeOK
  <2>2. Awaiting(op, loading, FALSE) \in Call
    BY <2>1 DEF Awaiting, TypeOK, Call, LoadIds
  <2>3. call' \in [Callers -> Call]
    BY <1>1, <2>2 DEF Share, TypeOK
  <2>. QED
    BY <2>1, <2>3 DEF session, TypeOK
<1>2. CASE Start(c, op, rebuild)
  <2>1. started + 1 \in LoadIds
    BY <1>2 DEF Start, TypeOK, LoadIds
  <2>2. FirstStep(rebuild) \in Versions \cup {None}
    BY DEF FirstStep, TypeOK, Artifact
  <2>3. PICK L \in SUBSET LoadIds : loads \in [L -> Versions \cup {None}]
    BY DEF TypeOK
  <2>4. loads' \in [L \cup {started + 1} -> Versions \cup {None}]
    BY <1>2, <2>2, <2>3 DEF Start
  <2>5. L \cup {started + 1} \in SUBSET LoadIds
    BY <2>1, <2>3
  <2>6. Awaiting(op, started + 1, TRUE) \in Call
    BY <2>1 DEF Awaiting, TypeOK, Call, LoadIds
  <2>7. call' \in [Callers -> Call]
    BY <1>2, <2>6 DEF Start, TypeOK
  <2>. QED
    BY <1>2, <2>1, <2>4, <2>5, <2>7 DEF Start, LoadIds, TypeOK
<1>. QED
  BY <1>1, <1>2

(* Settling a load frees the slot and turns its waiters to results.          *)
LEMMA SettleTypes ==
  ASSUME TypeOK, NEW l \in LoadIds, NEW graph \in Versions \cup {None}, Settle(l, graph)
  PROVE  /\ loading' = None
         /\ \E L \in SUBSET LoadIds : loads' \in [L -> Versions \cup {None}]
         /\ call' \in [Callers -> Call]
<1>1. PICK L \in SUBSET LoadIds : loads \in [L -> Versions \cup {None}]
  BY DEF TypeOK
<1>2. loads' \in [L \ {l} -> Versions \cup {None}]
  BY <1>1 DEF Settle
<1>3. ASSUME NEW w \in Call PROVE Thrown(w) \in Call
  BY <1>3 DEF Thrown, Call, Versions
<1>4. ASSUME NEW w \in Call, graph # None PROVE Answered(w, graph) \in Call
  BY <1>4 DEF Answered, Call, Versions
<1>5. call' \in [Callers -> Call]
  BY <1>3, <1>4 DEF Settle, TypeOK
<1>. QED
  BY <1>1, <1>2, <1>5 DEF Settle

(* No step of the session or of the world around it leaves the types. *)
THEOREM TypesPreserved == TypeOK /\ [Next]_vars => TypeOK'
<1>. SUFFICES ASSUME TypeOK, [Next]_vars PROVE TypeOK'
  OBVIOUS
<1>. USE DEF disk, session
<1>1. CASE Edit
  <2>1. artifact' \in Artifact
    BY <1>1 DEF Edit, TypeOK, Artifact
  <2>. QED
    BY <1>1, <2>1 DEF Edit, TypeOK, Versions
<1>2. CASE CliBuildReads
  BY <1>2 DEF CliBuildReads, TypeOK
<1>3. CASE CliBuildWrites
  <2>1. artifact' \in Artifact
    BY <1>3 DEF CliBuildWrites, TypeOK, Artifact
  <2>. QED
    BY <1>3, <2>1 DEF CliBuildWrites, TypeOK
<1>4. CASE AuditWriteBegins
  BY <1>4 DEF AuditWriteBegins, TypeOK
<1>5. CASE AuditWriteEnds
  <2>1. audit' \in 0..MaxAudits
    BY <1>5 DEF AuditWriteEnds, TypeOK
  <2>. QED
    BY <1>5, <2>1 DEF AuditWriteEnds, TypeOK
<1>6. ASSUME NEW c \in Callers, Ready(c) PROVE TypeOK'
  <2>1. CASE AnswerFromState(c)
    <3>1. state.graph \in Versions
      BY <2>1 DEF AnswerFromState, TypeOK, State
    <3>2. Answered(Awaiting("ready", 0, FALSE), state.graph) \in Call
      BY <3>1 DEF Answered, Awaiting, TypeOK, Call, Versions
    <3>. QED
      BY <1>6, <2>1, <3>2 DEF Ready, AnswerFromState, TypeOK
  <2>2. CASE Share(c, "ready") \/ Start(c, "ready", FALSE)
    BY <1>6, <2>2, JoinTypes DEF Ready, TypeOK
  <2>. QED
    BY <1>6, <2>1, <2>2 DEF Ready
<1>7. ASSUME NEW c \in Callers, Reload(c) PROVE TypeOK'
  <2>1. Share(c, "reload") \/ Start(c, "reload", TRUE)
    BY <1>7 DEF Reload
  <2>. QED
    BY <1>7, <2>1, JoinTypes DEF Reload, TypeOK
<1>8. ASSUME NEW c \in Callers, OnGraphEvent(c) PROVE TypeOK'
  <2>1. CASE UNCHANGED <<session, call>>
    BY <1>8, <2>1 DEF OnGraphEvent, TypeOK
  <2>2. CASE Share(c, "reload") \/ Start(c, "reload", TRUE)
    BY <1>8, <2>2, JoinTypes DEF OnGraphEvent, TypeOK
  <2>. QED
    BY <1>8, <2>1, <2>2 DEF OnGraphEvent
<1>9. CASE OnAuditEvent
  <2>1. state' \in State
    BY <1>9 DEF OnAuditEvent, RefreshAuditState, ReadAuditFiles, TypeOK, State, Audits
  <2>. QED
    BY <1>9, <2>1 DEF OnAuditEvent, TypeOK
<1>10. ASSUME NEW l \in LoadIds, ReadSources(l) PROVE TypeOK'
  <2>1. \E L \in SUBSET LoadIds : loads' \in [L -> Versions \cup {None}]
    BY <1>10 DEF ReadSources, TypeOK
  <2>. QED
    BY <1>10, <2>1 DEF ReadSources, TypeOK
<1>11. ASSUME NEW l \in LoadIds, LoadDone(l) PROVE TypeOK'
  <2>1. loads[l] \in Versions
    BY <1>11 DEF LoadDone, TypeOK
  <2>2. state' \in State
    BY <1>11, <2>1 DEF LoadDone, ReadAuditFiles, TypeOK, State, Audits
  <2>. QED
    BY <1>11, <2>1, <2>2, SettleTypes DEF LoadDone, TypeOK
<1>12. ASSUME NEW l \in LoadIds, LoadFail(l) PROVE TypeOK'
  BY <1>12, SettleTypes DEF LoadFail, TypeOK
<1>13. CASE UNCHANGED vars
  BY <1>13 DEF vars, TypeOK
<1>. QED
  BY <1>1, <1>2, <1>3, <1>4, <1>5, <1>6, <1>7, <1>8, <1>9, <1>10, <1>11, <1>12, <1>13 DEF Next

-----------------------------------------------------------------------------
(* One load at a time. *)

(* A started load is the only one; before its first await it holds at most  *)
(* what the artifact says.                                                   *)
LEMMA StartLoads ==
  ASSUME TypeOK, OneLoadInFlight, NEW c \in Callers, NEW op, NEW rebuild, Start(c, op, rebuild)
  PROVE  /\ DOMAIN loads' = {started + 1}
         /\ loads'[started + 1] = FirstStep(rebuild)
         /\ loading' = started + 1
         /\ started + 1 # None
         /\ call' = [call EXCEPT ![c] = Awaiting(op, started + 1, TRUE)]
BY DEF Start, OneLoadInFlight, TypeOK

(* Once the load in flight has ended nothing is in flight and nobody waits. *)
LEMMA SettleEmpties ==
  ASSUME TypeOK, OneLoadInFlight, WaitersHaveALoad,
         NEW l \in DOMAIN loads, NEW graph, Settle(l, graph)
  PROVE  /\ loading' = None
         /\ DOMAIN loads' = {}
         /\ \A c \in Callers : call'[c].st # "waiting"
<1>1. DOMAIN loads = {l}
  BY DEF OneLoadInFlight
<1>2. ASSUME NEW c \in Callers PROVE call'[c].st # "waiting"
  <2>1. CASE call[c].st # "waiting"
    BY <2>1 DEF Settle
  <2>2. CASE call[c].st = "waiting"
    <3>1. call[c].load = l
      BY <1>1, <2>2 DEF WaitersHaveALoad
    <3>. QED
      BY <2>2, <3>1 DEF Settle, Thrown, Answered
  <2>. QED
    BY <2>1, <2>2
<1>. QED
  BY <1>1, <1>2 DEF Settle

(* The steps that neither start nor end a load. *)
Elsewhere ==
  UNCHANGED <<loading, loads, call>>

(* Every step leaves the loads alone, starts one, joins one or moves one.     *)
LEMMA StepKinds ==
  ASSUME [Next]_vars
  PROVE  \/ Elsewhere
         \/ \E c \in Callers : AnswerFromState(c)
         \/ \E c \in Callers, op \in {"ready", "reload"} :
              /\ op = "ready" => state.graph = None
              /\ Share(c, op) \/ Start(c, op, op = "reload")
         \/ \E l \in LoadIds : ReadSources(l) \/ LoadDone(l) \/ LoadFail(l)
BY DEF Next, vars, disk, session, Elsewhere, Edit, CliBuildReads, CliBuildWrites, AuditWriteBegins,
       AuditWriteEnds, Ready, Reload, OnGraphEvent, OnAuditEvent

(* session.ts:97-118 — no step starts a second load or leaves a caller on a   *)
(* load that has settled.                                                    *)
THEOREM SingleFlightPreserved ==
  TypeOK /\ OneLoadInFlight /\ WaitersHaveALoad /\ [Next]_vars
    => OneLoadInFlight' /\ WaitersHaveALoad'
<1>. SUFFICES ASSUME TypeOK, OneLoadInFlight, WaitersHaveALoad, [Next]_vars
              PROVE  OneLoadInFlight' /\ WaitersHaveALoad'
  OBVIOUS
<1>1. CASE Elsewhere
  BY <1>1 DEF Elsewhere, OneLoadInFlight, WaitersHaveALoad
<1>2. ASSUME NEW c \in Callers, AnswerFromState(c) PROVE OneLoadInFlight' /\ WaitersHaveALoad'
  BY <1>2 DEF AnswerFromState, Answered, session, OneLoadInFlight, WaitersHaveALoad, TypeOK
<1>3. ASSUME NEW c \in Callers, NEW op, Share(c, op) PROVE OneLoadInFlight' /\ WaitersHaveALoad'
  BY <1>3 DEF Share, Awaiting, session, OneLoadInFlight, WaitersHaveALoad, TypeOK
<1>4. ASSUME NEW c \in Callers, NEW op, NEW rebuild, Start(c, op, rebuild)
      PROVE  OneLoadInFlight' /\ WaitersHaveALoad'
  <2>1. DOMAIN loads = {}
    BY <1>4 DEF Start, OneLoadInFlight
  <2>2. /\ DOMAIN loads' = {started + 1} /\ loading' = started + 1 /\ started + 1 # None
        /\ call' = [call EXCEPT ![c] = Awaiting(op, started + 1, TRUE)]
    BY <1>4, StartLoads
  <2>3. ASSUME NEW d \in Callers, call'[d].st = "waiting" PROVE call'[d].load \in DOMAIN loads'
    <3>1. d = c
      BY <2>1, <2>2, <2>3 DEF WaitersHaveALoad, TypeOK
    <3>. QED
      BY <2>2, <3>1 DEF Awaiting, TypeOK
  <2>. QED
    BY <2>2, <2>3 DEF OneLoadInFlight, WaitersHaveALoad
<1>5. ASSUME NEW l \in LoadIds, ReadSources(l) PROVE OneLoadInFlight' /\ WaitersHaveALoad'
  <2>1. DOMAIN loads' = DOMAIN loads
    BY <1>5 DEF ReadSources
  <2>. QED
    BY <1>5, <2>1 DEF ReadSources, OneLoadInFlight, WaitersHaveALoad
<1>6. ASSUME NEW l \in LoadIds, LoadDone(l) \/ LoadFail(l)
      PROVE  OneLoadInFlight' /\ WaitersHaveALoad'
  BY <1>6, SettleEmpties DEF LoadDone, LoadFail, OneLoadInFlight, WaitersHaveALoad
<1>. QED
  BY <1>1, <1>2, <1>3, <1>4, <1>5, <1>6, StepKinds

-----------------------------------------------------------------------------
(* Versions. *)

(* What a load finds on disk is no newer than the sources, and a rebuild     *)
(* takes nothing from disk.                                                  *)
LEMMA FirstStepIsOld ==
  ASSUME TypeOK, GraphsExist, NEW rebuild
  PROVE  /\ FirstStep(rebuild) # None => FirstStep(rebuild) <= sources
         /\ rebuild => FirstStep(rebuild) = None
BY DEF FirstStep, GraphsExist, TypeOK, Artifact

(* What is held, written or being read is never ahead of the sources. *)
THEOREM GraphsExistPreserved ==
  TypeOK /\ OneLoadInFlight /\ GraphsExist /\ [Next]_vars => GraphsExist'
<1>. SUFFICES ASSUME TypeOK, OneLoadInFlight, GraphsExist, [Next]_vars PROVE GraphsExist'
  OBVIOUS
<1>. USE DEF disk, session
<1>1. CASE Edit
  <2>1. /\ sources' = sources + 1 /\ artifact'.graph = artifact.graph
        /\ UNCHANGED <<cli, state, loads>>
    BY <1>1 DEF Edit, TypeOK, Artifact
  <2>2. sources \in Nat /\ artifact.graph \in Nat \cup {None} /\ cli \in Nat \cup {None}
        /\ state.graph \in Nat \cup {None}
        /\ \A l \in DOMAIN loads : loads[l] \in Nat \cup {None}
    BY DEF TypeOK, Artifact, State, Versions
  <2>. QED
    BY <2>1, <2>2 DEF GraphsExist
<1>2. CASE CliBuildReads
  BY <1>2 DEF CliBuildReads, GraphsExist, TypeOK, Versions
<1>3. CASE CliBuildWrites
  BY <1>3 DEF CliBuildWrites, GraphsExist, TypeOK
<1>4. CASE AuditWriteBegins \/ AuditWriteEnds \/ UNCHANGED vars
  BY <1>4 DEF AuditWriteBegins, AuditWriteEnds, vars, GraphsExist
<1>5. ASSUME NEW c \in Callers, NEW op, NEW rebuild, Start(c, op, rebuild),
             UNCHANGED <<disk, state>>
      PROVE  GraphsExist'
  BY <1>5, StartLoads, FirstStepIsOld DEF GraphsExist
<1>6. ASSUME NEW c \in Callers, Ready(c) \/ Reload(c) \/ OnGraphEvent(c) PROVE GraphsExist'
  <2>1. CASE UNCHANGED <<disk, session>>
    BY <2>1 DEF GraphsExist
  <2>2. CASE ~ UNCHANGED <<disk, session>>
    <3>1. PICK op \in {"ready", "reload"}, rebuild \in BOOLEAN : Start(c, op, rebuild)
      BY <1>6, <2>2 DEF Ready, Reload, OnGraphEvent, AnswerFromState, Share
    <3>2. UNCHANGED <<disk, state>>
      BY <1>6, <3>1 DEF Ready, Reload, OnGraphEvent, Start
    <3>. QED
      BY <1>5, <3>1, <3>2
  <2>. QED
    BY <2>1, <2>2
<1>7. CASE OnAuditEvent
  <2>1. state'.graph = state.graph
    BY <1>7 DEF OnAuditEvent, RefreshAuditState, TypeOK, State
  <2>. QED
    BY <1>7, <2>1 DEF OnAuditEvent, GraphsExist
<1>8. ASSUME NEW l \in LoadIds, ReadSources(l) PROVE GraphsExist'
  BY <1>8 DEF ReadSources, GraphsExist, TypeOK, Versions
<1>9. ASSUME NEW l \in LoadIds, LoadDone(l) PROVE GraphsExist'
  BY <1>9 DEF LoadDone, Settle, GraphsExist
<1>10. ASSUME NEW l \in LoadIds, LoadFail(l) PROVE GraphsExist'
  BY <1>10 DEF LoadFail, Settle, GraphsExist
<1>. QED
  BY <1>1, <1>2, <1>3, <1>4, <1>6, <1>7, <1>8, <1>9, <1>10 DEF Next

(* A graph replaced is replaced by one at least as new. *)
THEOREM LoadsAreNewerPreserved ==
  /\ TypeOK /\ OneLoadInFlight /\ WaitersHaveALoad /\ GraphsExist /\ LoadsAreNewer
  /\ [Next]_vars
  => /\ LoadsAreNewer'
     /\ state.graph # None => state'.graph # None /\ state'.graph >= state.graph
<1>. DEFINE Forward == state.graph # None => state'.graph # None /\ state'.graph >= state.graph
<1>. SUFFICES ASSUME TypeOK, OneLoadInFlight, WaitersHaveALoad, GraphsExist, LoadsAreNewer,
                     [Next]_vars
              PROVE  LoadsAreNewer' /\ Forward
  OBVIOUS
<1>. USE DEF session
<1>0. state.graph \in Nat \cup {None}
  BY DEF TypeOK, State, Versions
<1>1. ASSUME state'.graph = state.graph, loads' = loads PROVE LoadsAreNewer' /\ Forward
  BY <1>0, <1>1 DEF LoadsAreNewer
<1>2. ASSUME NEW c \in Callers, Ready(c) \/ Reload(c) \/ OnGraphEvent(c)
      PROVE  LoadsAreNewer' /\ Forward
  <2>1. CASE UNCHANGED session
    BY <1>1, <2>1
  <2>2. CASE ~ UNCHANGED session
    <3>1. PICK op \in {"ready", "reload"} :
            (op = "ready" => state.graph = None) /\ Start(c, op, op = "reload")
      BY <1>2, <2>2 DEF Ready, Reload, OnGraphEvent, AnswerFromState, Share
    <3>2. state' = state
      BY <3>1 DEF Start
    <3>3. DOMAIN loads' = {started + 1} /\ loads'[started + 1] = FirstStep(op = "reload")
      BY <3>1, StartLoads
    <3>4. state.graph # None => FirstStep(op = "reload") = None
      BY <3>1 DEF FirstStep
    <3>. QED
      BY <1>0, <3>2, <3>3, <3>4 DEF LoadsAreNewer
  <2>. QED
    BY <2>1, <2>2
<1>3. CASE OnAuditEvent
  <2>1. state'.graph = state.graph
    BY <1>3 DEF OnAuditEvent, RefreshAuditState, TypeOK, State
  <2>. QED
    BY <1>1, <1>3, <2>1 DEF OnAuditEvent
<1>4. ASSUME NEW l \in LoadIds, ReadSources(l) PROVE LoadsAreNewer' /\ Forward
  BY <1>0, <1>4 DEF ReadSources, LoadsAreNewer, GraphsExist, TypeOK, Versions
<1>5. ASSUME NEW l \in LoadIds, LoadDone(l) PROVE LoadsAreNewer' /\ Forward
  <2>1. DOMAIN loads' = {}
    BY <1>5, SettleEmpties DEF LoadDone
  <2>2. state'.graph = loads[l] /\ loads[l] # None
    BY <1>5 DEF LoadDone
  <2>. QED
    BY <1>5, <2>1, <2>2 DEF LoadDone, LoadsAreNewer
<1>6. ASSUME NEW l \in LoadIds, LoadFail(l) PROVE LoadsAreNewer' /\ Forward
  <2>1. DOMAIN loads' = {} /\ state' = state
    BY <1>6, SettleEmpties DEF LoadFail
  <2>. QED
    BY <1>0, <2>1 DEF LoadsAreNewer
<1>7. CASE UNCHANGED <<state, loads>>
  BY <1>1, <1>7
<1>. QED
  BY <1>2, <1>3, <1>4, <1>5, <1>6, <1>7
     DEF Next, vars, disk, Edit, CliBuildReads, CliBuildWrites, AuditWriteBegins, AuditWriteEnds

-----------------------------------------------------------------------------
(* A reload that started its own load. *)

(* session.ts:106-118 — no step makes a reload that began its own load, or a  *)
(* graph it was answered with, older than its asking.                        *)
THEOREM OwnReloadPreserved ==
  /\ TypeOK /\ OneLoadInFlight /\ WaitersHaveALoad /\ OwnLoadIsNewer /\ OwnReloadIsFresh
  /\ [Next]_vars
  => OwnLoadIsNewer' /\ OwnReloadIsFresh'
<1>. SUFFICES ASSUME TypeOK, OneLoadInFlight, WaitersHaveALoad, OwnLoadIsNewer,
                     OwnReloadIsFresh, [Next]_vars
              PROVE  OwnLoadIsNewer' /\ OwnReloadIsFresh'
  OBVIOUS
<1>. USE DEF disk, session
<1>1. ASSUME sources' >= sources, loads' = loads, call' = call
      PROVE  OwnLoadIsNewer' /\ OwnReloadIsFresh'
  <2>1. sources \in Nat /\ sources' \in Nat
    BY TypesPreserved DEF TypeOK, Versions
  <2>2. \A c \in Callers : call[c].asked \in Nat
    BY DEF TypeOK, Call, Versions
  <2>. QED
    BY <1>1, <2>1, <2>2 DEF OwnLoadIsNewer, OwnReloadIsFresh
<1>2. ASSUME NEW c \in Callers, NEW w, ~ w.own \/ w.op = "ready",
             call' = [call EXCEPT ![c] = w], sources' = sources, loads' = loads
      PROVE  OwnLoadIsNewer' /\ OwnReloadIsFresh'
  BY <1>2 DEF OwnLoadIsNewer, OwnReloadIsFresh, TypeOK
<1>3. ASSUME NEW c \in Callers, NEW op, NEW rebuild, op = "reload" => rebuild,
             Start(c, op, rebuild), sources' = sources
      PROVE  OwnLoadIsNewer' /\ OwnReloadIsFresh'
  <2>1. DOMAIN loads = {}
    BY <1>3 DEF Start, OneLoadInFlight
  <2>2. \A d \in Callers : call[d].st # "waiting"
    BY <2>1 DEF WaitersHaveALoad
  <2>3. /\ loads'[started + 1] = FirstStep(rebuild)
        /\ call' = [call EXCEPT ![c] = Awaiting(op, started + 1, TRUE)]
    BY <1>3, StartLoads
  <2>4. sources <= sources
    BY DEF TypeOK, Versions
  <2>5. OwnReloadIsFresh'
    BY <2>3 DEF OwnReloadIsFresh, Awaiting, TypeOK
  <2>6. op = "reload" => FirstStep(rebuild) = None
    BY <1>3 DEF FirstStep
  <2>7. OwnLoadIsNewer'
    BY <1>3, <2>2, <2>3, <2>4, <2>6 DEF OwnLoadIsNewer, Awaiting, TypeOK
  <2>. QED
    BY <2>5, <2>7
<1>4. ASSUME NEW c \in Callers, Ready(c) \/ Reload(c) \/ OnGraphEvent(c)
      PROVE  OwnLoadIsNewer' /\ OwnReloadIsFresh'
  <2>1. sources' = sources
    BY <1>4 DEF Ready, Reload, OnGraphEvent
  <2>2. CASE AnswerFromState(c)
    BY <1>2, <2>1, <2>2 DEF AnswerFromState, Answered, Awaiting
  <2>3. ASSUME NEW op, Share(c, op) PROVE OwnLoadIsNewer' /\ OwnReloadIsFresh'
    BY <1>2, <2>1, <2>3 DEF Share, Awaiting
  <2>4. ASSUME Start(c, "ready", FALSE) \/ Start(c, "reload", TRUE)
        PROVE  OwnLoadIsNewer' /\ OwnReloadIsFresh'
    BY <1>3, <2>1, <2>4
  <2>5. CASE UNCHANGED <<session, call>>
    <3>1. sources' >= sources
      BY <2>1 DEF TypeOK, Versions
    <3>. QED
      BY <1>1, <2>5, <3>1
  <2>. QED
    BY <1>4, <2>2, <2>3, <2>4, <2>5 DEF Ready, Reload, OnGraphEvent
<1>5. ASSUME NEW l \in LoadIds, ReadSources(l) PROVE OwnLoadIsNewer' /\ OwnReloadIsFresh'
  <2>1. ASSUME NEW c \in Callers, call[c].st = "waiting", call[c].op = "reload", call[c].own
        PROVE  /\ call[c].asked <= sources'
               /\ loads'[call[c].load] # None => loads'[call[c].load] >= call[c].asked
    <3>1. call[c].asked <= sources /\ call[c].load \in DOMAIN loads
      BY <2>1 DEF OwnLoadIsNewer, WaitersHaveALoad
    <3>2. sources \in Nat /\ call[c].asked \in Nat
      BY DEF TypeOK, Call, Versions
    <3>. QED
      BY <1>5, <2>1, <3>1, <3>2 DEF ReadSources, OwnLoadIsNewer
  <2>. QED
    BY <1>5, <2>1 DEF ReadSources, OwnLoadIsNewer, OwnReloadIsFresh
<1>6. ASSUME NEW l \in LoadIds, LoadDone(l) PROVE OwnLoadIsNewer' /\ OwnReloadIsFresh'
  <2>1. \A c \in Callers : call'[c].st # "waiting"
    BY <1>6, SettleEmpties DEF LoadDone
  <2>2. ASSUME NEW c \in Callers, call[c].st = "waiting", call[c].load = l,
               call[c].op = "reload", call[c].own
        PROVE  loads[l] >= call[c].asked
    BY <1>6, <2>2 DEF LoadDone, OwnLoadIsNewer
  <2>3. OwnReloadIsFresh'
    BY <1>6, <2>2 DEF LoadDone, Settle, Answered, OwnReloadIsFresh
  <2>. QED
    BY <2>1, <2>3 DEF OwnLoadIsNewer
<1>7. ASSUME NEW l \in LoadIds, LoadFail(l) PROVE OwnLoadIsNewer' /\ OwnReloadIsFresh'
  <2>1. \A c \in Callers : call'[c].st # "waiting"
    BY <1>7, SettleEmpties DEF LoadFail
  <2>2. OwnReloadIsFresh'
    BY <1>7 DEF LoadFail, Settle, Thrown, OwnReloadIsFresh
  <2>. QED
    BY <2>1, <2>2 DEF OwnLoadIsNewer
<1>8. CASE \/ Edit \/ CliBuildReads \/ CliBuildWrites \/ AuditWriteBegins \/ AuditWriteEnds
           \/ OnAuditEvent \/ UNCHANGED vars
  <2>1. sources' >= sources /\ loads' = loads /\ call' = call
    BY <1>8 DEF Edit, CliBuildReads, CliBuildWrites, AuditWriteBegins, AuditWriteEnds,
                OnAuditEvent, vars, TypeOK, Versions
  <2>. QED
    BY <1>1, <2>1
<1>. QED
  BY <1>4, <1>5, <1>6, <1>7, <1>8 DEF Next

-----------------------------------------------------------------------------
(* The theorems. *)

(* Every reachable state of the session satisfies the inductive invariant. *)
THEOREM Invariance == Spec => []IInv
<1>1. Init => IInv
  BY InitEstablishes
<1>2. IInv /\ [Next]_vars => IInv'
  BY TypesPreserved, SingleFlightPreserved, GraphsExistPreserved, LoadsAreNewerPreserved,
     OwnReloadPreserved DEF IInv
<1>. QED
  BY <1>1, <1>2, PTL DEF Spec

(* session.ts keeps its types, whatever the callers and the bounds. *)
THEOREM TypeCorrect == Spec => []TypeOK
<1>1. IInv => TypeOK
  BY DEF IInv
<1>. QED
  BY <1>1, Invariance, PTL

(* session.ts:97-118 — loads never overlap and a settled one frees the slot. *)
THEOREM SingleFlight == Spec => [](OneLoadInFlight /\ WaitersHaveALoad)
<1>1. IInv => OneLoadInFlight /\ WaitersHaveALoad
  BY DEF IInv
<1>. QED
  BY <1>1, Invariance, PTL

(* session.ts:106-118 — a reload that is not folded into another load is new. *)
THEOREM OwnReloadsAreFresh == Spec => []OwnReloadIsFresh
<1>1. IInv => OwnReloadIsFresh
  BY DEF IInv
<1>. QED
  BY <1>1, Invariance, PTL

(* session.ts:113-152 — the graph held never goes back to older sources. *)
THEOREM GraphMonotone == Spec => GraphNeverGoesBack
<1>1. IInv /\ [Next]_vars
        => [state.graph # None => state'.graph # None /\ state'.graph >= state.graph]_vars
  BY LoadsAreNewerPreserved DEF IInv
<1>. QED
  BY <1>1, Invariance, PTL DEF Spec, GraphNeverGoesBack

(* extension.ts:242-256 — whatever the audit files did, the audit state held *)
(* is the one on disk or the watcher has an event that will re-read it.      *)
THEOREM AuditIsFollowed == Spec => []AuditBehindHasEvent
<1>1. Init => AuditBehindHasEvent
  BY DEF Init, AuditBehindHasEvent
<1>2. TypeOK /\ AuditBehindHasEvent /\ [Next]_vars => AuditBehindHasEvent'
  <2>. SUFFICES ASSUME TypeOK, AuditBehindHasEvent, [Next]_vars PROVE AuditBehindHasEvent'
    OBVIOUS
  <2>. USE DEF disk, session, AuditBehindHasEvent, ReadAuditFiles
  <2>1. CASE UNCHANGED <<audit, torn, events, state>>
    BY <2>1
  <2>2. CASE AuditWriteBegins \/ AuditWriteEnds
    BY <2>2 DEF AuditWriteBegins, AuditWriteEnds
  <2>3. CASE CliBuildWrites
    BY <2>3 DEF CliBuildWrites
  <2>4. ASSUME NEW c \in Callers, OnGraphEvent(c) PROVE AuditBehindHasEvent'
    <3>1. state' = state /\ events' = events \ {"graph"} /\ UNCHANGED <<audit, torn>>
      BY <2>4 DEF OnGraphEvent, Share, Start
    <3>. QED
      BY <3>1
  <2>5. CASE OnAuditEvent
    <3>1. state.graph # None => state'.audit = ReadAuditFiles'
      BY <2>5 DEF OnAuditEvent, RefreshAuditState, TypeOK, State
    <3>2. state.graph = None => state' = state
      BY <2>5 DEF OnAuditEvent, RefreshAuditState
    <3>. QED
      BY <3>1, <3>2
  <2>6. ASSUME NEW l \in LoadIds, LoadDone(l) PROVE AuditBehindHasEvent'
    BY <2>6 DEF LoadDone
  <2>. QED
    BY <2>1, <2>2, <2>3, <2>4, <2>5, <2>6
       DEF Next, vars, Edit, CliBuildReads, Ready, Reload, AnswerFromState, Share, Start,
           ReadSources, LoadFail
<1>. QED
  BY <1>1, <1>2, TypeCorrect, PTL DEF Spec

-----------------------------------------------------------------------------
(* Refinement. *)

(* Every step of the session is a step of the holder, or none of its.        *)
LEMMA StepImplements == IInv /\ [Next]_vars => [Holder!Next]_(Holder!vars)
<1>. SUFFICES ASSUME IInv, [Next]_vars PROVE [Holder!Next]_(Holder!vars)
  OBVIOUS
<1>. USE DEF disk, session, IInv
<1>1. CASE UNCHANGED <<sources, audit, torn, state>>
  BY <1>1 DEF Holder!vars
<1>2. CASE Edit
  BY <1>2 DEF Edit, Holder!Next, Holder!Edit
<1>3. CASE AuditWriteBegins
  BY <1>3 DEF AuditWriteBegins, Holder!Next, Holder!BeginAuditWrite
<1>4. CASE AuditWriteEnds
  BY <1>4 DEF AuditWriteEnds, Holder!Next, Holder!EndAuditWrite
<1>5. CASE OnAuditEvent /\ state.graph # None
  <2>1. Holder!RefreshAudit
    BY <1>5 DEF OnAuditEvent, RefreshAuditState, ReadAuditFiles, Holder!RefreshAudit,
                Holder!AuditOnDisk
  <2>. QED
    BY <2>1 DEF Holder!Next
<1>6. ASSUME NEW l \in LoadIds, LoadDone(l) PROVE Holder!Next
  <2>1. loads[l] \in 0..sources /\ (state.graph # None => loads[l] >= state.graph)
    BY <1>6 DEF LoadDone, TypeOK, GraphsExist, LoadsAreNewer, Versions
  <2>2. Holder!Publish
    BY <1>6, <2>1 DEF LoadDone, ReadAuditFiles, Holder!Publish, Holder!AuditOnDisk
  <2>. QED
    BY <2>2 DEF Holder!Next
<1>. QED
  BY <1>1, <1>2, <1>3, <1>4, <1>5, <1>6
     DEF Next, vars, CliBuildReads, CliBuildWrites, Ready, Reload, OnGraphEvent, AnswerFromState,
         Share, Start, ReadSources, LoadFail, OnAuditEvent, RefreshAuditState

(* session.ts implements the holder its features rely on: one graph that     *)
(* only moves forward, published with the audit state on disk.               *)
THEOREM Implementation == Spec => ImplementsHolder
<1>1. Init => Holder!Init
  BY DEF Init, Holder!Init
<1>2. IInv /\ [Next]_vars => [Holder!Next]_(Holder!vars)
  BY StepImplements
<1>. QED
  BY <1>1, <1>2, Invariance, PTL DEF Spec, ImplementsHolder, Holder!Spec

-----------------------------------------------------------------------------
(***************************************************************************)
(* The panels.                                                             *)
(***************************************************************************)
Reloads == {"rebuild", "artifact"}
Messages == [kind : {"refresh", "answer"}, id : Nat, about : State]
Promises == [kind : {"none", "open", "rebuild", "artifact", "request"},
             panel : 0..MaxPanels, id : Nat]

(* The callers and the session. *)
Engaged ==
  \A c \in Callers : /\ Free(c) <=> call[c].st = "idle"
                     /\ then[c].kind = "none" => Free(c)
HasGraph == \A c \in Callers : call[c].st = "done" => state.graph # None
Reloading ==
  state.graph # None /\ loading # None
    => \E c \in Callers : /\ call[c].st = "waiting" /\ call[c].load = loading
                          /\ then[c].kind \in Reloads

(* Where an ask may be. *)
IsAnswer(i) == toUi[i].kind = "answer"
Asks(c) ==
  open # 0 /\ then[c].kind = "request" /\ then[c].panel = open /\ then[c].id = ui.asked

Closed == open = 0 => toHost = << >> /\ toUi = << >>
Older == open <= made /\ \A c \in Callers : then[c].panel <= made
Bounded ==
  /\ \A i \in DOMAIN toHost : toHost[i] \in 1..ui.asked
  /\ \A c \in Callers :
       open # 0 /\ then[c].kind = "request" /\ then[c].panel = open => then[c].id \in 1..ui.asked
  /\ \A i \in DOMAIN toUi : IsAnswer(i) => toUi[i].id \in 1..ui.asked
Once ==
  /\ \A i, j \in DOMAIN toHost : toHost[i] = ui.asked /\ toHost[j] = ui.asked => i = j
  /\ \A i \in DOMAIN toHost : toHost[i] = ui.asked =>
       /\ \A c \in Callers : ~Asks(c)
       /\ \A j \in DOMAIN toUi : IsAnswer(j) => toUi[j].id # ui.asked
  /\ \A c \in Callers : Asks(c) =>
       /\ \A d \in Callers : Asks(d) => c = d
       /\ \A j \in DOMAIN toUi : IsAnswer(j) => toUi[j].id # ui.asked

(* What is shown and what is about to be. *)
Real ==
  ui.shown.graph # None \/ (\E i \in DOMAIN toUi : IsAnswer(i)) => state.graph # None
AnswersHaveGraphs == \A i \in DOMAIN toUi : IsAnswer(i) => toUi[i].about.graph # None
Unasked == ui.asked = 0 => ui.shown.graph = None
WaitedFirst ==
  \A c \in Callers :
    Asks(c) /\ call[c].st \in {"waiting", "failed"} => ui.shown.graph = None

(* A refresh after place i of the channel, or somebody who will post one. *)
Coming == missed \/ \E c \in Callers : call[c].st = "done" /\ then[c].kind \in Reloads
Followed(i) ==
  Coming \/ \E j \in DOMAIN toUi : j > i /\ toUi[j].kind = "refresh"
AnswersFollowed ==
  open # 0 => \A i \in DOMAIN toUi : IsAnswer(i) /\ toUi[i].about # state => Followed(i)
ShownFollowed == Behind => ReplyComing \/ Followed(0)

Callings == Engaged /\ HasGraph /\ Reloading
Places == Closed /\ Older /\ Bounded /\ Once
Shown == Real /\ AnswersHaveGraphs /\ Unasked /\ WaitedFirst
PanelInv == /\ PanelTypeOK /\ OneLoadInFlight /\ WaitersHaveALoad
            /\ Callings /\ Places /\ Shown /\ AnswersFollowed /\ ShownFollowed

USE PanelsAssumption

-----------------------------------------------------------------------------
(* Channels. *)

LEMMA Appended ==
  ASSUME NEW S, NEW s \in Seq(S), NEW x \in S
  PROVE  /\ Append(s, x) \in Seq(S)
         /\ Len(s) \in Nat /\ DOMAIN s = 1..Len(s)
         /\ DOMAIN Append(s, x) = 1..(Len(s) + 1)
         /\ \A i \in DOMAIN s : Append(s, x)[i] = s[i]
         /\ Append(s, x)[Len(s) + 1] = x
OBVIOUS

LEMMA Tailed ==
  ASSUME NEW S, NEW s \in Seq(S), s # << >>
  PROVE  /\ Tail(s) \in Seq(S) /\ Head(s) \in S
         /\ 1 \in DOMAIN s /\ Head(s) = s[1]
         /\ \A i \in DOMAIN s : i \in Nat \ {0}
         /\ \A i \in DOMAIN Tail(s) : /\ i \in Nat \ {0}
                                      /\ i + 1 \in DOMAIN s /\ Tail(s)[i] = s[i + 1]
         /\ \A i \in DOMAIN s : i # 1 => i - 1 \in DOMAIN Tail(s) /\ Tail(s)[i - 1] = s[i]
<1>1. /\ Len(s) \in Nat \ {0} /\ DOMAIN s = 1..Len(s) /\ Tail(s) \in Seq(S)
      /\ DOMAIN Tail(s) = 1..(Len(s) - 1)
      /\ \A i \in 1..(Len(s) - 1) : Tail(s)[i] = s[i + 1]
      /\ Head(s) = s[1] /\ Head(s) \in S
  OBVIOUS
<1>. QED
  BY <1>1

LEMMA Emptied == ASSUME NEW S PROVE << >> \in Seq(S)
OBVIOUS

-----------------------------------------------------------------------------
(* Types *)

LEMMA Typed ==
  ASSUME PanelInv
  PROVE  /\ TypeOK /\ OneLoadInFlight /\ WaitersHaveALoad
         /\ toUi \in Seq(Messages) /\ toHost \in Seq(Nat)
         /\ then \in [Callers -> Promises] /\ call \in [Callers -> Call]
         /\ ui \in [asked : Nat, answered : Nat, shown : State] /\ state \in State
         /\ open \in 0..MaxPanels /\ made \in 0..MaxPanels
BY DEF PanelInv, PanelTypeOK, Messages, Promises, TypeOK

LEMMA FreshTypes ==
  /\ FreshUi \in [asked : Nat, answered : Nat, shown : State]
  /\ FreshUi.asked = 0 /\ FreshUi.shown.graph = None
  /\ Idle \in Promises /\ Refresh \in Messages /\ Refresh.kind = "refresh"
  /\ IdleCall \in Call /\ IdleCall.st = "idle" /\ Idle.kind = "none" /\ Idle.panel = 0
<1>1. [graph |-> None, audit |-> None] \in State
  BY DEF State
<1>2. FreshUi \in [asked : Nat, answered : Nat, shown : State]
  BY <1>1 DEF FreshUi
<1>3. FreshUi.asked = 0 /\ FreshUi.shown.graph = None
  BY DEF FreshUi
<1>4. Idle \in Promises /\ Idle.kind = "none" /\ Idle.panel = 0
  BY DEF Idle, Promises
<1>5. Refresh \in Messages /\ Refresh.kind = "refresh"
  BY <1>1 DEF Refresh, Messages
<1>6. IdleCall \in Call /\ IdleCall.st = "idle"
  BY BoundsAssumption DEF IdleCall, Call, Versions
<1>. QED
  BY <1>2, <1>3, <1>4, <1>5, <1>6

(* A step of the session by itself. *)
LEMMA SessionTypes ==
  ASSUME TypeOK, OneLoadInFlight, WaitersHaveALoad, Next
  PROVE  TypeOK' /\ OneLoadInFlight' /\ WaitersHaveALoad'
BY TypesPreserved, SingleFlightPreserved

LEMMA WorldTypes ==
  ASSUME PanelInv, World
  PROVE  PanelTypeOK' /\ OneLoadInFlight' /\ WaitersHaveALoad'
<1>. USE Typed
<1>1. UNCHANGED panelVars
  BY DEF World
<1>2. CASE Edit \/ \E l \in LoadIds : ReadSources(l) \/ LoadDone(l) \/ LoadFail(l)
  <2>1. Next
    BY <1>2 DEF Next
  <2>2. TypeOK' /\ OneLoadInFlight' /\ WaitersHaveALoad'
    BY <2>1, SessionTypes
  <2>. QED
    BY <1>1, <2>2 DEF PanelTypeOK, panelVars, PanelInv
<1>3. CASE CliBuild
  <2>1. artifact' \in Artifact /\ events' \subseteq {"graph", "audit"}
    BY <1>3 DEF CliBuild, TypeOK, Artifact
  <2>2. TypeOK' /\ OneLoadInFlight' /\ WaitersHaveALoad'
    BY <1>3, <2>1 DEF CliBuild, TypeOK, session, OneLoadInFlight, WaitersHaveALoad
  <2>. QED
    BY <1>1, <2>2 DEF PanelTypeOK, panelVars, PanelInv
<1>4. CASE AuditWrite
  <2>1. audit' \in 0..MaxAudits
    BY <1>4, BoundsAssumption DEF AuditWrite, TypeOK
  <2>3. events' \subseteq {"graph", "audit"}
    BY <1>4 DEF AuditWrite, TypeOK
  <2>2. TypeOK' /\ OneLoadInFlight' /\ WaitersHaveALoad'
    BY <1>4, <2>1, <2>3 DEF AuditWrite, TypeOK, session, OneLoadInFlight, WaitersHaveALoad
  <2>. QED
    BY <1>1, <2>2 DEF PanelTypeOK, panelVars, PanelInv
<1>. QED
  BY <1>2, <1>3, <1>4 DEF World

(* The continuations, and the panel's end of the session. *)
LEMMA CallerTypes ==
  ASSUME PanelInv, NEW c \in Callers,
         OpenCommand(c) \/ OnMessage(c) \/ RebuildCommand(c) \/ GraphEvent(c)
  PROVE  PanelTypeOK' /\ OneLoadInFlight' /\ WaitersHaveALoad'
<1>. USE Typed
<1>1. Next
  BY DEF OpenCommand, OnMessage, RebuildCommand, GraphEvent, Next
<1>2. TypeOK' /\ OneLoadInFlight' /\ WaitersHaveALoad'
  BY <1>1, SessionTypes
<1>3. CASE OpenCommand(c)
  <2>1. open' \in 0..MaxPanels /\ made' \in 0..MaxPanels
    BY <1>3 DEF OpenCommand
  <2>2. then' \in [Callers -> Promises]
    BY <1>3, <2>1 DEF OpenCommand, Promises
  <2>3. toHost' \in Seq(Nat) /\ toUi' \in Seq(Messages)
    BY <1>3, Emptied DEF OpenCommand, FreshChannels
  <2>4. /\ ui' \in [asked : Nat, answered : Nat, shown : State]
        /\ missed' \in BOOLEAN /\ dropped' \in BOOLEAN
    BY <1>3, FreshTypes DEF OpenCommand, FreshChannels
  <2>. QED
    BY <1>2, <2>1, <2>2, <2>3, <2>4 DEF PanelTypeOK, Promises, Messages
<1>4. CASE OnMessage(c)
  <2>1. Head(toHost) \in Nat /\ toHost' \in Seq(Nat)
    BY <1>4, Tailed DEF OnMessage
  <2>2. then' \in [Callers -> Promises]
    BY <1>4, <2>1 DEF OnMessage, Promises
  <2>. QED
    BY <1>2, <1>4, <2>1, <2>2 DEF OnMessage, PanelTypeOK, Promises, PanelInv
<1>5. CASE RebuildCommand(c)
  <2>1. then' \in [Callers -> Promises]
    BY <1>5 DEF RebuildCommand, Promises
  <2>. QED
    BY <1>2, <1>5, <2>1 DEF RebuildCommand, PanelTypeOK, Promises, PanelInv
<1>6. CASE GraphEvent(c)
  <2>1. then' \in [Callers -> Promises]
    BY <1>6 DEF GraphEvent, Promises
  <2>. QED
    BY <1>2, <1>6, <2>1 DEF GraphEvent, PanelTypeOK, Promises, PanelInv
<1>. QED
  BY <1>3, <1>4, <1>5, <1>6

LEMMA PostTypes ==
  ASSUME PanelInv, NEW p, NEW m \in Messages, Post(p, m)
  PROVE  toUi' \in Seq(Messages)
BY Typed, Appended DEF Post

LEMMA ContinuationTypes ==
  ASSUME PanelInv, NEW c \in Callers, Resume(c) \/ Throw(c)
  PROVE  PanelTypeOK' /\ OneLoadInFlight' /\ WaitersHaveALoad'
<1>. USE Typed
<1>1. /\ then' = [then EXCEPT ![c] = Idle] /\ call' = [call EXCEPT ![c] = IdleCall]
      /\ UNCHANGED <<disk, events, session, open, made, ui, toHost>>
  BY DEF Resume, Throw, Forget
<1>2. then' \in [Callers -> Promises] /\ call' \in [Callers -> Call]
  BY <1>1, FreshTypes
<1>3. TypeOK' /\ OneLoadInFlight' /\ WaitersHaveALoad'
  BY <1>1, <1>2, FreshTypes DEF TypeOK, disk, session, OneLoadInFlight, WaitersHaveALoad
<1>4. toUi' \in Seq(Messages)
  <2>1. Reply(then[c].id) \in Messages
    BY DEF Reply, Messages, Promises
  <2>. QED
    BY <2>1, PostTypes, FreshTypes DEF Resume, Throw
<1>5. missed' \in BOOLEAN /\ dropped' \in BOOLEAN
  BY DEF Resume, Throw, PanelInv, PanelTypeOK
<1>. QED
  BY <1>1, <1>2, <1>3, <1>4, <1>5 DEF PanelTypeOK, Messages, Promises

LEMMA PanelTypes ==
  ASSUME PanelInv, AuditEvent \/ Dispose \/ Mount \/ Receive
  PROVE  PanelTypeOK' /\ OneLoadInFlight' /\ WaitersHaveALoad'
<1>. USE Typed
<1>1. CASE AuditEvent
  <2>1. Next
    BY <1>1 DEF AuditEvent, Next
  <2>2. TypeOK' /\ OneLoadInFlight' /\ WaitersHaveALoad'
    BY <2>1, SessionTypes
  <2>3. toUi' \in Seq(Messages)
    BY <1>1, PostTypes, FreshTypes DEF AuditEvent
  <2>. QED
    BY <1>1, <2>2, <2>3 DEF AuditEvent, PanelTypeOK, PanelInv, Messages
<1>2. CASE Dispose
  <2>1. TypeOK' /\ OneLoadInFlight' /\ WaitersHaveALoad'
    BY <1>2 DEF Dispose, vars, disk, session, TypeOK, OneLoadInFlight, WaitersHaveALoad
  <2>2. toHost' \in Seq(Nat) /\ toUi' \in Seq(Messages)
    BY <1>2, Emptied DEF Dispose, FreshChannels
  <2>3. /\ ui' \in [asked : Nat, answered : Nat, shown : State]
        /\ missed' \in BOOLEAN /\ dropped' \in BOOLEAN
    BY <1>2, FreshTypes DEF Dispose, FreshChannels
  <2>4. open' \in 0..MaxPanels /\ made' \in 0..MaxPanels /\ then' \in [Callers -> Promises]
    BY <1>2 DEF Dispose
  <2>. QED
    BY <2>1, <2>2, <2>3, <2>4 DEF PanelTypeOK, Promises, Messages
<1>3. CASE Mount \/ Receive
  <2>1. TypeOK' /\ OneLoadInFlight' /\ WaitersHaveALoad'
    BY <1>3 DEF Mount, Receive, vars, disk, session, TypeOK, OneLoadInFlight, WaitersHaveALoad
  <2>2. ASSUME Ask PROVE toHost' \in Seq(Nat)
                         /\ ui' \in [asked : Nat, answered : Nat, shown : State]
    <3>1. toHost \in Seq(Nat) /\ ui \in [asked : Nat, answered : Nat, shown : State]
      BY DEF PanelTypeOK
    <3>2. ui.asked + 1 \in Nat
      BY <3>1
    <3>3. toHost' \in Seq(Nat)
      BY <2>2, <3>1, <3>2, Appended DEF Ask
    <3>4. ui' \in [asked : Nat, answered : Nat, shown : State]
      BY <2>2, <3>1, <3>2 DEF Ask
    <3>. QED
      BY <3>3, <3>4
  <2>3. ASSUME NEW m \in Messages, Show(m)
        PROVE  toHost' = toHost /\ ui' \in [asked : Nat, answered : Nat, shown : State]
    BY <2>3 DEF Show, Messages
  <2>4. CASE Mount
    BY <2>1, <2>2, <2>4 DEF Mount, PanelTypeOK, PanelInv
  <2>5. CASE Receive
    <3>1. Head(toUi) \in Messages /\ toUi' \in Seq(Messages)
      BY <2>5, Tailed DEF Receive
    <3>2. toHost' \in Seq(Nat) /\ ui' \in [asked : Nat, answered : Nat, shown : State]
      BY <2>2, <2>3, <2>5, <3>1 DEF Receive
    <3>. QED
      BY <2>1, <2>5, <3>1, <3>2 DEF Receive, PanelTypeOK, PanelInv, Messages
  <2>. QED
    BY <1>3, <2>4, <2>5
<1>. QED
  BY <1>1, <1>2, <1>3

-----------------------------------------------------------------------------
(* What a step does to the callers and the session. *)

(* `this.#loading ??= this.#load(rebuild)`, by caller c. *)
LEMMA Joined ==
  ASSUME call \in [Callers -> Call], NEW c \in Callers, NEW op, NEW rebuild,
         started \in Nat, Share(c, op) \/ Start(c, op, rebuild)
  PROVE  /\ state' = state /\ loading' # None
         /\ loading # None => loading' = loading
         /\ call'[c].st = "waiting" /\ call'[c].load = loading'
         /\ \A d \in Callers : d # c => call'[d] = call[d]
<1>1. CASE Share(c, op)
  BY <1>1 DEF Share, Awaiting, session
<1>2. CASE Start(c, op, rebuild)
  <2>1. started + 1 # None
    BY NoneAssumption
  <2>. QED
    BY <1>2, <2>1 DEF Start, Awaiting
<1>. QED
  BY <1>1, <1>2

LEMMA CallerStarts ==
  ASSUME PanelInv, NEW c \in Callers,
         OpenCommand(c) \/ OnMessage(c) \/ RebuildCommand(c) \/ GraphEvent(c)
  PROVE  /\ state' = state /\ call[c].st = "idle"
         /\ \A d \in Callers : d # c => call'[d] = call[d] /\ then'[d] = then[d]
         /\ \/ UNCHANGED <<loading, call, then>> /\ GraphEvent(c)
            \/ /\ then'[c].kind # "none"
               /\ call'[c].st = "done" /\ state.graph # None /\ loading' = loading
            \/ /\ then'[c].kind # "none"
               /\ call'[c].st = "waiting" /\ call'[c].load = loading'
               /\ loading' # None /\ (loading # None => loading' = loading)
               /\ state.graph # None => then'[c].kind \in Reloads
<1>. USE Typed
<1>1. started \in Nat
  BY BoundsAssumption DEF TypeOK
<1>2. call[c].st = "idle"
  <2>1. CASE UNCHANGED then /\ GraphEvent(c)
    BY <2>1 DEF GraphEvent, PanelInv, Callings, Engaged
  <2>. QED
    BY DEF OpenCommand, OnMessage, RebuildCommand, GraphEvent, PanelInv, Callings, Engaged
<1>3. ASSUME Ready(c)
      PROVE  /\ state' = state
             /\ \A d \in Callers : d # c => call'[d] = call[d]
             /\ \/ call'[c].st = "done" /\ state.graph # None /\ loading' = loading
                \/ /\ call'[c].st = "waiting" /\ call'[c].load = loading'
                   /\ loading' # None /\ (loading # None => loading' = loading)
                   /\ state.graph = None
  <2>1. CASE AnswerFromState(c)
    BY <2>1 DEF AnswerFromState, Answered, session
  <2>2. CASE state.graph = None /\ (Share(c, "ready") \/ Start(c, "ready", FALSE))
    BY <1>1, <2>2, Joined
  <2>. QED
    BY <1>3, <2>1, <2>2 DEF Ready
<1>4. CASE OpenCommand(c)
  <2>1. /\ then'[c].kind = "open"
        /\ \A d \in Callers : d # c => then'[d] = then[d]
    BY <1>4 DEF OpenCommand
  <2>. QED
    BY <1>2, <1>3, <1>4, <2>1 DEF OpenCommand
<1>5. CASE OnMessage(c)
  <2>1. /\ then'[c].kind = "request"
        /\ \A d \in Callers : d # c => then'[d] = then[d]
    BY <1>5 DEF OnMessage
  <2>. QED
    BY <1>2, <1>3, <1>5, <2>1 DEF OnMessage
<1>6. CASE RebuildCommand(c)
  <2>1. /\ then'[c].kind = "rebuild"
        /\ \A d \in Callers : d # c => then'[d] = then[d]
    BY <1>6 DEF RebuildCommand
  <2>2. Share(c, "reload") \/ Start(c, "reload", TRUE)
    BY <1>6 DEF RebuildCommand, Reload
  <2>. QED
    BY <1>1, <1>2, <2>1, <2>2, Joined DEF Reloads
<1>7. CASE GraphEvent(c) /\ state.graph = None
  BY <1>2, <1>7 DEF GraphEvent, OnGraphEvent, session
<1>8. CASE GraphEvent(c) /\ state.graph # None
  <2>1. /\ then'[c].kind = "artifact"
        /\ \A d \in Callers : d # c => then'[d] = then[d]
    BY <1>8 DEF GraphEvent
  <2>2. Share(c, "reload") \/ Start(c, "reload", TRUE)
    BY <1>8 DEF GraphEvent, OnGraphEvent
  <2>. QED
    BY <1>1, <1>2, <2>1, <2>2, Joined DEF Reloads
<1>. QED
  BY <1>4, <1>5, <1>6, <1>7, <1>8

(* A step of the world alone: a load ends and all who await it go on, or the *)
(* callers and the state stay as they are.                                   *)
LEMMA WorldMoves ==
  ASSUME PanelInv, World
  PROVE  /\ UNCHANGED panelVars
         /\ \/ UNCHANGED <<state, loading, call>>
            \/ /\ loading # None /\ loading' = None /\ state'.graph # None
               /\ \A c \in Callers : IF call[c].st = "waiting" THEN call'[c].st = "done"
                                     ELSE call'[c] = call[c]
            \/ /\ loading' = None /\ state' = state
               /\ \A c \in Callers : IF call[c].st = "waiting" THEN call'[c].st = "failed"
                                     ELSE call'[c] = call[c]
<1>. USE Typed
<1>1. UNCHANGED panelVars
  BY DEF World
<1>2. CASE Edit \/ CliBuild \/ AuditWrite \/ \E l \in LoadIds : ReadSources(l)
  BY <1>1, <1>2 DEF Edit, CliBuild, AuditWrite, ReadSources, session
<1>3. ASSUME NEW l \in LoadIds, l \in DOMAIN loads
      PROVE  /\ loading # None /\ loading = l
             /\ \A c \in Callers : call[c].st = "waiting" => call[c].load = l
  BY <1>3 DEF OneLoadInFlight, WaitersHaveALoad
<1>4. ASSUME NEW l \in LoadIds, LoadDone(l)
      PROVE  /\ loading # None /\ loading' = None /\ state'.graph # None
             /\ \A c \in Callers : IF call[c].st = "waiting" THEN call'[c].st = "done"
                                   ELSE call'[c] = call[c]
  <2>1. loading # None /\ loading' = None /\ state'.graph # None
    BY <1>3, <1>4 DEF LoadDone, Settle
  <2>2. ASSUME NEW c \in Callers
        PROVE  IF call[c].st = "waiting" THEN call'[c].st = "done" ELSE call'[c] = call[c]
    BY <1>3, <1>4 DEF LoadDone, Settle, Answered
  <2>. QED
    BY <2>1, <2>2
<1>5. ASSUME NEW l \in LoadIds, LoadFail(l)
      PROVE  /\ loading' = None /\ state' = state
             /\ \A c \in Callers : IF call[c].st = "waiting" THEN call'[c].st = "failed"
                                   ELSE call'[c] = call[c]
  <2>1. loading' = None /\ state' = state
    BY <1>5 DEF LoadFail, Settle
  <2>2. ASSUME NEW c \in Callers
        PROVE  IF call[c].st = "waiting" THEN call'[c].st = "failed" ELSE call'[c] = call[c]
    BY <1>3, <1>5 DEF LoadFail, Settle, Thrown
  <2>. QED
    BY <2>1, <2>2
<1>. QED
  BY <1>1, <1>2, <1>4, <1>5 DEF World

LEMMA CallerEnds ==
  ASSUME PanelInv, NEW c \in Callers, Resume(c) \/ Throw(c)
  PROVE  /\ UNCHANGED <<state, loading, open, made, ui, toHost>>
         /\ then'[c] = Idle /\ call'[c].st = "idle"
         /\ call[c].st \in {"done", "failed"}
         /\ \A d \in Callers : d # c => then'[d] = then[d] /\ call'[d] = call[d]
BY Typed, FreshTypes DEF Resume, Throw, Forget, session

LEMMA PanelMoves ==
  ASSUME PanelInv, AuditEvent \/ Dispose \/ Mount \/ Receive
  PROVE  /\ UNCHANGED <<loading, call, then, made>>
         /\ state'.graph = state.graph
         /\ ~AuditEvent => state' = state
BY Typed DEF AuditEvent, OnAuditEvent, RefreshAuditState, Dispose, Mount, Receive, vars, session, State

-----------------------------------------------------------------------------
(* The callers and the session. *)

LEMMA CallingsPreserved == ASSUME PanelInv, PanelNext PROVE Callings'
<1>. USE Typed
<1>0. Engaged /\ HasGraph /\ Reloading
  BY DEF PanelInv, Callings
<1>1. CASE World
  <2>1. then' = then
    BY <1>1, WorldMoves DEF panelVars
  <2>. QED
    BY <1>0, <1>1, <2>1, WorldMoves DEF Callings, Engaged, HasGraph, Reloading, Free
<1>2. ASSUME NEW c \in Callers,
             OpenCommand(c) \/ OnMessage(c) \/ RebuildCommand(c) \/ GraphEvent(c)
      PROVE  Callings'
  <2>1. \A d \in Callers : then'[d].kind # "none" => then'[d] # Idle
    BY FreshTypes
  <2>2. Engaged'
    BY <1>0, <1>2, <2>1, CallerStarts DEF Engaged, Free
  <2>3. HasGraph'
    BY <1>0, <1>2, CallerStarts DEF HasGraph
  <2>4. Reloading'
    BY <1>0, <1>2, CallerStarts DEF Reloading
  <2>. QED
    BY <2>2, <2>3, <2>4 DEF Callings
<1>3. ASSUME NEW c \in Callers, Resume(c) \/ Throw(c) PROVE Callings'
  <2>1. Engaged' /\ HasGraph'
    BY <1>0, <1>3, CallerEnds DEF Engaged, HasGraph, Free
  <2>2. Reloading'
    BY <1>0, <1>3, CallerEnds DEF Reloading
  <2>. QED
    BY <2>1, <2>2 DEF Callings
<1>4. CASE AuditEvent \/ Dispose \/ Mount \/ Receive
  BY <1>0, <1>4, PanelMoves DEF Callings, Engaged, HasGraph, Reloading, Free
<1>. QED
  BY <1>1, <1>2, <1>3, <1>4 DEF PanelNext

-----------------------------------------------------------------------------
(* Where an ask may be. *)

LEMMA Placed ==
  ASSUME PanelInv
  PROVE  /\ Closed /\ Older /\ Bounded /\ Once
         /\ open \in Nat /\ made \in Nat /\ ui.asked \in Nat
         /\ \A c \in Callers : then[c].panel \in Nat /\ then[c].id \in Nat
BY Typed DEF PanelInv, Places, Promises

LEMMA OlderPreserved == ASSUME PanelInv, PanelNext PROVE Older'
<1>. USE Placed
<1>1. CASE World
  BY <1>1, WorldMoves DEF Older, panelVars
<1>2. ASSUME NEW c \in Callers, OpenCommand(c) PROVE Older'
  <2>1. /\ open' = made + 1 /\ made' = made + 1 /\ then'[c].panel = made + 1
        /\ \A d \in Callers : d # c => then'[d] = then[d]
    BY <1>2, Typed DEF OpenCommand
  <2>. QED
    BY <2>1 DEF Older
<1>3. ASSUME NEW c \in Callers, OnMessage(c) \/ RebuildCommand(c) \/ GraphEvent(c)
      PROVE  Older'
  <2>1. /\ UNCHANGED <<open, made>> /\ then'[c].panel \in {0, open, then[c].panel}
        /\ \A d \in Callers : d # c => then'[d] = then[d]
    BY <1>3, Typed DEF OnMessage, RebuildCommand, GraphEvent
  <2>. QED
    BY <2>1 DEF Older
<1>4. ASSUME NEW c \in Callers, Resume(c) \/ Throw(c) PROVE Older'
  BY <1>4, CallerEnds, FreshTypes DEF Older
<1>5. CASE AuditEvent \/ Dispose \/ Mount \/ Receive
  <2>1. UNCHANGED <<made, then>> /\ open' \in {0, open}
    BY <1>5 DEF AuditEvent, Dispose, Mount, Receive
  <2>. QED
    BY <2>1 DEF Older
<1>. QED
  BY <1>1, <1>2, <1>3, <1>4, <1>5 DEF PanelNext

(* Nothing is sent, and nobody becomes a request. *)
LEMMA PlacesKept ==
  ASSUME PanelInv, UNCHANGED <<open, ui, toHost, toUi>>,
         \A c \in Callers : then'[c] = then[c] \/ then'[c].kind # "request"
  PROVE  Closed' /\ Bounded' /\ Once'
BY Placed DEF Closed, Bounded, Once, Asks, IsAnswer

(* A message is posted by nobody, or by a request that is over. *)
LEMMA PlacesPosted ==
  ASSUME PanelInv, NEW m \in Messages, NEW p, Post(p, m),
         UNCHANGED <<open, ui, toHost>>,
         \A c \in Callers : then'[c] = then[c] \/ then'[c].kind # "request",
         m.kind = "answer" =>
           \E c \in Callers : /\ then[c].kind = "request" /\ then[c].panel = p
                              /\ then[c].id = m.id /\ then'[c].kind # "request"
  PROVE  Closed' /\ Bounded' /\ Once'
<1>. USE Placed
<1>1. CASE ~(p # 0 /\ p = open)
  <2>1. toUi' = toUi
    BY <1>1 DEF Post
  <2>. QED
    BY <2>1, PlacesKept
<1>2. CASE p # 0 /\ p = open
  <2>1. toUi' = Append(toUi, m)
    BY <1>2 DEF Post
  <2>2. /\ DOMAIN toUi' = DOMAIN toUi \cup {Len(toUi) + 1}
        /\ \A i \in DOMAIN toUi : toUi'[i] = toUi[i]
        /\ toUi'[Len(toUi) + 1] = m
    BY <2>1, Typed, Appended
  <2>3. Closed'
    BY <1>2 DEF Closed
  <2>4. Bounded'
    BY <1>2, <2>2 DEF Bounded, IsAnswer
  <2>5. CASE m.kind # "answer" \/ m.id # ui.asked
    BY <2>2, <2>3, <2>4, <2>5 DEF Once, Asks, IsAnswer
  <2>6. CASE m.kind = "answer" /\ m.id = ui.asked
    <3>1. PICK c \in Callers : /\ then[c].kind = "request" /\ then[c].panel = p
                               /\ then[c].id = m.id /\ then'[c].kind # "request"
      BY <2>6
    <3>2. Asks(c)
      BY <1>2, <2>6, <3>1 DEF Asks
    <3>3. /\ \A d \in Callers : ~Asks(d)'
          /\ \A i \in DOMAIN toHost : toHost[i] # ui.asked
      BY <3>1, <3>2 DEF Once, Asks
    <3>. QED
      BY <2>2, <2>3, <2>4, <3>3 DEF Once
  <2>. QED
    BY <2>5, <2>6
<1>. QED
  BY <1>1, <1>2

(* The oldest message is taken. *)
LEMMA TakenUi ==
  ASSUME PanelInv, toUi # << >>, toUi' = Tail(toUi)
  PROVE  /\ 1 \in DOMAIN toUi /\ Head(toUi) = toUi[1] /\ Head(toUi) \in Messages
         /\ \A i \in DOMAIN toUi' : /\ i \in Nat \ {0}
                                   /\ i + 1 \in DOMAIN toUi /\ toUi'[i] = toUi[i + 1]
         /\ \A i \in DOMAIN toUi : /\ i \in Nat \ {0}
                                  /\ i # 1 => i - 1 \in DOMAIN toUi' /\ toUi'[i - 1] = toUi[i]
<1>1. toUi \in Seq(Messages)
  BY Typed
<1>. QED
  BY <1>1, Tailed

LEMMA PlacesTaken ==
  ASSUME PanelInv, toUi # << >>, toUi' = Tail(toUi) \/ toUi' = toUi,
         UNCHANGED <<open, toHost, then>>, ui'.asked = ui.asked
  PROVE  Closed' /\ Bounded' /\ Once'
<1>. USE Placed
<1>1. \A i \in DOMAIN toUi' : \E j \in DOMAIN toUi : toUi'[i] = toUi[j]
  BY TakenUi
<1>2. open # 0
  BY DEF Closed
<1>. QED
  BY <1>1, <1>2 DEF Closed, Bounded, Once, Asks, IsAnswer

LEMMA PlacesAsked ==
  ASSUME PanelInv, open # 0, Ask, UNCHANGED <<open, then>>,
         toUi' = toUi \/ (toUi # << >> /\ toUi' = Tail(toUi))
  PROVE  Closed' /\ Bounded' /\ Once'
<1>. USE Placed
<1>1. \A i \in DOMAIN toUi' : \E j \in DOMAIN toUi : toUi'[i] = toUi[j]
  BY TakenUi
<1>2. ui'.asked = ui.asked + 1
  BY Typed DEF Ask
<1>3. /\ DOMAIN toHost' = DOMAIN toHost \cup {Len(toHost) + 1}
      /\ \A i \in DOMAIN toHost : toHost'[i] = toHost[i]
      /\ toHost'[Len(toHost) + 1] = ui.asked + 1
  <2>1. toHost \in Seq(Nat) /\ ui.asked + 1 \in Nat
    BY Typed
  <2>2. toHost' = Append(toHost, ui.asked + 1)
    BY DEF Ask
  <2>. QED
    BY <2>1, <2>2, Appended
<1>4. Bounded'
  BY <1>1, <1>2, <1>3 DEF Bounded, IsAnswer
<1>5. /\ \A i \in DOMAIN toHost : toHost[i] # ui.asked + 1
      /\ \A c \in Callers : ~Asks(c)'
      /\ \A i \in DOMAIN toUi : IsAnswer(i) => toUi[i].id # ui.asked + 1
  BY <1>2 DEF Bounded, Asks
<1>6. Once'
  BY <1>1, <1>2, <1>3, <1>5 DEF Once, IsAnswer
<1>. QED
  BY <1>4, <1>6 DEF Closed

LEMMA PlacesPreserved == ASSUME PanelInv, PanelNext PROVE Places'
<1>. USE Placed
<1>. SUFFICES Closed' /\ Bounded' /\ Once'
  BY OlderPreserved DEF Places
<1>1. CASE World
  BY <1>1, WorldMoves, PlacesKept DEF panelVars
<1>2. ASSUME NEW c \in Callers, OpenCommand(c) PROVE Closed' /\ Bounded' /\ Once'
  <2>1. /\ toHost' = << >> /\ toUi' = << >> /\ open' = made + 1
        /\ then'[c].kind = "open"
        /\ \A d \in Callers : d # c => then'[d] = then[d]
    BY <1>2, Typed DEF OpenCommand, FreshChannels
  <2>2. \A d \in Callers : then'[d].kind = "request" => then'[d].panel # open'
    BY <2>1 DEF Older
  <2>. QED
    BY <2>1, <2>2 DEF Closed, Bounded, Once, Asks, IsAnswer
<1>3. ASSUME NEW c \in Callers, OnMessage(c) PROVE Closed' /\ Bounded' /\ Once'
  <2>1. /\ toHost # << >> /\ toHost' = Tail(toHost) /\ UNCHANGED <<open, ui, toUi>>
        /\ then'[c].kind = "request" /\ then'[c].id = Head(toHost)
        /\ \A d \in Callers : d # c => then'[d] = then[d]
    BY <1>3, Typed DEF OnMessage
  <2>2. /\ 1 \in DOMAIN toHost /\ Head(toHost) = toHost[1]
        /\ \A i \in DOMAIN toHost' : /\ i \in Nat \ {0}
                                     /\ i + 1 \in DOMAIN toHost /\ toHost'[i] = toHost[i + 1]
    BY <2>1, Typed, Tailed
  <2>3. open # 0
    BY <2>1 DEF Closed
  <2>4. Bounded'
    BY <2>1, <2>2 DEF Bounded, IsAnswer
  <2>5. CASE Head(toHost) = ui.asked
    <3>1. /\ \A i \in DOMAIN toHost' : toHost'[i] # ui.asked
          /\ \A d \in Callers : ~Asks(d)
          /\ \A j \in DOMAIN toUi : IsAnswer(j) => toUi[j].id # ui.asked
      BY <2>2, <2>5 DEF Once
    <3>2. \A d \in Callers : Asks(d)' => d = c
      BY <2>1, <3>1 DEF Asks
    <3>. QED
      BY <2>1, <2>3, <2>4, <3>1, <3>2 DEF Once, Closed, IsAnswer
  <2>6. CASE Head(toHost) # ui.asked
    <3>1. \A d \in Callers : Asks(d)' => Asks(d)
      BY <2>1, <2>6 DEF Asks
    <3>2. \A i, j \in DOMAIN toHost' :
            toHost'[i] = ui.asked /\ toHost'[j] = ui.asked => i = j
      BY <2>2 DEF Once
    <3>3. \A i \in DOMAIN toHost' : toHost'[i] = ui.asked =>
            /\ \A d \in Callers : ~Asks(d)
            /\ \A j \in DOMAIN toUi : IsAnswer(j) => toUi[j].id # ui.asked
      BY <2>2 DEF Once
    <3>4. Once'
      BY <2>1, <3>1, <3>2, <3>3 DEF Once, IsAnswer
    <3>. QED
      BY <2>1, <2>3, <2>4, <3>4 DEF Closed
  <2>. QED
    BY <2>5, <2>6
<1>4. ASSUME NEW c \in Callers, RebuildCommand(c) \/ GraphEvent(c)
      PROVE  Closed' /\ Bounded' /\ Once'
  BY <1>4, Typed, PlacesKept DEF RebuildCommand, GraphEvent
<1>5. ASSUME NEW c \in Callers, Resume(c) \/ Throw(c) PROVE Closed' /\ Bounded' /\ Once'
  <2>1. \A d \in Callers : then'[d] = then[d] \/ then'[d].kind # "request"
    BY <1>5, CallerEnds, FreshTypes
  <2>2. UNCHANGED <<open, ui, toHost>> /\ then'[c].kind # "request"
    BY <1>5, CallerEnds, FreshTypes
  <2>3. CASE UNCHANGED toUi
    BY <2>1, <2>2, <2>3, PlacesKept
  <2>4. CASE then[c].kind = "request" /\ Post(then[c].panel, Reply(then[c].id))
    <3>1. PICK m : m = Reply(then[c].id)
      OBVIOUS
    <3>2. m \in Messages /\ m.id = then[c].id
      BY <3>1, Typed, Placed DEF Reply, Messages
    <3>. QED
      BY <2>1, <2>2, <2>4, <3>1, <3>2, PlacesPosted
  <2>5. CASE Post(RefreshTarget(c), Refresh)
    BY <2>1, <2>2, <2>5, FreshTypes, PlacesPosted
  <2>. QED
    BY <1>5, <2>3, <2>4, <2>5 DEF Resume, Throw
<1>6. CASE AuditEvent
  <2>1. UNCHANGED <<open, ui, toHost, then>> /\ (UNCHANGED toUi \/ Post(open, Refresh))
    BY <1>6 DEF AuditEvent
  <2>. QED
    BY <2>1, FreshTypes, PlacesKept, PlacesPosted
<1>7. CASE Dispose
  BY <1>7 DEF Dispose, FreshChannels, Closed, Bounded, Once, Asks, IsAnswer
<1>8. CASE Mount
  BY <1>8, PlacesAsked DEF Mount
<1>9. CASE Receive
  <2>1. toUi # << >> /\ toUi' = Tail(toUi) /\ UNCHANGED <<open, then>> /\ open # 0
    BY <1>9 DEF Receive, Closed
  <2>2. CASE Ask
    BY <2>1, <2>2, PlacesAsked
  <2>3. CASE UNCHANGED toHost /\ ui'.asked = ui.asked
    BY <2>1, <2>3, PlacesTaken
  <2>4. ASSUME NEW m, Show(m) PROVE UNCHANGED toHost /\ ui'.asked = ui.asked
    BY <2>4, Typed DEF Show
  <2>. QED
    BY <1>9, <2>2, <2>3, <2>4 DEF Receive
<1>. QED
  BY <1>1, <1>2, <1>3, <1>4, <1>5, <1>6, <1>7, <1>8, <1>9 DEF PanelNext

-----------------------------------------------------------------------------
(* What is shown and what is about to be. *)

LEMMA GraphStays ==
  ASSUME PanelInv, PanelNext, state.graph # None PROVE state'.graph # None
BY WorldMoves, CallerStarts, CallerEnds, PanelMoves DEF PanelNext

LEMMA Showing ==
  ASSUME PanelInv
  PROVE  Real /\ AnswersHaveGraphs /\ Unasked /\ WaitedFirst /\ HasGraph
BY DEF PanelInv, Shown, Callings

(* Receive is one of three things. *)
LEMMA Received ==
  ASSUME PanelInv, Receive
  PROVE  /\ toUi # << >> /\ toUi' = Tail(toUi) /\ UNCHANGED <<open, then, call, state, missed>>
         /\ open # 0
         /\ \/ UNCHANGED <<ui, toHost>> /\ (ui.asked = 0 \/ (IsAnswer(1) /\ Head(toUi).id # ui.asked))
            \/ Ask /\ ui.asked # 0
            \/ /\ IsAnswer(1) /\ Head(toUi).id = ui.asked /\ ui.asked # 0
               /\ UNCHANGED toHost
               /\ ui'.asked = ui.asked /\ ui'.shown = Head(toUi).about
<1>1. /\ toUi # << >> /\ toUi' = Tail(toUi) /\ UNCHANGED <<open, then, call, state, missed>>
      /\ open # 0
  BY Placed DEF Receive, Closed, vars, session
<1>2. Head(toUi) \in Messages /\ Head(toUi) = toUi[1]
  BY <1>1, TakenUi
<1>3. CASE ui.asked # 0 /\ Head(toUi).kind # "refresh" /\ Show(Head(toUi))
  <2>1. IsAnswer(1)
    BY <1>2, <1>3 DEF IsAnswer, Messages
  <2>2. CASE Head(toUi).id = ui.asked
    BY <1>1, <1>3, <2>1, <2>2, Typed DEF Show
  <2>3. CASE Head(toUi).id # ui.asked
    BY <1>1, <1>3, <2>1, <2>3 DEF Show
  <2>. QED
    BY <2>2, <2>3
<1>4. CASE ui.asked = 0
  BY <1>1, <1>4 DEF Receive
<1>5. CASE ui.asked # 0 /\ Head(toUi).kind = "refresh"
  BY <1>1, <1>5 DEF Receive
<1>6. ui.asked # 0 /\ Head(toUi).kind # "refresh" => Show(Head(toUi))
  BY DEF Receive
<1>. QED
  BY <1>3, <1>4, <1>5, <1>6

(* What a caller that resumes posts: a refresh, or what it was asked for. *)
LEMMA Resumed ==
  ASSUME PanelInv, NEW c \in Callers, Resume(c)
  PROVE  /\ call[c].st = "done" /\ state.graph # None /\ then[c].kind # "none"
         /\ \/ UNCHANGED toUi /\ then[c].kind = "open"
            \/ /\ then[c].kind = "request"
               /\ \E m \in Messages :
                    /\ Post(then[c].panel, m) /\ m.kind = "answer"
                    /\ m.id = then[c].id /\ m.about = state
            \/ then[c].kind \in Reloads /\ Post(RefreshTarget(c), Refresh)
<1>1. call[c].st = "done" /\ state.graph # None /\ then[c].kind # "none"
  <2>1. call[c].st = "done" /\ ~Free(c)
    BY DEF Resume
  <2>2. then[c] \in Promises
    BY Typed
  <2>3. then[c].kind # "none"
    BY <2>1 DEF PanelInv, Callings, Engaged
  <2>. QED
    BY <2>1, <2>3, Showing DEF HasGraph
<1>2. CASE then[c].kind = "request" /\ Post(then[c].panel, Reply(then[c].id))
  <2>1. PICK m : m = Reply(then[c].id)
    OBVIOUS
  <2>2. m \in Messages /\ m.kind = "answer" /\ m.id = then[c].id /\ m.about = state
    BY <2>1, Typed, Placed DEF Reply, Messages
  <2>. QED
    BY <1>1, <1>2, <2>1, <2>2
<1>. QED
  BY <1>1, <1>2, Typed DEF Resume, Promises, Reloads

LEMMA Posted ==
  ASSUME PanelInv, NEW m \in Messages, NEW p, Post(p, m)
  PROVE  \/ toUi' = toUi /\ ~(p # 0 /\ p = open)
         \/ /\ p # 0 /\ p = open
            /\ Len(toUi) \in Nat
            /\ \A i \in DOMAIN toUi : i \in Nat /\ i <= Len(toUi)
            /\ DOMAIN toUi' = DOMAIN toUi \cup {Len(toUi) + 1}
            /\ \A i \in DOMAIN toUi : toUi'[i] = toUi[i]
            /\ toUi'[Len(toUi) + 1] = m
<1>1. toUi \in Seq(Messages)
  BY Typed
<1>2. /\ Len(toUi) \in Nat /\ DOMAIN toUi = 1..Len(toUi)
      /\ DOMAIN Append(toUi, m) = 1..(Len(toUi) + 1)
      /\ \A i \in DOMAIN toUi : Append(toUi, m)[i] = toUi[i]
      /\ Append(toUi, m)[Len(toUi) + 1] = m
  BY <1>1, Appended
<1>3. CASE p # 0 /\ p = open
  <2>1. toUi' = Append(toUi, m)
    BY <1>3 DEF Post
  <2>2. /\ \A i \in DOMAIN toUi : i \in Nat /\ i <= Len(toUi)
        /\ DOMAIN Append(toUi, m) = DOMAIN toUi \cup {Len(toUi) + 1}
    BY <1>2
  <2>. QED
    BY <1>2, <1>3, <2>1, <2>2
<1>4. CASE ~(p # 0 /\ p = open)
  BY <1>4 DEF Post
<1>. QED
  BY <1>3, <1>4

(* Where the answers and the graph shown come from. *)
LEMMA AnswersComeFrom ==
  ASSUME PanelInv, PanelNext, NEW i \in DOMAIN toUi', IsAnswer(i)'
  PROVE  \/ toUi'[i].about = state /\ state.graph # None
         \/ \E j \in DOMAIN toUi : IsAnswer(j) /\ toUi'[i] = toUi[j]
<1>1. CASE toUi' = toUi
  BY <1>1 DEF IsAnswer
<1>2. CASE toUi' = << >>
  BY <1>2
<1>3. CASE \E p : Post(p, Refresh)
  BY <1>3, Posted, FreshTypes DEF IsAnswer
<1>4. ASSUME NEW c \in Callers, Resume(c)
      PROVE  \/ toUi'[i].about = state /\ state.graph # None
             \/ \E j \in DOMAIN toUi : IsAnswer(j) /\ toUi'[i] = toUi[j]
  BY <1>1, <1>3, <1>4, Resumed, Posted DEF IsAnswer
<1>5. CASE Receive
  BY <1>5, Received, TakenUi DEF IsAnswer
<1>6. CASE World
  BY <1>1, <1>6, WorldMoves DEF panelVars
<1>. QED
  BY <1>1, <1>2, <1>3, <1>4, <1>5, <1>6
     DEF PanelNext, OpenCommand, OnMessage, RebuildCommand, GraphEvent, Throw, AuditEvent,
         Dispose, Mount, FreshChannels

LEMMA ShownComesFrom ==
  ASSUME PanelInv, PanelNext
  PROVE  \/ ui' = FreshUi
         \/ ui'.asked = ui.asked /\ ui'.shown = ui.shown
         \/ ui'.asked = ui.asked + 1 /\ ui'.shown = ui.shown
         \/ /\ Receive /\ IsAnswer(1) /\ 1 \in DOMAIN toUi /\ toUi[1].id = ui.asked
            /\ ui.asked # 0 /\ ui'.asked = ui.asked /\ ui'.shown = toUi[1].about
<1>1. ASSUME Ask PROVE ui'.asked = ui.asked + 1 /\ ui'.shown = ui.shown
  BY <1>1, Typed DEF Ask
<1>2. CASE Receive
  BY <1>1, <1>2, Received, TakenUi
<1>3. CASE World
  BY <1>3, WorldMoves DEF panelVars
<1>. QED
  BY <1>1, <1>2, <1>3
     DEF PanelNext, OpenCommand, OnMessage, RebuildCommand, GraphEvent, Resume, Throw, AuditEvent,
         Dispose, Mount, FreshChannels

LEMMA WaitedFirstPreserved == ASSUME PanelInv, PanelNext PROVE WaitedFirst'
<1>. SUFFICES ASSUME NEW d \in Callers, Asks(d)', call'[d].st \in {"waiting", "failed"},
                     ui'.shown.graph # None
              PROVE  FALSE
  BY DEF WaitedFirst
<1>1. ui' # FreshUi
  BY FreshTypes
<1>2. CASE then'[d] = then[d] /\ open' = open
  <2>1. ui'.asked # ui.asked + 1
    BY <1>2, Placed DEF Bounded, Asks
  <2>2. Asks(d)
    BY <1>1, <1>2, <2>1, ShownComesFrom DEF Asks
  <2>3. ui'.shown = ui.shown
    BY <1>1, <2>1, <2>2, ShownComesFrom, Placed DEF Once
  <2>4. call[d].st \notin {"waiting", "failed"}
    BY <2>2, <2>3, Showing DEF WaitedFirst
  <2>5. call'[d] # call[d]
    BY <2>4
  <2>6. CASE World
    BY <2>4, <2>5, <2>6, WorldMoves
  <2>7. ASSUME NEW c \in Callers,
               OpenCommand(c) \/ OnMessage(c) \/ RebuildCommand(c) \/ GraphEvent(c)
        PROVE  FALSE
    <3>1. c = d
      BY <2>5, <2>7, CallerStarts
    <3>2. call[d].st = "idle"
      BY <2>7, <3>1, CallerStarts
    <3>3. then[d].kind = "none"
      BY <3>2, FreshTypes DEF PanelInv, Callings, Engaged, Free
    <3>. QED
      BY <2>2, <3>3 DEF Asks
  <2>8. ASSUME NEW c \in Callers, Resume(c) \/ Throw(c) PROVE FALSE
    BY <2>5, <2>8, CallerEnds
  <2>9. CASE AuditEvent \/ Dispose \/ Mount \/ Receive
    BY <2>5, <2>9, PanelMoves
  <2>. QED
    BY <2>6, <2>7, <2>8, <2>9 DEF PanelNext
<1>3. CASE then'[d] # then[d]
  <2>1. CASE World
    BY <1>3, <2>1, WorldMoves DEF panelVars
  <2>2. ASSUME NEW c \in Callers,
               OpenCommand(c) \/ OnMessage(c) \/ RebuildCommand(c) \/ GraphEvent(c)
        PROVE  FALSE
    <3>1. c = d
      BY <1>3, <2>2, CallerStarts
    <3>2. then'[d].kind = "request"
      BY DEF Asks
    <3>3. OnMessage(c)
      BY <1>3, <2>2, <3>1, <3>2, Typed DEF OpenCommand, RebuildCommand, GraphEvent
    <3>4. call'[d].st = "waiting" /\ state.graph = None
      BY <2>2, <1>3, <3>1, <3>2, CallerStarts DEF Reloads
    <3>5. ui.shown.graph = None
      BY <3>4, Showing DEF Real
    <3>. QED
      BY <3>3, <3>5 DEF OnMessage
  <2>3. ASSUME NEW c \in Callers, Resume(c) \/ Throw(c) PROVE FALSE
    <3>1. then'[d] = Idle
      BY <1>3, <2>3, CallerEnds
    <3>. QED
      BY <3>1, FreshTypes DEF Asks
  <2>4. CASE AuditEvent \/ Dispose \/ Mount \/ Receive
    BY <1>3, <2>4, PanelMoves
  <2>. QED
    BY <2>1, <2>2, <2>3, <2>4 DEF PanelNext
<1>4. CASE open' # open
  <2>1. ui' = FreshUi
    <3>1. CASE World
      BY <1>4, <3>1, WorldMoves DEF panelVars
    <3>. QED
      BY <1>4, <3>1, Received
         DEF PanelNext, OpenCommand, OnMessage, RebuildCommand, GraphEvent, Resume, Throw,
             AuditEvent, Dispose, Mount, FreshChannels
  <2>. QED
    BY <1>1, <2>1
<1>. QED
  BY <1>2, <1>3, <1>4

LEMMA ShownPreserved == ASSUME PanelInv, PanelNext PROVE Shown'
<1>1. AnswersHaveGraphs'
  BY AnswersComeFrom, Showing DEF AnswersHaveGraphs, IsAnswer
<1>2. ui'.shown.graph # None => state.graph # None
  BY ShownComesFrom, Showing, FreshTypes DEF Real, AnswersHaveGraphs
<1>3. (\E i \in DOMAIN toUi' : IsAnswer(i)') => state.graph # None
  BY AnswersComeFrom, Showing DEF Real
<1>4. Real'
  BY <1>2, <1>3, GraphStays DEF Real, IsAnswer
<1>5. Unasked'
  BY ShownComesFrom, Showing, FreshTypes, Placed DEF Unasked
<1>. QED
  BY <1>1, <1>4, <1>5, WaitedFirstPreserved DEF Shown

-----------------------------------------------------------------------------
(* What follows an answer, and what is shown. *)

LEMMA Following ==
  ASSUME PanelInv
  PROVE  Engaged /\ Reloading /\ AnswersFollowed /\ ShownFollowed
BY DEF PanelInv, Callings

(* A refresh posted to the open panel is behind everything else. *)
LEMMA RefreshFollows ==
  ASSUME PanelInv, open # 0, Post(open, Refresh), NEW i \in DOMAIN toUi \cup {0}
  PROVE  Followed(i)'
<1>1. /\ Len(toUi) \in Nat /\ Len(toUi) + 1 \in DOMAIN toUi'
      /\ toUi'[Len(toUi) + 1] = Refresh /\ i <= Len(toUi) /\ i \in Nat
  BY FreshTypes, Posted
<1>2. Len(toUi) + 1 > i
  BY <1>1
<1>. QED
  BY <1>1, <1>2, FreshTypes DEF Followed

(* While the panel stays open, messages are only added behind the others. *)
LEMMA MessagesStay ==
  ASSUME PanelInv, PanelNext, ~Receive, open' = open, open # 0
  PROVE  \A i \in DOMAIN toUi : i \in DOMAIN toUi' /\ toUi'[i] = toUi[i]
<1>1. ASSUME NEW m \in Messages, NEW p, Post(p, m)
      PROVE  \A i \in DOMAIN toUi : i \in DOMAIN toUi' /\ toUi'[i] = toUi[i]
  BY <1>1, Posted
<1>2. CASE World
  BY <1>2, WorldMoves DEF panelVars
<1>3. ASSUME NEW c \in Callers, Resume(c)
      PROVE  \A i \in DOMAIN toUi : i \in DOMAIN toUi' /\ toUi'[i] = toUi[i]
  BY <1>1, <1>3, Resumed, FreshTypes
<1>4. ASSUME NEW c \in Callers PROVE ~OpenCommand(c)
  BY DEF OpenCommand
<1>. QED
  BY <1>1, <1>2, <1>3, <1>4, FreshTypes
     DEF PanelNext, OnMessage, RebuildCommand, GraphEvent, Throw, AuditEvent, Dispose, Mount

(* Whoever is about to refresh the panel does so in a step of its own. *)
LEMMA ComingStays ==
  ASSUME PanelInv, PanelNext, open' = open, open # 0, Coming
  PROVE  Coming' \/ (~Receive /\ Post(open, Refresh))
<1>1. CASE missed
  <2>1. CASE World
    BY <1>1, <2>1, WorldMoves DEF panelVars, Coming
  <2>. QED
    BY <1>1, <2>1, Received
       DEF Coming, PanelNext, OpenCommand, OnMessage, RebuildCommand, GraphEvent, Resume, Throw,
           AuditEvent, Dispose, Mount
<1>2. ASSUME NEW d \in Callers, call[d].st = "done", then[d].kind \in Reloads
      PROVE  Coming' \/ (~Receive /\ Post(open, Refresh))
  <2>1. CASE call'[d] = call[d] /\ then'[d] = then[d]
    BY <1>2, <2>1 DEF Coming
  <2>2. CASE World
    BY <1>2, <2>1, <2>2, WorldMoves DEF panelVars
  <2>3. ASSUME NEW c \in Callers,
               OpenCommand(c) \/ OnMessage(c) \/ RebuildCommand(c) \/ GraphEvent(c)
        PROVE  call'[d] = call[d] /\ then'[d] = then[d]
    BY <1>2, <2>3, CallerStarts
  <2>4. ASSUME NEW c \in Callers, c # d, Resume(c) \/ Throw(c)
        PROVE  call'[d] = call[d] /\ then'[d] = then[d]
    BY <2>4, CallerEnds
  <2>5. CASE Throw(d)
    BY <1>2, <2>5 DEF Throw
  <2>6. CASE Resume(d)
    <3>1. Post(RefreshTarget(d), Refresh) /\ missed' = (missed \/ Overlooks(d))
      BY <1>2, <2>6 DEF Resume, Reloads
    <3>2. CASE Overlooks(d)
      BY <3>1, <3>2 DEF Coming
    <3>3. CASE ~Overlooks(d)
      <4>1. RefreshTarget(d) = open
        BY <1>2, <3>3 DEF Overlooks, RefreshTarget, Reloads
      <4>2. ~Receive
        BY <2>6, CallerEnds, FreshTypes, Received, <1>2 DEF Reloads
      <4>. QED
        BY <3>1, <4>1, <4>2
    <3>. QED
      BY <3>2, <3>3
  <2>7. CASE AuditEvent \/ Dispose \/ Mount \/ Receive
    BY <2>1, <2>7, PanelMoves
  <2>. QED
    BY <2>1, <2>2, <2>3, <2>4, <2>5, <2>6, <2>7 DEF PanelNext
<1>. QED
  BY <1>1, <1>2 DEF Coming

(* A state that replaces one with a graph is announced. *)
LEMMA StateFollowed ==
  ASSUME PanelInv, PanelNext, open # 0, state.graph # None, state' # state
  PROVE  Coming' \/ (~Receive /\ Post(open, Refresh))
<1>1. CASE World
  <2>1. /\ loading # None /\ then' = then
        /\ \A c \in Callers : call[c].st = "waiting" => call'[c].st = "done"
    BY <1>1, WorldMoves DEF panelVars
  <2>. QED
    BY <2>1, Following DEF Reloading, Coming
<1>2. CASE AuditEvent
  <2>1. ~Receive
    BY <1>2, Received
  <2>. QED
    BY <1>2, <2>1 DEF AuditEvent
<1>. QED
  BY <1>1, <1>2, CallerStarts, CallerEnds, PanelMoves DEF PanelNext

LEMMA FollowedStays ==
  ASSUME PanelInv, PanelNext, ~Receive, open' = open, open # 0,
         NEW i \in DOMAIN toUi \cup {0}, Followed(i) \/ (state' # state /\ state.graph # None)
  PROVE  Followed(i)'
<1>1. CASE Post(open, Refresh)
  BY <1>1, RefreshFollows
<1>2. CASE Coming'
  BY <1>2 DEF Followed
<1>3. CASE \E j \in DOMAIN toUi : j > i /\ toUi[j].kind = "refresh"
  BY <1>3, MessagesStay DEF Followed
<1>. QED
  BY <1>1, <1>2, <1>3, ComingStays, StateFollowed DEF Followed

(* The channel moves up by one. *)
LEMMA FollowedMoves ==
  ASSUME PanelInv, Receive, NEW i \in DOMAIN toUi, NEW k \in Nat, i = k + 1, Followed(i)
  PROVE  Followed(k)'
<1>0. /\ PanelNext /\ toUi # << >> /\ toUi' = Tail(toUi)
      /\ open' = open /\ open # 0
  BY Received DEF PanelNext
<1>1. CASE Coming
  <2>1. Coming'
    BY <1>0, <1>1, ComingStays
  <2>. QED
    BY <2>1 DEF Followed
<1>2. ASSUME NEW j \in DOMAIN toUi, j > i, toUi[j].kind = "refresh" PROVE Followed(k)'
  <2>0. j \in Nat
    BY <1>0, TakenUi
  <2>1. j \in Nat /\ j # 1
    BY <1>2, <2>0
  <2>2. j - 1 \in DOMAIN toUi' /\ toUi'[j - 1] = toUi[j] /\ j - 1 > k
    BY <1>0, <1>2, <2>1, TakenUi
  <2>. QED
    BY <1>2, <2>2 DEF Followed
<1>. QED
  BY <1>1, <1>2 DEF Followed

LEMMA Reopened ==
  ASSUME PanelInv, PanelNext, open' # open PROVE ui' = FreshUi /\ toUi' = << >>
<1>1. CASE World
  BY <1>1, WorldMoves DEF panelVars
<1>. QED
  BY <1>1, Received
     DEF PanelNext, OpenCommand, OnMessage, RebuildCommand, GraphEvent, Resume, Throw, AuditEvent,
         Dispose, Mount, FreshChannels

LEMMA AnswersFollowedPreserved == ASSUME PanelInv, PanelNext PROVE AnswersFollowed'
<1>. SUFFICES ASSUME open' # 0, NEW i \in DOMAIN toUi', IsAnswer(i)', toUi'[i].about # state'
              PROVE  Followed(i)'
  BY DEF AnswersFollowed
<1>1. open' = open /\ open # 0
  BY Reopened
<1>2. CASE Receive
  <2>1. i \in Nat /\ i + 1 \in DOMAIN toUi /\ toUi'[i] = toUi[i + 1] /\ state' = state
    BY <1>2, Received, TakenUi
  <2>2. Followed(i + 1)
    BY <1>1, <2>1, Following DEF AnswersFollowed, IsAnswer
  <2>. QED
    BY <1>2, <2>1, <2>2, FollowedMoves
<1>3. CASE ~Receive /\ i \in DOMAIN toUi
  <2>1. /\ toUi[i] = toUi'[i] /\ IsAnswer(i) /\ state.graph # None
        /\ toUi[i].about # state'
    BY <1>1, <1>3, MessagesStay, Showing DEF IsAnswer, Real
  <2>2. Followed(i) \/ state' # state
    BY <1>1, <1>3, <2>1, Following DEF AnswersFollowed
  <2>. QED
    BY <1>1, <1>3, <2>1, <2>2, FollowedStays
<1>4. CASE ~Receive /\ i \notin DOMAIN toUi
  <2>1. ASSUME NEW m \in Messages, NEW p, Post(p, m) PROVE toUi'[i] = m
    BY <1>4, <2>1, Posted
  <2>2. ASSUME NEW c \in Callers, Resume(c) PROVE FALSE
    <3>1. state' = state
      BY <2>2, CallerEnds
    <3>. QED
      BY <1>4, <2>1, <2>2, <3>1, Resumed, FreshTypes DEF IsAnswer
  <2>3. ~AuditEvent
    BY <1>4, <2>1, FreshTypes DEF AuditEvent, IsAnswer
  <2>4. CASE World
    BY <1>4, <2>4, WorldMoves DEF panelVars
  <2>. QED
    BY <1>1, <1>4, <2>2, <2>3, <2>4
       DEF PanelNext, OpenCommand, OnMessage, RebuildCommand, GraphEvent, Throw, Dispose, Mount
<1>. QED
  BY <1>2, <1>3, <1>4

(* A request that is answered is answered about the state of the moment; one *)
(* that is dropped had nothing on screen to be behind.                       *)
LEMMA RepliesStay ==
  ASSUME PanelInv, PanelNext, ~Receive, open' = open, open # 0, ui' = ui, state' = state,
         ui.shown.graph # None, ReplyComing
  PROVE  ReplyComing'
<1>1. CASE \E i \in DOMAIN toUi : toUi[i].id = ui.asked /\ toUi[i].about = state
  BY <1>1, MessagesStay DEF ReplyComing
<1>2. ASSUME NEW i \in DOMAIN toHost, toHost[i] = ui.asked PROVE ReplyComing'
  <2>1. CASE toHost' = toHost
    BY <1>2, <2>1 DEF ReplyComing
  <2>2. ASSUME NEW c \in Callers, OnMessage(c) PROVE ReplyComing'
    <3>1. /\ toHost # << >> /\ toHost' = Tail(toHost)
          /\ then'[c].kind = "request" /\ then'[c].panel = open /\ then'[c].id = Head(toHost)
      BY <2>2, Typed DEF OnMessage
    <3>2. /\ Head(toHost) = toHost[1]
          /\ i # 1 => i - 1 \in DOMAIN toHost' /\ toHost'[i - 1] = toHost[i]
      BY <3>1, Typed, Tailed
    <3>3. CASE i = 1
      BY <1>2, <3>1, <3>2, <3>3 DEF ReplyComing
    <3>4. CASE i # 1
      BY <1>2, <3>2, <3>4 DEF ReplyComing
    <3>. QED
      BY <3>3, <3>4
  <2>3. CASE Mount
    BY <2>3, Placed, Typed DEF Mount, Ask
  <2>4. ASSUME NEW c \in Callers PROVE ~OpenCommand(c)
    BY DEF OpenCommand
  <2>5. CASE World
    BY <2>1, <2>5, WorldMoves DEF panelVars
  <2>. QED
    BY <2>1, <2>2, <2>3, <2>4, <2>5
       DEF PanelNext, RebuildCommand, GraphEvent, Resume, Throw, AuditEvent, Dispose
<1>3. ASSUME NEW d \in Callers, then[d].kind = "request", then[d].panel = open,
             then[d].id = ui.asked
      PROVE  ReplyComing'
  <2>1. CASE then'[d] = then[d]
    BY <1>3, <2>1 DEF ReplyComing
  <2>2. Asks(d)
    BY <1>3 DEF Asks
  <2>3. CASE World
    BY <2>1, <2>3, WorldMoves DEF panelVars
  <2>4. ASSUME NEW c \in Callers,
               OpenCommand(c) \/ OnMessage(c) \/ RebuildCommand(c) \/ GraphEvent(c)
        PROVE  then'[d] = then[d]
    <3>1. CASE c # d
      BY <2>4, <3>1, CallerStarts
    <3>2. CASE c = d
      <4>1. call[d].st = "idle"
        BY <2>4, <3>2, CallerStarts
      <4>2. then[d].kind = "none"
        BY <4>1, Following, FreshTypes DEF Engaged, Free
      <4>. QED
        BY <1>3, <4>2
    <3>. QED
      BY <3>1, <3>2
  <2>5. ASSUME NEW c \in Callers, c # d, Resume(c) \/ Throw(c) PROVE then'[d] = then[d]
    BY <2>5, CallerEnds
  <2>6. CASE Throw(d)
    <3>1. call[d].st = "failed"
      BY <2>6 DEF Throw
    <3>. QED
      BY <2>2, <3>1, Showing DEF WaitedFirst
  <2>7. CASE Resume(d)
    <3>1. PICK m \in Messages : /\ Post(open, m) /\ m.id = ui.asked /\ m.about = state
      BY <1>3, <2>7, Resumed DEF Reloads
    <3>2. Len(toUi) + 1 \in DOMAIN toUi' /\ toUi'[Len(toUi) + 1] = m
      BY <3>1, Posted
    <3>. QED
      BY <3>1, <3>2 DEF ReplyComing
  <2>8. CASE AuditEvent \/ Dispose \/ Mount \/ Receive
    BY <2>1, <2>8, PanelMoves
  <2>. QED
    BY <2>1, <2>3, <2>4, <2>5, <2>6, <2>7, <2>8 DEF PanelNext
<1>. QED
  BY <1>1, <1>2, <1>3 DEF ReplyComing

LEMMA AskComes ==
  ASSUME PanelInv, Ask PROVE ReplyComing'
<1>1. /\ Len(toHost) + 1 \in DOMAIN toHost' /\ toHost'[Len(toHost) + 1] = ui.asked + 1
      /\ ui'.asked = ui.asked + 1
  <2>1. toHost \in Seq(Nat) /\ ui.asked + 1 \in Nat
    BY Typed, Placed
  <2>2. Len(toHost) \in Nat
    BY <2>1, Appended
  <2>. QED
    BY <2>1, <2>2, Typed, Appended DEF Ask
<1>. QED
  BY <1>1 DEF ReplyComing

LEMMA ReceivedFollowed ==
  ASSUME PanelInv, Receive, Behind' PROVE ReplyComing' \/ Followed(0)'
<1>1. /\ toUi # << >> /\ toUi' = Tail(toUi) /\ UNCHANGED <<open, then, call, state, missed>>
      /\ open # 0
  BY Received
<1>2. /\ 1 \in DOMAIN toUi /\ Head(toUi) = toUi[1]
      /\ \A i \in DOMAIN toUi : i \in Nat \ {0}
      /\ \A i \in DOMAIN toUi : i # 1 => i - 1 \in DOMAIN toUi' /\ toUi'[i - 1] = toUi[i]
  BY <1>1, TakenUi
<1>3. CASE Ask
  BY <1>3, AskComes
<1>4. CASE IsAnswer(1) /\ ui'.shown = toUi[1].about
  <2>1. toUi[1].about # state
    BY <1>1, <1>4 DEF Behind
  <2>2. Followed(1)
    BY <1>1, <1>2, <1>4, <2>1, Following DEF AnswersFollowed
  <2>. QED
    BY <1>2, <2>2, FollowedMoves
<1>5. CASE UNCHANGED <<ui, toHost>> /\ IsAnswer(1) /\ Head(toUi).id # ui.asked
  <2>1. Behind
    BY <1>1, <1>5 DEF Behind
  <2>2. CASE Followed(0)
    <3>1. Followed(1)
      <4>1. CASE Coming
        BY <4>1 DEF Followed
      <4>2. ASSUME NEW j \in DOMAIN toUi, toUi[j].kind = "refresh" PROVE j > 1
        <5>1. j # 1
          BY <1>5, <4>2 DEF IsAnswer
        <5>. QED
          BY <1>2, <5>1
      <4>. QED
        BY <2>2, <4>1, <4>2 DEF Followed
    <3>. QED
      BY <1>2, <3>1, FollowedMoves
  <2>3. CASE ReplyComing
    <3>1. \A i \in DOMAIN toUi : toUi[i].id = ui.asked => i # 1
      BY <1>2, <1>5
    <3>. QED
      BY <1>1, <1>2, <1>5, <2>3, <3>1 DEF ReplyComing
  <2>. QED
    BY <2>1, <2>2, <2>3, Following DEF ShownFollowed
<1>6. CASE UNCHANGED <<ui, toHost>> /\ ui.asked = 0
  BY <1>1, <1>6, Showing DEF Behind, Unasked
<1>. QED
  BY <1>2, <1>3, <1>4, <1>5, <1>6, Received

LEMMA ShownFollowedPreserved == ASSUME PanelInv, PanelNext PROVE ShownFollowed'
<1>. SUFFICES ASSUME Behind' PROVE ReplyComing' \/ Followed(0)'
  BY DEF ShownFollowed
<1>1. open' = open /\ open # 0
  BY Reopened, FreshTypes DEF Behind
<1>2. CASE Receive
  BY <1>2, ReceivedFollowed
<1>3. CASE Mount
  BY <1>3, AskComes DEF Mount
<1>4. CASE ~Receive /\ ~Mount
  <2>1. ui' = ui
    <3>1. CASE World
      BY <3>1, WorldMoves DEF panelVars
    <3>. QED
      BY <1>1, <1>4, <3>1
         DEF PanelNext, OpenCommand, OnMessage, RebuildCommand, GraphEvent, Resume, Throw,
             AuditEvent, Dispose
  <2>2. ui.shown.graph # None /\ state.graph # None
    BY <2>1, Showing DEF Behind, Real
  <2>3. CASE state' # state
    BY <1>1, <1>4, <2>2, <2>3, FollowedStays
  <2>4. CASE state' = state
    <3>1. Behind
      BY <1>1, <2>1, <2>4 DEF Behind
    <3>. QED
      BY <1>1, <1>4, <2>1, <2>2, <2>4, <3>1, Following, FollowedStays, RepliesStay
         DEF ShownFollowed
  <2>. QED
    BY <2>3, <2>4
<1>. QED
  BY <1>2, <1>3, <1>4

-----------------------------------------------------------------------------
(* The invariant *)

LEMMA PanelInitially == ASSUME PanelInit PROVE PanelInv
<1>. USE DEF PanelInit
<1>1. TypeOK /\ OneLoadInFlight /\ WaitersHaveALoad
  BY InitEstablishes DEF IInv
<1>2. PanelTypeOK
  <2>1. toHost \in Seq(Nat) /\ toUi \in Seq(Messages)
    BY Emptied
  <2>2. then \in [Callers -> Promises] /\ ui \in [asked : Nat, answered : Nat, shown : State]
    BY FreshTypes
  <2>3. open \in 0..MaxPanels /\ made \in 0..MaxPanels
    OBVIOUS
  <2>4. missed \in BOOLEAN /\ dropped \in BOOLEAN
    OBVIOUS
  <2>. HIDE DEF PanelInit
  <2>. QED
    BY <1>1, <2>1, <2>2, <2>3, <2>4 DEF PanelTypeOK, Messages, Promises
<1>3. \A c \in Callers : call[c].st = "idle" /\ then[c] = Idle
  BY DEF Init, IdleCall
<1>4. Callings
  BY <1>3 DEF Callings, Engaged, HasGraph, Reloading, Free, Init
<1>5. Places
  BY <1>3, FreshTypes DEF Places, Closed, Older, Bounded, Once, Asks, IsAnswer
<1>6. Shown
  BY <1>3, FreshTypes DEF Shown, Real, AnswersHaveGraphs, Unasked, WaitedFirst, Asks, IsAnswer
<1>7. AnswersFollowed /\ ShownFollowed
  BY FreshTypes DEF AnswersFollowed, ShownFollowed, Behind
<1>. QED
  BY <1>1, <1>2, <1>4, <1>5, <1>6, <1>7 DEF PanelInv

LEMMA PanelTypesPreserved ==
  ASSUME PanelInv, PanelNext PROVE PanelTypeOK' /\ OneLoadInFlight' /\ WaitersHaveALoad'
BY WorldTypes, CallerTypes, ContinuationTypes, PanelTypes DEF PanelNext

LEMMA PanelStutters == ASSUME PanelInv, UNCHANGED allVars PROVE PanelInv'
<1>. USE DEF allVars, panelVars, vars, disk, session
<1>1. PanelTypeOK' /\ OneLoadInFlight' /\ WaitersHaveALoad'
  BY DEF PanelInv, PanelTypeOK, TypeOK, OneLoadInFlight, WaitersHaveALoad
<1>2. Callings'
  BY DEF PanelInv, Callings, Engaged, HasGraph, Reloading, Free
<1>3. Places'
  BY DEF PanelInv, Places, Closed, Older, Bounded, Once, Asks, IsAnswer
<1>4. Shown'
  BY DEF PanelInv, Shown, Real, AnswersHaveGraphs, Unasked, WaitedFirst, Asks, IsAnswer
<1>5. AnswersFollowed' /\ ShownFollowed'
  BY DEF PanelInv, AnswersFollowed, ShownFollowed, Behind, ReplyComing, Followed, Coming, IsAnswer
<1>. QED
  BY <1>1, <1>2, <1>3, <1>4, <1>5 DEF PanelInv

(* session.ts:97-118, panel.ts:87-190, extension.ts:229-256 — the invariant  *)
(* the panel's steps keep.                                                   *)
THEOREM PanelInvariance == PanelSpec => []PanelInv
<1>1. PanelInit => PanelInv
  BY PanelInitially
<1>2. PanelInv /\ [PanelNext]_allVars => PanelInv'
  <2>1. ASSUME PanelInv, PanelNext PROVE PanelInv'
    BY <2>1, PanelTypesPreserved, CallingsPreserved, PlacesPreserved, ShownPreserved,
       AnswersFollowedPreserved, ShownFollowedPreserved DEF PanelInv
  <2>. QED
    BY <2>1, PanelStutters
<1>. QED
  BY <1>1, <1>2, PTL DEF PanelSpec

(* panel.ts, extension.ts, App.tsx — what callers, channels and webview hold *)
(* is always one of the values their types allow.                            *)
THEOREM PanelTypeCorrect == PanelSpec => []PanelTypeOK
<1>1. PanelInv => PanelTypeOK
  BY DEF PanelInv
<1>. QED
  BY <1>1, PanelInvariance, PTL

(* vscode.ts:116-117, panel.ts:127 — a panel that shows something else than  *)
(* the session holds will hear of it, except the one opened under a watcher's*)
(* reload.                                                                   *)
THEOREM BehindPanelsAreFollowed == PanelSpec => []BehindIsFollowed
<1>1. ASSUME PanelInv PROVE BehindIsFollowed
  <2>. SUFFICES ASSUME Behind, ~ReplyComing, ~missed
                PROVE  RefreshComing \/ \E c \in Callers : call[c].st = "done" /\ Overlooks(c)
    BY DEF BehindIsFollowed
  <2>1. Followed(0) /\ open # 0
    BY <1>1, Following DEF ShownFollowed, Behind
  <2>2. CASE \E j \in DOMAIN toUi : toUi[j].kind = "refresh"
    BY <2>2 DEF RefreshComing
  <2>3. ASSUME NEW c \in Callers, call[c].st = "done", then[c].kind \in Reloads
        PROVE  RefreshComing \/ Overlooks(c)
    BY <2>1, <2>3 DEF RefreshComing, RefreshTarget, Overlooks, Reloads
  <2>. QED
    BY <2>1, <2>2, <2>3 DEF Followed, Coming
<1>. QED
  BY <1>1, PanelInvariance, PTL
=============================================================================
