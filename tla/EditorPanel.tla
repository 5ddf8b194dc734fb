----------------------------- MODULE EditorPanel -----------------------------
(***************************************************************************)
(* The folder's session composed with what answers from it: the commands   *)
(* and the artifact watch of extension.ts, the one GraphPanel a folder may *)
(* have open, its message handler, and the webview's bridge at the far end *)
(* of two FIFO channels.  Every caller of the session is a continuation:   *)
(* `then` is what the code after its `await` will do, and that code is an  *)
(* action of its own.  The webview is one composite request (App.tsx sends *)
(* meta, auditState, view, inspect and source by the same rule): it asks   *)
(* when it mounts and at every refresh, and an answer to an earlier ask is *)
(* dropped.                                                                *)
(***************************************************************************)
EXTENDS EditorSession, Sequences

CONSTANTS MaxPanels   \* bound on panels opened one after the other

ASSUME PanelsAssumption == MaxPanels \in Nat

VARIABLES
  open,    \* GraphPanel.open for this folder: a panel, or 0
  made,    \* panels created so far
  then,    \* what each caller of the session does when its await returns
  ui,      \* the open panel's webview: last ask, last reply, what it shows
  toHost,  \* its requests on their way to the host
  toUi,    \* the host's messages on their way to it
  missed,  \* a watcher's reload ended without refreshing the open panel
  dropped  \* ready() threw for a request of the open panel

panelVars == <<open, made, then, ui, toHost, toUi, missed, dropped>>
allVars == <<vars, panelVars>>

Panels == 1..MaxPanels
Idle == [kind |-> "none", panel |-> 0, id |-> 0]
FreshUi == [asked |-> 0, answered |-> 0, shown |-> [graph |-> None, audit |-> None]]
Refresh == [kind |-> "refresh", id |-> 0, about |-> [graph |-> None, audit |-> None]]
Reply(id) == [kind |-> "answer", id |-> id, about |-> state]

PanelTypeOK ==
  /\ TypeOK
  /\ open \in 0..MaxPanels /\ made \in 0..MaxPanels
  /\ then \in [Callers -> [kind : {"none", "open", "rebuild", "artifact", "request"},
                           panel : 0..MaxPanels, id : Nat]]
  /\ ui \in [asked : Nat, answered : Nat, shown : State]
  /\ toHost \in Seq(Nat)
  /\ toUi \in Seq([kind : {"refresh", "answer"}, id : Nat, about : State])
  /\ missed \in BOOLEAN /\ dropped \in BOOLEAN

PanelInit ==
  /\ Init
  /\ open = 0 /\ made = 0
  /\ then = [c \in Callers |-> Idle]
  /\ ui = FreshUi
  /\ toHost = << >> /\ toUi = << >>
  /\ missed = FALSE /\ dropped = FALSE

Free(c) == then[c] = Idle

-----------------------------------------------------------------------------
(* panel.ts *)

(* postMessage: a panel that is gone receives nothing. *)
Post(p, m) == toUi' = IF p # 0 /\ p = open THEN Append(toUi, m) ELSE toUi

FreshChannels ==
  /\ ui' = FreshUi
  /\ toHost' = << >> /\ toUi' = << >>
  /\ missed' = FALSE /\ dropped' = FALSE

(* GraphPanel.show: the panel is put in the map before the graph is loaded.  *)
(* With one open already the command only reveals it.                        *)
OpenCommand(c) ==
  /\ open = 0 /\ made < MaxPanels /\ Free(c)
  /\ open' = made + 1 /\ made' = made + 1
  /\ FreshChannels
  /\ Ready(c)
  /\ then' = [then EXCEPT ![c] = [kind |-> "open", panel |-> made + 1, id |-> 0]]

(* The user closes the tab: dispose() empties the map and the listeners. *)
Dispose ==
  /\ open # 0
  /\ open' = 0
  /\ FreshChannels
  /\ UNCHANGED <<vars, made, then>>

(* #onMessage up to its await of session.ready(). *)
OnMessage(c) ==
  /\ toHost # << >> /\ Free(c)
  /\ toHost' = Tail(toHost)
  /\ Ready(c)
  /\ then' = [then EXCEPT ![c] = [kind |-> "request", panel |-> open, id |-> Head(toHost)]]
  /\ UNCHANGED <<open, made, ui, toUi, missed, dropped>>

-----------------------------------------------------------------------------
(* extension.ts *)

RebuildCommand(c) ==
  /\ Free(c)
  /\ Reload(c)
  /\ then' = [then EXCEPT ![c] = [kind |-> "rebuild", panel |-> 0, id |-> 0]]
  /\ UNCHANGED <<open, made, ui, toHost, toUi, missed, dropped>>

(* onArtifact for graph.json: the panel to refresh is looked up now. *)
GraphEvent(c) ==
  /\ Free(c)
  /\ OnGraphEvent(c)
  /\ then' = IF state.graph = None THEN then
             ELSE [then EXCEPT ![c] = [kind |-> "artifact", panel |-> open, id |-> 0]]
  /\ UNCHANGED <<open, made, ui, toHost, toUi, missed, dropped>>

(* onArtifact for review.json and findings.json, all in one run. *)
AuditEvent ==
  /\ OnAuditEvent
  /\ IF state.graph = None THEN UNCHANGED toUi ELSE Post(open, Refresh)
  /\ UNCHANGED <<open, made, then, ui, toHost, missed, dropped>>

(* Faulty: the rebuild command, too, keeps the panel it saw when it began. *)
RefreshTargetKept(c) == then[c].panel

(* The panel a finished reload refreshes: the rebuild command looks it up    *)
(* after its await, the watcher before.                                      *)
RefreshTarget(c) == IF then[c].kind = "rebuild" THEN open ELSE then[c].panel

Overlooks(c) == open # 0 /\ then[c].kind = "artifact" /\ then[c].panel # open

Forget(c) ==
  /\ then' = [then EXCEPT ![c] = Idle]
  /\ call' = [call EXCEPT ![c] = IdleCall]

(* What follows the await of caller c, once its promise has resolved. *)
Resume(c) ==
  /\ ~ Free(c) /\ call[c].st = "done"
  /\ Forget(c)
  /\ CASE then[c].kind = "open"    -> UNCHANGED toUi
       [] then[c].kind = "request" -> Post(then[c].panel, Reply(then[c].id))
       [] OTHER                    -> Post(RefreshTarget(c), Refresh)
  /\ missed' = (missed \/ Overlooks(c))
  /\ UNCHANGED <<disk, events, session, open, made, ui, toHost, dropped>>

(* It threw: the commands report it; #onMessage's promise is void, and the   *)
(* request gets no answer of any kind.                                       *)
Throw(c) ==
  /\ ~ Free(c) /\ call[c].st = "failed"
  /\ Forget(c)
  /\ dropped' = (dropped \/ (then[c].kind = "request" /\ then[c].panel = open))
  /\ UNCHANGED <<disk, events, session, open, made, ui, toHost, toUi, missed>>

-----------------------------------------------------------------------------
(* The webview: vscode.ts (the bridge) and App.tsx (its request effects). *)

Ask ==
  /\ toHost' = Append(toHost, ui.asked + 1)
  /\ ui' = [ui EXCEPT !.asked = @ + 1]

Mount ==
  /\ open # 0 /\ ui.asked = 0
  /\ Ask
  /\ UNCHANGED <<vars, open, made, then, toUi, missed, dropped>>

(* Faulty: compares with the last answer for the last ask. *)
ShowStale(m) ==
  /\ ui' = IF m.id = ui.answered THEN [ui EXCEPT !.answered = m.id, !.shown = m.about] ELSE ui
  /\ UNCHANGED toHost

(* Only the answer to the last ask is shown: the effect that sent an earlier *)
(* one was cleaned up when the generation changed.                           *)
Show(m) ==
  /\ ui' = IF m.id = ui.asked THEN [ui EXCEPT !.answered = m.id, !.shown = m.about] ELSE ui
  /\ UNCHANGED toHost

(* Before React has mounted nothing listens, and the mount will ask anyway. *)
Receive ==
  /\ toUi # << >>
  /\ toUi' = Tail(toUi)
  /\ LET m == Head(toUi) IN
       IF ui.asked = 0 THEN UNCHANGED <<ui, toHost>>
       ELSE IF m.kind = "refresh" THEN Ask ELSE Show(m)
  /\ UNCHANGED <<vars, open, made, then, missed, dropped>>

-----------------------------------------------------------------------------
(* A build in a terminal and a rewrite of an audit file, each in one step:   *)
(* EditorSession has the moments between their halves.  A build whose event  *)
(* MaxLoads would leave unanswered is not made.                              *)
CliBuild ==
  /\ started < MaxLoads
  /\ artifact' = [graph |-> sources, current |-> TRUE]
  /\ events' = events \cup {"graph"}
  /\ UNCHANGED <<sources, cli, audit, torn, session, call>>

AuditWrite ==
  /\ audit < MaxAudits
  /\ audit' = audit + 1
  /\ events' = events \cup {"audit"}
  /\ UNCHANGED <<sources, artifact, cli, torn, session, call>>

World ==
  /\ \/ Edit \/ CliBuild \/ AuditWrite
     \/ \E l \in LoadIds : ReadSources(l) \/ LoadDone(l) \/ LoadFail(l)
  /\ UNCHANGED panelVars

PanelNext ==
  \/ World
  \/ \E c \in Callers : OpenCommand(c) \/ OnMessage(c) \/ RebuildCommand(c)
                          \/ GraphEvent(c) \/ Resume(c) \/ Throw(c)
  \/ AuditEvent \/ Dispose \/ Mount \/ Receive

PanelSpec == PanelInit /\ [][PanelNext]_allVars

(* A load in flight goes on to its end, both channels deliver, and the       *)
(* extension host runs every handler and continuation that is ready.         *)
PanelFairness ==
  /\ \A l \in LoadIds : WF_allVars((ReadSources(l) \/ LoadDone(l)) /\ UNCHANGED panelVars)
  /\ WF_allVars(\E c \in Callers : OnMessage(c))
  /\ \A c \in Callers : WF_allVars(Resume(c) \/ Throw(c))
  /\ WF_allVars(Mount) /\ WF_allVars(Receive)

FairPanelSpec == PanelSpec /\ PanelFairness

-----------------------------------------------------------------------------
(* Properties *)

(* A reply that will be shown, or a request that is still to be answered. *)
ReplyComing ==
  \/ \E i \in DOMAIN toHost : toHost[i] = ui.asked
  \/ \E c \in Callers :
       then[c].kind = "request" /\ then[c].panel = open /\ then[c].id = ui.asked
  \/ \E i \in DOMAIN toUi : toUi[i].id = ui.asked /\ toUi[i].about = state

RefreshComing ==
  \/ \E i \in DOMAIN toUi : toUi[i].kind = "refresh"
  \/ \E c \in Callers :
       /\ call[c].st = "done"
       /\ then[c].kind \in {"rebuild", "artifact"}
       /\ RefreshTarget(c) = open

Behind == open # 0 /\ ui.shown.graph # None /\ ui.shown # state

(* vscode.ts:116-117, panel.ts:127 — what the panel shows is what the session *)
(* holds, or a refresh or a newer answer is on its way to it; the exception  *)
(* is a panel opened while a watcher's reload was already under way.         *)
BehindIsFollowed ==
  Behind => ReplyComing \/ RefreshComing \/ missed
              \/ \E c \in Callers : call[c].st = "done" /\ Overlooks(c)

(* panel.ts:173-180 — a request waits for the graph and is answered, unless   *)
(* the panel is closed, the webview asked again or the build threw.          *)
RequestsResolve ==
  \A p \in Panels :
    open = p /\ ui.asked > ui.answered
      ~> open # p \/ ui.asked = ui.answered \/ dropped
=============================================================================
