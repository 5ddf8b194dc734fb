----------------------------- MODULE GraphHolder -----------------------------
(***************************************************************************)
(* What the extension promises the features that answer from its session:  *)
(* one graph per workspace folder, "because three features holding three   *)
(* graphs would disagree".  The sources and the audit-state files on disk  *)
(* are versions; the graph held is the version of the sources it describes.*)
(* Both only ever move forward, a graph is published together with an      *)
(* audit state, and an unreadable audit file (Torn) is published as such.  *)
(***************************************************************************)
EXTENDS Integers

CONSTANTS None,  \* nothing held yet
          Torn   \* an audit-state file caught half-written

VARIABLES sources,  \* version of the Solidity sources on disk
          audit,    \* version of the audit-state files on disk
          torn,     \* one of them is being rewritten right now
          held      \* the graph published (None at first) and its audit state

vars == <<sources, audit, torn, held>>

AuditOnDisk == IF torn THEN Torn ELSE audit

Init ==
  /\ sources = 0
  /\ audit = 0
  /\ torn = FALSE
  /\ held = [graph |-> None, audit |-> None]

Edit == sources' = sources + 1 /\ UNCHANGED <<audit, torn, held>>

BeginAuditWrite == ~torn /\ torn' = TRUE /\ UNCHANGED <<sources, audit, held>>

EndAuditWrite ==
  /\ torn
  /\ torn' = FALSE
  /\ audit' = audit + 1
  /\ UNCHANGED <<sources, held>>

(* A graph no older than the one held and no newer than the sources. *)
Publish ==
  /\ \E g \in 0..sources :
       /\ held.graph # None => g >= held.graph
       /\ held' = [graph |-> g, audit |-> AuditOnDisk]
  /\ UNCHANGED <<sources, audit, torn>>

(* The audit state alone is read again; the graph has not moved. *)
RefreshAudit ==
  /\ held.graph # None
  /\ held' = [held EXCEPT !.audit = AuditOnDisk]
  /\ UNCHANGED <<sources, audit, torn>>

Next == Edit \/ BeginAuditWrite \/ EndAuditWrite \/ Publish \/ RefreshAudit

Spec == Init /\ [][Next]_vars
=============================================================================
