------------------------------ MODULE Findings ------------------------------
(***************************************************************************)
(* `.axiomap/findings.json` beside review.json: core's findings/slither.ts *)
(* and findings/store.ts, the command `axiomap import-findings`, and what  *)
(* a host reads of the two files and shows on the nodes of its graph       *)
(* (project/audit-sources.ts, query/audit-state.ts).  The user runs        *)
(* Slither on one revision, imports what it wrote with a graph of one that *)
(* may be another, and reads it on a third.  Slither and Axiomap have no   *)
(* names in common, only byte offsets, so the graph has a layout here: the *)
(* functions stand apart inside one contract, in each revision where they  *)
(* do, and an offset of one revision may be another function's in another. *)
(***************************************************************************)
EXTENDS ReviewStore, Sequences, SequencesExt

CONSTANTS Layout,    \* where the contract and the functions of a revision are
          Reports,   \* what Slither may report: results, each the places it names
          Contract,  \* the id of the contract all the functions are in
          Pragma, Elsewhere, Unlocated \* other places: the pragma, another file, none

Functions(graph) == {n \in Ids : graph[n] # None}
Places == Ids \cup {Contract, Pragma, Elsewhere, Unlocated}
End(span) == span.from + span.length

(* The pragma is before the contract, the functions are inside it.           *)
ASSUME FindingsAssumption ==
  /\ Contract \in Nat \ Ids
  /\ Ids \cap {Pragma, Elsewhere, Unlocated} = {}
  /\ Pragma \notin {Contract, Elsewhere, Unlocated} /\ Elsewhere \notin {Contract, Unlocated}
  /\ Unlocated # Contract
  /\ \A report \in Reports : \A k \in DOMAIN report : ToSet(report[k]) \subseteq Places
  /\ Layout \in [Revision -> [Ids \cup {Contract} -> [from : Nat, length : Nat]]]
ASSUME LayoutAssumption ==
  \A graph \in Revision :
    LET at == Layout[graph] IN
    /\ at[Contract].from > 0
    /\ \A n \in Functions(graph) : /\ at[n].from > at[Contract].from
                                    /\ at[n].length > 0 /\ End(at[n]) <= End(at[Contract])
    /\ \A n, o \in Functions(graph) : n # o => \/ End(at[n]) <= at[o].from
                                              \/ End(at[o]) <= at[n].from

VARIABLES
  slither,   \* `slither --json`: absent, failed or whole, and what it reports of a revision
  findings,  \* findings.json: its list, of which report, and on which revision's graph
  importer   \* one `axiomap import-findings`

audit == <<slither, findings, importer>>

NoFindings == [st |-> "absent", list |-> {}, of |-> 0, on |-> 0, report |-> <<>>]
IdleImporter == [pc |-> "idle", on |-> 0, next |-> NoFindings]

FindingsInit ==
  /\ Init
  /\ slither = [st |-> "absent", of |-> 0, report |-> <<>>]
  /\ findings = NoFindings
  /\ importer = IdleImporter

-----------------------------------------------------------------------------
(* The nodes of a graph, and where they are. *)

Nodes(graph) == Functions(graph) \cup {Contract}
Span(graph, n) == Layout[graph][n]

(* A body hash; the empty string, 0 here, for what is not a function.        *)
BodyHash(graph, n) == IF n = Contract THEN 0 ELSE graph[n]

(* What Slither can name: the last byte of a function, the contract, the     *)
(* pragma, a file that is not in the graph, or nothing with a location.      *)
Element(graph, place) ==
  CASE place = Pragma    -> [file |-> "ours", start |-> 0, length |-> 1]
    [] place = Elsewhere -> [file |-> "theirs", start |-> 2, length |-> 1]
    [] place = Unlocated -> [file |-> "none", start |-> 0, length |-> 0]
    [] place = Contract  -> [file |-> "ours", start |-> Span(graph, Contract).from,
                             length |-> Span(graph, Contract).length]
    [] OTHER             -> [file |-> "ours", start |-> End(Span(graph, place)) - 1, length |-> 1]

Results(graph, report) ==
  [k \in DOMAIN report |-> [i \in DOMAIN report[k] |-> Element(graph, report[k][i])]]

(* The user runs Slither, on a revision that may not compile. *)
SlitherRuns(r, report) ==
  LET named == UNION {ToSet(report[k]) : k \in DOMAIN report} IN
  /\ issued < MaxCommands
  /\ named \cap Ids \subseteq Functions(code[r])
  /\ issued' = issued + 1
  /\ slither' \in {[st |-> "whole", of |-> r, report |-> report],
                  [st |-> "failed", of |-> 0, report |-> <<>>]}
  /\ UNCHANGED <<code, file, proc, findings, importer>>

-----------------------------------------------------------------------------
(* importSlitherFindings *)

(* The smallest node whose range has the whole element in it. *)
Containing(graph, element) ==
  LET around == {n \in Nodes(graph) : /\ element.start >= Span(graph, n).from
                                      /\ element.start + element.length <= End(Span(graph, n))}
  IN  IF around = {} THEN None
      ELSE CHOOSE n \in around : \A o \in around :
             \/ Span(graph, n).length < Span(graph, o).length
             \/ Span(graph, n).length = Span(graph, o).length /\ n <= o

(* The nodes a result lands on: elements of files the graph has. *)
Landed(graph, result) ==
  {Containing(graph, e) : e \in {d \in ToSet(result) : d.file = "ours"}} \ {None}

(* A result is known by the first place it names that has a location.        *)
Anchor(result) ==
  LET located == SelectSeq(result, LAMBDA e : e.file # "none")
  IN  IF located = <<>> THEN None ELSE <<located[1].file, located[1].start>>

(* One finding for every result that landed somewhere; the others are only   *)
(* printed.  Results of one anchor are told apart by a count.                *)
OnNodes(graph, ns) == {[node |-> n, body |-> BodyHash(graph, n)] : n \in ns}

ImportSlitherFindings(graph, results) ==
  LET mapped == {k \in DOMAIN results : Landed(graph, results[k]) # {}}
      same(k) == {j \in mapped : j < k /\ Anchor(results[j]) = Anchor(results[k])}
  IN  {[id |-> <<Anchor(results[k]), Cardinality(same(k))>>,
        says |-> k,
        nodes |-> OnNodes(graph, Landed(graph, results[k]))] : k \in mapped}

-----------------------------------------------------------------------------
(* axiomap import-findings *)

ImportStarts ==
  /\ importer.pc = "idle" /\ issued < MaxCommands
  /\ slither.st # "absent"
  /\ issued' = issued + 1
  /\ importer' = [importer EXCEPT !.pc = "loading"]
  /\ UNCHANGED <<code, file, proc, slither, findings>>

(* The graph is of whatever revision is checked out by now. *)
ImportLoads(r) ==
  /\ importer.pc = "loading"
  /\ importer' = [importer EXCEPT !.pc = "loaded", !.on = r]
  /\ UNCHANGED <<code, file, proc, issued, slither, findings>>

(* Slither's file is read when the graph is there, whatever has been written *)
(* to it since; a run that failed has nothing to import and throws.          *)
ImportReads ==
  /\ importer.pc = "loaded"
  /\ importer' = IF slither.st = "failed" THEN IdleImporter
                 ELSE [importer EXCEPT !.pc = "ready",
                         !.next = [st |-> "whole", of |-> slither.of, on |-> importer.on,
                                   report |-> slither.report,
                                   list |-> ImportSlitherFindings(code[importer.on],
                                              Results(code[slither.of], slither.report))]]
  /\ UNCHANGED <<code, file, proc, issued, slither, findings>>

(* writeFindings truncates, then writes. *)
ImportTruncates ==
  /\ importer.pc = "ready"
  /\ importer' = [importer EXCEPT !.pc = "writing"]
  /\ findings' = [NoFindings EXCEPT !.st = "torn"]
  /\ UNCHANGED <<code, file, proc, issued, slither>>

ImportWrites ==
  /\ importer.pc = "writing"
  /\ importer' = IdleImporter
  /\ findings' = importer.next
  /\ UNCHANGED <<code, file, proc, issued, slither>>

ImportDies ==
  /\ importer.pc # "idle"
  /\ importer' = IdleImporter
  /\ UNCHANGED <<code, file, proc, issued, slither, findings>>

-----------------------------------------------------------------------------
(* What a host shows on graph r: readAuditFiles, then auditState. *)

(* What cannot be read is a warning and no audit state, each file for itself. *)
ReviewOnDisk == IF Readable THEN ReadReview ELSE NoEntries
FindingsOnDisk == IF findings.st = "whole" THEN findings.list ELSE {}

(* review/state.ts, stalenessOf *)
StalenessOf(entry, graph, n) ==
  CASE graph[n] = None       -> "orphaned"
    [] graph[n] = entry.body -> "current"
    [] OTHER                 -> "stale"

(* findings/store.ts, findingStaleness *)
Missing(finding, graph) == {m.node : m \in {l \in finding.nodes : l.node \notin Nodes(graph)}}
Changed(finding, graph) ==
  {m.node : m \in {l \in finding.nodes : /\ l.node \in Nodes(graph)
                                         /\ BodyHash(graph, l.node) # l.body}}
FindingStaleness(finding, graph) ==
  CASE \A m \in finding.nodes : m.node \notin Nodes(graph)         -> "orphaned"
    [] Missing(finding, graph) \cup Changed(finding, graph) # {} -> "stale"
    [] OTHER                                                     -> "current"

(* Faulty: what the finding as a whole is worth is shown on each of its nodes. *)
PaintedAsWhole(finding, graph, n) == FindingStaleness(finding, graph)

(* What a finding is worth on one node. *)
Painted(finding, graph, n) ==
  CASE n \in Missing(finding, graph) -> "orphaned"
    [] n \in Changed(finding, graph) -> "stale"
    [] OTHER                         -> "current"

AuditState(graph) ==
  LET entries == ReviewOnDisk
      noted == {n \in Ids : entries[n] # None}
      worth == [n \in noted |-> StalenessOf(entries[n], graph, n)]
      list == FindingsOnDisk
      drawn == {f \in list : FindingStaleness(f, graph) # "orphaned"}
  IN [review |-> [n \in {o \in noted : worth[o] # "orphaned"} |->
                    [at |-> entries[n].at, staleness |-> worth[n]]],
      findings |-> [n \in Nodes(graph) |->
                      {[says |-> f.says, staleness |-> Painted(f, graph, n)] :
                         f \in {d \in drawn : \E m \in d.nodes : m.node = n}}],
      summary |-> [stale |-> Cardinality({n \in noted : worth[n] = "stale"}),
                   orphaned |-> Cardinality({n \in noted : worth[n] = "orphaned"}),
                   findings |-> Cardinality(list),
                   findingsStale |->
                     Cardinality({f \in list : FindingStaleness(f, graph) = "stale"})]]

-----------------------------------------------------------------------------
FindingsNext ==
  \/ Next /\ UNCHANGED audit
  \/ \E r \in Revisions, report \in Reports : SlitherRuns(r, report)
  \/ \E r \in Revisions : ImportLoads(r)
  \/ ImportStarts \/ ImportReads \/ ImportTruncates \/ ImportWrites \/ ImportDies

FindingsSpec == FindingsInit /\ [][FindingsNext]_<<vars, audit>>

-----------------------------------------------------------------------------
(* Properties *)

(* findings/store.ts:16-21, 125-134, query/audit-state.ts:141-156 — when the  *)
(* report is imported on the revision it was made of, every graph, of that   *)
(* revision or of another, shows result k on exactly the functions that k    *)
(* named and that the graph still has: `current` where the body is the one   *)
(* Slither saw, `stale` where it is not, and one function's rewriting does   *)
(* not make the result stale on another.                                     *)
ShownOn(shown, n, k) == {s.staleness : s \in {t \in shown.findings[n] : t.says = k}}

FindingsAreHonest ==
  findings.st = "whole" /\ findings.of = findings.on =>
    \A r \in Revisions : LET shown == AuditState(code[r]) IN
      \A n \in Functions(code[r]), k \in DOMAIN findings.report :
        ShownOn(shown, n, k) =
          IF n \notin ToSet(findings.report[k]) THEN {}
          ELSE IF code[findings.of][n] = code[r][n] THEN {"current"} ELSE {"stale"}
=============================================================================
