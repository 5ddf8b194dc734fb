---------------------------- MODULE StoreProofs -----------------------------
(***************************************************************************)
(* What is kept under .axiomap by programs that share a file system and no *)
(* lock: graph.json (ArtifactFreshness) first, then review.json and        *)
(* findings.json (ReviewStore, Findings).                                  *)
(***************************************************************************)
EXTENDS Findings, ArtifactFreshness, TLAPS

(***************************************************************************)
(* What ArtifactFreshness promises, for every set of files and settings    *)
(* and every bound.                                                        *)
(*                                                                         *)
(* The argument follows one file f through three moments: the load begins  *)
(* (`start`), f is scanned, the artifact is read.  Versions and mtimes     *)
(* only grow (Grown), so what the scan saw of f is no older than `start`   *)
(* (Scanned), and the artifact that passed the comparison, or a later one, *)
(* is no older than that (Compared).  A source that the artifact lacks was *)
(* saved after the artifact was written (Lacking, for the files as they    *)
(* are and as they were when the load began), so its mtime is the          *)
(* artifact's or greater: together, it is the artifact's.                  *)
(***************************************************************************)

Past == /\ \A f \in Files : source[f].mtime <= now
        /\ config.mtime <= now /\ artifact.mtime <= now

Grown == \A f \in Files : /\ load.start[f].v <= source[f].v
                          /\ load.start[f].mtime <= source[f].mtime

\* A source that is newer than the artifact's version of it has an mtime that
\* shows it, unless it is gone.
Lacking(held) ==
  artifact.st = "whole" /\ artifact.clean =>
    \A f \in Files : held[f].present /\ held[f].v > artifact.graph.of[f]
                       => held[f].mtime >= artifact.mtime

Scanned == \A f \in load.seen : load.start[f].mtime <= load.newest

Compared == load.pc = "read" /\ ~load.stale =>
              \A f \in load.seen : load.start[f].mtime <= artifact.mtime

ArtifactInv == /\ ArtifactTypeOK /\ Past /\ Grown /\ Lacking(source) /\ Lacking(load.start)
        /\ Scanned /\ Compared /\ BelievedIsCurrent

-----------------------------------------------------------------------------
LEMMA NoGraphType == NoGraph \in Graph
BY FreshnessAssumption DEF NoGraph, Graph, Versions

LEMMA UnwrittenType ==
  ASSUME NEW st \in {"absent", "torn", "whole"}, NEW t \in Times
  PROVE  Unwritten(st, t) \in Artifact
BY NoGraphType DEF Unwritten, Artifact

LEMMA ArtifactInitially == ArtifactInit => ArtifactInv
<1>. SUFFICES ASSUME ArtifactInit PROVE ArtifactInv
  OBVIOUS
<1>. USE FreshnessAssumption
<1>1. 0 \in Times /\ 0 \in Versions
  BY DEF Times, Versions
<1>2. Unwritten("absent", 0) \in Artifact
  BY <1>1, UnwrittenType
<1>3. source \in [Files -> Source]
  BY <1>1 DEF ArtifactInit, Source
<1>4. config \in [settings : Settings, v : Versions, mtime : Times]
  BY <1>1 DEF ArtifactInit
<1>5. ArtifactTypeOK
  BY <1>1, <1>2, <1>3, <1>4, NoGraphType DEF ArtifactInit, IdleBuild, ArtifactTypeOK
<1>6. Past /\ Grown
  BY <1>1, <1>5 DEF ArtifactInit, Past, Grown, Unwritten, ArtifactTypeOK, Source, Times, Versions
<1>7. Lacking(source) /\ Lacking(load.start)
  BY DEF ArtifactInit, Lacking, Unwritten
<1>8. Scanned /\ Compared /\ BelievedIsCurrent
  BY DEF ArtifactInit, Scanned, Compared, BelievedIsCurrent
<1>. QED
  BY <1>5, <1>6, <1>7, <1>8 DEF ArtifactInv

-----------------------------------------------------------------------------
(* Types *)

LEMMA ArtifactTypeStep == ArtifactTypeOK /\ [ArtifactNext]_artifactVars => ArtifactTypeOK'
<1>. SUFFICES ASSUME ArtifactTypeOK, [ArtifactNext]_artifactVars PROVE ArtifactTypeOK'
  OBVIOUS
<1>. USE FreshnessAssumption
<1>1. CASE Tick
  BY <1>1 DEF Tick, ArtifactTypeOK, Times
<1>2. ASSUME NEW f \in Files, NEW present \in BOOLEAN, Change(f, present) PROVE ArtifactTypeOK'
  <2>1. [v |-> source[f].v + 1, present |-> present,
         mtime |-> IF present THEN now ELSE source[f].mtime] \in Source
    BY <1>2 DEF Change, ArtifactTypeOK, Source, Versions
  <2>. QED
    BY <1>2, <2>1 DEF Change, ArtifactTypeOK
<1>3. ASSUME NEW s \in Settings, Reconfigure(s) PROVE ArtifactTypeOK'
  BY <1>3 DEF Reconfigure, ArtifactTypeOK, Versions
<1>4. CASE BuildStarts
  <2>1. [NoGraph EXCEPT !.settings = config.settings] \in Graph
    BY NoGraphType DEF ArtifactTypeOK, Graph
  <2>. QED
    BY <1>4, <2>1 DEF BuildStarts, ArtifactTypeOK
<1>5. CASE BuildTruncates
  BY <1>5, UnwrittenType DEF BuildTruncates, ArtifactTypeOK
<1>6. CASE BuildWrites
  BY <1>6, NoGraphType DEF BuildWrites, IdleBuild, ArtifactTypeOK, Artifact
<1>7. CASE BuildDies
  BY <1>7, NoGraphType DEF BuildDies, IdleBuild, ArtifactTypeOK
<1>8. ASSUME NEW f \in Files, BuildReads(f) PROVE ArtifactTypeOK'
  BY <1>8 DEF BuildReads, ArtifactTypeOK, Graph, Source
<1>9. ASSUME NEW rebuild \in BOOLEAN, NEW stale \in BOOLEAN, LoadStarts(rebuild, stale)
      PROVE  ArtifactTypeOK'
  <2>1. 0 \in Times
    BY DEF Times
  <2>. QED
    BY <1>9, <2>1, UnwrittenType DEF LoadStarts, ArtifactTypeOK
<1>10. ASSUME NEW f \in Files, LoadScans(f) PROVE ArtifactTypeOK'
  BY <1>10 DEF LoadScans, Newer, ArtifactTypeOK, Source
<1>11. CASE LoadCompares
  BY <1>11 DEF LoadCompares, Newer, ArtifactTypeOK
<1>12. CASE LoadReads
  BY <1>12 DEF LoadReads, ArtifactTypeOK
<1>13. CASE LoadBuilds
  <2>1. [of |-> VersionsNow, settings |-> load.settings] \in Graph
    BY DEF VersionsNow, ArtifactTypeOK, Graph, Source
  <2>. QED
    BY <1>13, <2>1 DEF LoadBuilds, ArtifactTypeOK, Artifact
<1>14. CASE UNCHANGED artifactVars
  BY <1>14 DEF artifactVars, ArtifactTypeOK
<1>. QED
  BY <1>1, <1>2, <1>3, <1>4, <1>5, <1>6, <1>7, <1>8, <1>9, <1>10, <1>11, <1>12, <1>13, <1>14
     DEF ArtifactNext, World, Load

-----------------------------------------------------------------------------
(* The steps of the user and of `axiomap build`: a save moves its file       *)
(* forward; what the load has taken stays.                                   *)

LEMMA WorldStep == ArtifactInv /\ World => ArtifactInv'
<1>. SUFFICES ASSUME ArtifactInv, World PROVE ArtifactInv'
  OBVIOUS
<1>. USE FreshnessAssumption
<1>1. ArtifactTypeOK'
  BY ArtifactTypeStep DEF ArtifactInv, ArtifactNext
<1>2. load' = load /\ load.pc # "artifact"
  BY DEF World, Tick, Change, Reconfigure, BuildStarts, BuildReads, BuildTruncates,
         BuildWrites, BuildDies
<1>3. Scanned' /\ BelievedIsCurrent'
  BY <1>2 DEF ArtifactInv, Scanned, BelievedIsCurrent
<1>4. CASE Tick
  BY <1>1, <1>2, <1>3, <1>4 DEF Tick, ArtifactInv, ArtifactTypeOK, Times, Source, Artifact, Past, Grown, Lacking, Compared
<1>5. ASSUME NEW f \in Files, NEW present \in BOOLEAN, Change(f, present) PROVE ArtifactInv'
  <2>1. /\ artifact' = artifact /\ now' = now /\ config' = config
        /\ \A g \in Files : g # f => source'[g] = source[g]
        /\ source'[f] = [v |-> source[f].v + 1, present |-> present,
                       mtime |-> IF present THEN now ELSE source[f].mtime]
    BY <1>5 DEF Change, ArtifactInv, ArtifactTypeOK
  <2>2. Past' /\ Grown'
    BY <1>2, <2>1 DEF ArtifactInv, ArtifactTypeOK, Times, Versions, Source, Past, Grown
  <2>3. Lacking(source)'
    BY <2>1 DEF ArtifactInv, ArtifactTypeOK, Times, Artifact, Past, Lacking
  <2>4. Lacking(load.start)' /\ Compared'
    BY <1>2, <2>1 DEF ArtifactInv, Lacking, Compared
  <2>. QED
    BY <1>1, <1>3, <2>2, <2>3, <2>4 DEF ArtifactInv
<1>6. ASSUME NEW s \in Settings, Reconfigure(s) PROVE ArtifactInv'
  BY <1>1, <1>2, <1>3, <1>6 DEF Reconfigure, ArtifactInv, ArtifactTypeOK, Times, Past, Grown, Lacking, Compared
<1>7. CASE BuildStarts \/ BuildDies \/ \E f \in Files : BuildReads(f)
  BY <1>1, <1>2, <1>3, <1>7
     DEF BuildStarts, BuildDies, BuildReads, ArtifactInv, Past, Grown, Lacking, Compared
<1>8. CASE BuildTruncates
  BY <1>1, <1>2, <1>3, <1>8
     DEF BuildTruncates, Unwritten, ArtifactInv, ArtifactTypeOK, Times, Source, Past, Grown, Lacking, Compared
<1>9. CASE BuildWrites
  <2>1. /\ source' = source /\ now' = now /\ config' = config
        /\ artifact'.mtime = now /\ artifact'.graph = build.graph
        /\ artifact'.clean => build.graph.of = VersionsNow
    BY <1>9 DEF BuildWrites
  <2>2. Past' /\ Grown'
    BY <1>2, <2>1 DEF ArtifactInv, ArtifactTypeOK, Times, Past, Grown
  <2>3. artifact'.clean => \A f \in Files : artifact'.graph.of[f] = source[f].v
    BY <2>1 DEF VersionsNow
  <2>4. Lacking(source)' /\ Lacking(load.start)'
    BY <1>2, <2>1, <2>3 DEF ArtifactInv, ArtifactTypeOK, Versions, Source, Grown, Lacking
  <2>5. Compared'
    BY <1>2, <2>1 DEF ArtifactInv, ArtifactTypeOK, Times, Source, Artifact, Past, Grown, Compared
  <2>. QED
    BY <1>1, <1>3, <2>2, <2>4, <2>5 DEF ArtifactInv
<1>. QED
  BY <1>4, <1>5, <1>6, <1>7, <1>8, <1>9 DEF World

(* The steps of the load. *)
LEMMA LoadStep ==
  ArtifactInv /\ (Load \/ \E rebuild, stale \in BOOLEAN : LoadStarts(rebuild, stale)) => ArtifactInv'
<1>. SUFFICES ASSUME ArtifactInv, Load \/ \E rebuild, stale \in BOOLEAN : LoadStarts(rebuild, stale)
              PROVE  ArtifactInv'
  OBVIOUS
<1>. USE FreshnessAssumption
<1>1. ArtifactTypeOK'
  BY ArtifactTypeStep DEF ArtifactInv, ArtifactNext
<1>2. UNCHANGED <<now, source, config, artifact, build, builds>>
  BY DEF Load, LoadStarts, LoadScans, LoadCompares, LoadReads, LoadBuilds
<1>3. Past' /\ Lacking(source)'
  BY <1>2 DEF ArtifactInv, Past, Lacking
<1>4. ASSUME NEW rebuild \in BOOLEAN, NEW stale \in BOOLEAN, LoadStarts(rebuild, stale)
      PROVE  ArtifactInv'
  <2>1. load'.start = source /\ load'.seen = {} /\ load'.pc # "artifact"
    BY <1>4 DEF LoadStarts
  <2>. QED
    BY <1>1, <1>2, <1>3, <2>1
       DEF ArtifactInv, ArtifactTypeOK, Versions, Times, Source, Grown, Lacking, Scanned, Compared, BelievedIsCurrent
<1>5. ASSUME load'.start = load.start PROVE Grown' /\ Lacking(load.start)'
  BY <1>2, <1>5 DEF ArtifactInv, Grown, Lacking
<1>6. ASSUME NEW f \in Files, LoadScans(f) PROVE ArtifactInv'
  <2>1. load'.start = load.start /\ load'.pc = "scan"
    BY <1>6 DEF LoadScans, ArtifactInv, ArtifactTypeOK
  <2>2. Scanned'
    BY <1>6 DEF LoadScans, Newer, ArtifactInv, ArtifactTypeOK, Times, Source, Grown, Scanned
  <2>. QED
    BY <1>1, <1>3, <1>5, <2>1, <2>2 DEF ArtifactInv, Compared, BelievedIsCurrent
<1>7. CASE LoadCompares
  <2>1. /\ load'.start = load.start /\ load'.seen = load.seen
        /\ load'.newest = Newer(load.newest, config.mtime)
        /\ load'.pc = IF load'.newest > artifact.mtime THEN "build" ELSE "read"
    BY <1>7 DEF LoadCompares, ArtifactInv, ArtifactTypeOK
  <2>2. Scanned'
    BY <2>1 DEF Newer, ArtifactInv, ArtifactTypeOK, Times, Source, Scanned
  <2>3. Compared'
    BY <1>2, <2>1, <2>2 DEF ArtifactInv, ArtifactTypeOK, Times, Source, Newer, Artifact, Scanned, Compared
  <2>. QED
    BY <1>1, <1>3, <1>5, <2>1, <2>2, <2>3 DEF ArtifactInv, BelievedIsCurrent
<1>8. CASE LoadReads
  <2>1. /\ load'.start = load.start /\ load'.seen = load.seen /\ load'.newest = load.newest
        /\ load'.stale = load.stale /\ load.pc = "read"
        /\ \/ load'.pc = "build"
           \/ load'.pc = "artifact" /\ load'.got = artifact /\ artifact.st = "whole"
    BY <1>8 DEF LoadReads, Believed, ArtifactInv, ArtifactTypeOK
  <2>2. ASSUME load'.pc = "artifact", ~load.stale, artifact.clean, NEW f \in load.seen,
               load.start[f].present, ~(artifact.graph.of[f] >= load.start[f].v)
        PROVE  load.start[f].mtime = artifact.mtime
    <3>1. f \in Files /\ load.start[f] \in Source /\ artifact \in Artifact
      BY DEF ArtifactInv, ArtifactTypeOK
    <3>2. load.start[f].mtime <= artifact.mtime
      BY <2>1, <2>2 DEF ArtifactInv, Compared
    <3>3. load.start[f].v > artifact.graph.of[f]
      BY <2>2, <3>1 DEF Source, Artifact, Graph, Versions
    <3>4. load.start[f].mtime >= artifact.mtime
      BY <2>1, <2>2, <3>1, <3>3 DEF ArtifactInv, Lacking
    <3>. QED
      BY <3>1, <3>2, <3>4 DEF Source, Artifact, Times
  <2>3. BelievedIsCurrent'
    BY <2>1, <2>2 DEF BelievedIsCurrent
  <2>. QED
    BY <1>1, <1>3, <1>5, <2>1, <2>3 DEF ArtifactInv, Scanned, Compared
<1>9. CASE LoadBuilds
  BY <1>1, <1>3, <1>5, <1>9 DEF LoadBuilds, ArtifactInv, ArtifactTypeOK, Scanned, Compared, BelievedIsCurrent
<1>. QED
  BY <1>4, <1>6, <1>7, <1>8, <1>9 DEF Load

LEMMA ArtifactInductive == ArtifactInv /\ [ArtifactNext]_artifactVars => ArtifactInv'
<1>1. ArtifactInv /\ UNCHANGED artifactVars => ArtifactInv'
  BY DEF artifactVars, ArtifactInv, ArtifactTypeOK, Past, Grown, Lacking, Scanned, Compared, BelievedIsCurrent
<1>. QED
  BY <1>1, WorldStep, LoadStep DEF ArtifactNext

-----------------------------------------------------------------------------
\* loadProjectGraph, `axiomap build` and the file system keep their types for
\* any files, settings and bounds (core/project/session.ts, cli/src/context.ts).
THEOREM ArtifactTypeCorrect == ArtifactSpec => []ArtifactTypeOK
<1>1. ArtifactInv => ArtifactTypeOK
  BY DEF ArtifactInv
<1>. QED
  BY <1>1, ArtifactInitially, ArtifactInductive, PTL DEF ArtifactSpec

\* An artifact that loadProjectGraph believes without `stale`, and that described
\* the sources when it was written, describes every source the scan saw but one
\* saved in the artifact's own tick, however saves, ticks, other builds and the
\* stats of newestInput fall (core/project/session.ts:20-35, 221-250).
THEOREM BelievedArtifactsAreCurrent == ArtifactSpec => []BelievedIsCurrent
<1>1. ArtifactInv => BelievedIsCurrent
  BY DEF ArtifactInv
<1>. QED
  BY <1>1, ArtifactInitially, ArtifactInductive, PTL DEF ArtifactSpec

(***************************************************************************)
(* What the commands over review.json guarantee for any number of shells,  *)
(* ids, bodies, revisions and commands: the types, that a command keeps    *)
(* the notes it is not about, and that no note ever stands for two nodes.  *)
(* And, for any reports and any layout of the sources, that findings       *)
(* imported on the revision they are of are shown where they belong.       *)
(***************************************************************************)
(* Every note is of a command issued by then. *)
NotAhead(entries, time) ==
  \A n \in Ids : entries[n] # None => entries[n].at <= time

(* What a loading command has read is older than the command. *)
ReadIsOlder(c) ==
  /\ c.op \in {"set", "clear"} /\ c.at >= 1
  /\ \A n \in Ids : c.read[n] # None => c.read[n].at < c.at

(* What a command is about to write follows from what it read. *)
NextFollows(c) ==
  IF c.op = "migrate" THEN c.next = MigrateReview(c.read, c.match)
  ELSE \A n \in Ids \ {c.node} : c.next[n] = c.read[n]

CommandSound(c, time) ==
  /\ OnceEach(c.read) /\ OnceEach(c.next)
  /\ NotAhead(c.read, time) /\ NotAhead(c.next, time) /\ c.at <= time
  /\ c.pc # "idle" => c.read = c.was
  /\ c.pc = "loading" => ReadIsOlder(c)
  /\ c.pc \in {"ready", "writing"} => NextFollows(c)

FileSound ==
  /\ OnceEach(file.entries)
  /\ NotAhead(file.entries, issued)
  /\ file.st = "absent" => file.entries = NoEntries

IInv ==
  /\ TypeOK
  /\ FileSound
  /\ \A p \in Procs : CommandSound(proc[p], issued)

(* What can be imported: a report that names functions of its revision.      *)
Faithful(report, r) ==
  /\ report \in Reports /\ r \in Revisions
  /\ \A k \in DOMAIN report : ToSet(report[k]) \cap Ids \subseteq Functions(code[r])

(* What an import writes, wherever it is on its way to the file.             *)
ImportOf(f) ==
  /\ f.on \in Revisions /\ Faithful(f.report, f.of)
  /\ f.list = ImportSlitherFindings(code[f.on], Results(code[f.of], f.report))

Imported ==
  /\ importer = [pc |-> importer.pc, on |-> importer.on, next |-> importer.next]
  /\ slither.st \in {"absent", "failed", "whole"}
  /\ slither.st = "whole" => Faithful(slither.report, slither.of)
  /\ importer.pc # "idle" => slither.st # "absent"
  /\ importer.pc = "loaded" => importer.on \in Revisions
  /\ importer.pc \in {"ready", "writing"} => ImportOf(importer.next)
  /\ findings.st = "whole" => ImportOf(findings)

USE ReviewAssumption
-----------------------------------------------------------------------------
(* The pure functions. *)

(* state.ts:142-147 — what an id holds after a migration is the entry of an   *)
(* id whose destination it is; an id nothing goes to holds nothing.          *)
LEMMA MigratedFrom ==
  ASSUME NEW state \in Entries, NEW match \in Match, NEW d \in Ids,
         MigrateReview(state, match)[d] # None
  PROVE  \E n \in Ids : /\ state[n] # None
                        /\ Destination(match, n) = d
                        /\ MigrateReview(state, match)[d] = state[n]
<1>. DEFINE from == {n \in Ids : state[n] # None /\ Destination(match, n) = d}
<1>1. MigrateReview(state, match)[d] = IF from = {} THEN None ELSE state[Max(from)]
  BY DEF MigrateReview
<1>2. from # {}
  BY <1>1
<1>3. \E n \in from : \A o \in from : n >= o
  BY <1>2, OrderAssumption
<1>4. Max(from) \in from
  BY <1>3 DEF Max
<1>. QED
  BY <1>1, <1>2, <1>4

(* state.ts:142-147 — an entry is found at its destination after a migration, *)
(* unless another one with the same destination is.                          *)
LEMMA MigratedTo ==
  ASSUME NEW state \in Entries, NEW match \in Match, NEW n \in Ids, state[n] # None
  PROVE  \/ MigrateReview(state, match)[Destination(match, n)] = state[n]
         \/ \E o \in Ids \ {n} : /\ state[o] # None
                                 /\ Destination(match, o) = Destination(match, n)
<1>. DEFINE d == Destination(match, n)
            from == {o \in Ids : state[o] # None /\ Destination(match, o) = d}
<1>1. d \in Ids
  BY DEF Destination, Match
<1>2. n \in from
  OBVIOUS
<1>3. MigrateReview(state, match)[d] = state[Max(from)]
  BY <1>1, <1>2 DEF MigrateReview
<1>4. \E m \in from : \A o \in from : m >= o
  BY <1>2, OrderAssumption
<1>5. Max(from) \in from
  BY <1>4 DEF Max
<1>. QED
  BY <1>3, <1>5

(* A migration invents no entry. *)
LEMMA MigrateType ==
  ASSUME NEW state \in Entries, NEW match \in Match
  PROVE  MigrateReview(state, match) \in Entries
<1>1. ASSUME NEW d \in Ids PROVE MigrateReview(state, match)[d] \in Entry \cup {None}
  BY <1>1, MigratedFrom DEF Entries
<1>2. MigrateReview(state, match) = [d \in Ids |-> MigrateReview(state, match)[d]]
  BY DEF MigrateReview
<1>. QED
  BY <1>1, <1>2 DEF Entries

(* A migration of notes that each stand once leaves each standing once: two  *)
(* ids after it hold the entries of two ids before it.                       *)
LEMMA MigrateKeepsOnce ==
  ASSUME NEW state \in Entries, NEW match \in Match, NEW time,
         OnceEach(state), NotAhead(state, time)
  PROVE  /\ OnceEach(MigrateReview(state, match))
         /\ NotAhead(MigrateReview(state, match), time)
<1>. DEFINE after == MigrateReview(state, match)
<1>1. ASSUME NEW d \in Ids, NEW e \in Ids, after[d] # None, after[e] # None, d # e
      PROVE  after[d].at # after[e].at
  <2>1. PICK n \in Ids : /\ state[n] # None /\ Destination(match, n) = d
                         /\ after[d] = state[n]
    BY <1>1, MigratedFrom
  <2>2. PICK o \in Ids : /\ state[o] # None /\ Destination(match, o) = e
                         /\ after[e] = state[o]
    BY <1>1, MigratedFrom
  <2>. QED
    BY <1>1, <2>1, <2>2 DEF OnceEach
<1>2. ASSUME NEW d \in Ids, after[d] # None PROVE after[d].at <= time
  BY <1>2, MigratedFrom DEF NotAhead
<1>. QED
  BY <1>1, <1>2 DEF OnceEach, NotAhead

-----------------------------------------------------------------------------
(* The commands. *)

(* A shell without a command satisfies what is asked of commands. *)
LEMMA IdleSound ==
  /\ NoEntries \in Entries
  /\ Idle \in Command
  /\ \A time \in Nat : CommandSound(Idle, time)
<1>1. NoEntries \in Entries /\ NoMatch \in Match
  BY DEF NoEntries, NoMatch, Entries, Match
<1>2. (CHOOSE n \in Ids : TRUE) \in Ids
  OBVIOUS
<1>3. Idle \in Command
  BY <1>1, <1>2 DEF Idle, Command
<1>4. ASSUME NEW time \in Nat PROVE CommandSound(Idle, time)
  BY <1>4 DEF Idle, CommandSound, OnceEach, NotAhead, NoEntries
<1>. QED
  BY <1>1, <1>3, <1>4

(* Nor does time passing put a note ahead of it. *)
LEMMA LaterNotAhead ==
  ASSUME NEW e \in Entries, NEW time \in Nat, NotAhead(e, time)
  PROVE  NotAhead(e, time + 1)
<1>. SUFFICES ASSUME NEW n \in Ids, e[n] # None PROVE e[n].at <= time + 1
  BY DEF NotAhead
<1>1. e[n] \in Entry
  BY DEF Entries
<1>2. e[n].at \in Nat /\ e[n].at <= time
  BY <1>1 DEF NotAhead, Entry
<1>. QED
  BY <1>2

(* Time passing takes nothing from a command. *)
LEMMA LaterSound ==
  ASSUME NEW c \in Command, NEW time \in Nat, CommandSound(c, time)
  PROVE  CommandSound(c, time + 1)
<1>1. c.read \in Entries /\ c.next \in Entries /\ c.at \in Nat
  BY DEF Command
<1>. QED
  BY <1>1, LaterNotAhead DEF CommandSound

(* What a command reads: a review in which each note stands once, of the past, *)
(* and the content the file has.                                              *)
LEMMA ReadSound ==
  ASSUME TypeOK, FileSound, Readable
  PROVE  /\ ReadReview \in Entries
         /\ ReadReview = file.entries
         /\ OnceEach(ReadReview)
         /\ NotAhead(ReadReview, issued)
  BY IdleSound DEF TypeOK, FileSound, Readable, ReadReview

(* The command typed, its graph not loaded yet. *)
LEMMA ReviewSound ==
  ASSUME IInv, NEW p \in Procs, NEW n \in Ids, NEW op \in {"set", "clear"}, Review(p, n, op)
  PROVE  proc'[p] \in Command /\ CommandSound(proc'[p], issued')
<1>. DEFINE c == [pc |-> "loading", op |-> op, node |-> n, at |-> issued + 1,
                  read |-> ReadReview, was |-> file.entries, match |-> NoMatch,
                  next |-> NoEntries]
<1>1. proc'[p] = c
  BY DEF Review, IInv, TypeOK, Idle
<1>2. /\ ReadReview \in Entries /\ ReadReview = file.entries
      /\ OnceEach(ReadReview) /\ NotAhead(ReadReview, issued)
  BY ReadSound DEF IInv, Review, Issue
<1>3. issued \in Nat /\ issued + 1 \in 1..MaxCommands /\ issued' = issued + 1
  BY DEF Review, Issue, IInv, TypeOK
<1>4. c \in Command
  <2>1. NoMatch \in Match /\ NoEntries \in Entries
    BY DEF NoMatch, Match, NoEntries, Entries
  <2>. QED
    BY <1>2, <1>3, <2>1 DEF Command
<1>5. ReadIsOlder(c)
  <2>1. ASSUME NEW m \in Ids, ReadReview[m] # None
        PROVE  ReadReview[m].at \in Nat /\ ReadReview[m].at <= issued
    <3>1. ReadReview[m] \in Entry
      BY <1>2, <2>1 DEF Entries
    <3>2. ReadReview[m].at \in Nat
      BY <3>1 DEF Entry
    <3>3. ReadReview[m].at <= issued
      BY <1>2, <2>1, Zenon DEF NotAhead
    <3>. QED
      BY <3>2, <3>3
  <2>. QED
    BY <1>3, <2>1 DEF ReadIsOlder
<1>6. OnceEach(NoEntries) /\ NotAhead(NoEntries, issued')
  BY DEF NoEntries, OnceEach, NotAhead
<1>7. CommandSound(c, issued')
  BY <1>2, <1>3, <1>5, <1>6, LaterNotAhead DEF CommandSound
<1>. QED
  BY <1>1, <1>4, <1>7

(* The graph is there: the new review is what was read but for the node's    *)
(* entry, and that one is of this command and no older one.                  *)
LEMMA LoadedSound ==
  ASSUME IInv, NEW p \in Procs, NEW r \in Revisions, Loaded(p, r)
  PROVE  proc'[p] \in Command /\ CommandSound(proc'[p], issued')
<1>. DEFINE c == proc[p]
            graph == code[r]
            entry == [body |-> graph[c.node], at |-> c.at]
            next == IF c.op = "clear" THEN Cleared(c.read, c.node)
                    ELSE SetReviewStatus(c.read, c.node, entry)
<1>1. c \in Command /\ CommandSound(c, issued) /\ ReadIsOlder(c) /\ issued' = issued
      /\ issued \in Nat /\ c.pc = "loading"
  BY DEF IInv, TypeOK, Loaded, CommandSound
<1>2. CASE proc'[p] = Idle
  BY <1>1, <1>2, IdleSound
<1>3. CASE proc'[p] # Idle
  <2>1. graph[c.node] # None /\ proc'[p] = [c EXCEPT !.pc = "ready", !.next = next]
    BY <1>3 DEF Loaded, IInv, TypeOK
  <2>2. c.read \in Entries /\ c.node \in Ids /\ c.at \in 0..MaxCommands
    BY <1>1 DEF Command
  <2>3. c.at \in 1..MaxCommands
    BY <1>1, <2>2 DEF ReadIsOlder
  <2>4. entry \in Entry
    BY <2>1, <2>2, <2>3 DEF IInv, TypeOK, Revision, Entry
  <2>5. next \in Entries
    BY <2>2, <2>4 DEF Cleared, SetReviewStatus, Entries
  <2>6. OnceEach(next) /\ NotAhead(next, issued)
    BY <1>1, <2>2, <2>4
       DEF Cleared, SetReviewStatus, Entries, Entry, OnceEach, NotAhead, ReadIsOlder, CommandSound
  <2>7. \A n \in Ids \ {c.node} : next[n] = c.read[n]
    BY <2>2 DEF Cleared, SetReviewStatus, Entries
  <2>. QED
    BY <1>1, <2>1, <2>5, <2>6, <2>7 DEF Command, CommandSound, NextFollows, ReadIsOlder
<1>. QED
  BY <1>2, <1>3

(* A migration is computed in one go from what the file holds. *)
LEMMA UpdateSound ==
  ASSUME IInv, NEW p \in Procs, NEW a \in Revisions, NEW b \in Revisions, NEW match \in Match,
         UpdateReview(p, a, b, match)
  PROVE  proc'[p] \in Command /\ CommandSound(proc'[p], issued')
<1>. DEFINE c == [pc |-> "ready", op |-> "migrate", node |-> Idle.node, at |-> issued + 1,
                  read |-> ReadReview, was |-> file.entries, match |-> match,
                  next |-> MigrateReview(ReadReview, match)]
<1>1. issued \in Nat /\ issued + 1 \in 1..MaxCommands /\ issued' = issued + 1
  BY DEF UpdateReview, Issue, IInv, TypeOK
<1>2. CASE proc'[p] = Idle
  BY <1>1, <1>2, IdleSound
<1>3. CASE proc'[p] # Idle
  <2>1. proc'[p] = c
    BY <1>3 DEF UpdateReview, IInv, TypeOK, Idle
  <2>2. /\ ReadReview \in Entries /\ ReadReview = file.entries
        /\ OnceEach(ReadReview) /\ NotAhead(ReadReview, issued)
    BY ReadSound DEF IInv, UpdateReview, Issue
  <2>3. NotAhead(ReadReview, issued')
    BY <1>1, <2>2, LaterNotAhead
  <2>4. /\ c.next \in Entries /\ OnceEach(c.next) /\ NotAhead(c.next, issued')
    BY <2>2, <2>3, MigrateType, MigrateKeepsOnce
  <2>5. Idle.node \in Ids
    BY DEF Idle
  <2>6. c \in Command
    BY <1>1, <2>2, <2>4, <2>5 DEF Command
  <2>7. CommandSound(c, issued')
    BY <1>1, <2>2, <2>3, <2>4 DEF CommandSound, NextFollows
  <2>. QED
    BY <2>1, <2>6, <2>7
<1>. QED
  BY <1>2, <1>3

-----------------------------------------------------------------------------
(* The steps. *)

(* writeReview truncates the file: what it held last stays what commands     *)
(* that have read it go by.                                                  *)
LEMMA TruncatePreserves ==
  ASSUME IInv, NEW p \in Procs, Truncate(p)
  PROVE  IInv'
<1>1. proc'[p] = [proc[p] EXCEPT !.pc = "writing"] /\ \A q \in Procs \ {p} : proc'[q] = proc[q]
  BY DEF Truncate, IInv, TypeOK
<1>2. proc'[p] \in Command
  BY <1>1 DEF IInv, TypeOK, Command
<1>3. proc' \in [Procs -> Command]
  BY <1>2 DEF Truncate, IInv, TypeOK
<1>4. CommandSound(proc'[p], issued)
  <2>1. proc[p] \in Command /\ CommandSound(proc[p], issued) /\ proc[p].pc = "ready"
    BY DEF IInv, TypeOK, Truncate
  <2>. QED
    BY <1>1, <2>1 DEF Command, CommandSound, NextFollows
<1>5. file' \in [st : {"absent", "torn", "whole"}, entries : Entries]
      /\ file'.entries = file.entries /\ file'.st = "torn"
  BY DEF Truncate, IInv, TypeOK
<1>6. FileSound'
  BY <1>5 DEF Truncate, IInv, FileSound
<1>. QED
  BY <1>1, <1>3, <1>4, <1>5, <1>6 DEF Truncate, IInv, TypeOK

(* writeReview writes what the command prepared, each note standing once.    *)
LEMMA WritePreserves ==
  ASSUME IInv, NEW p \in Procs, Write(p)
  PROVE  IInv'
<1>1. proc[p] \in Command /\ CommandSound(proc[p], issued) /\ issued \in Nat
  BY DEF IInv, TypeOK
<1>2. file'.st = "whole" /\ file'.entries = proc[p].next
      /\ file' \in [st : {"absent", "torn", "whole"}, entries : Entries]
  BY <1>1 DEF Write, Command
<1>3. FileSound'
  BY <1>1, <1>2 DEF Write, CommandSound, FileSound
<1>4. proc' \in [Procs -> Command]
  BY IdleSound DEF Write, IInv, TypeOK
<1>5. \A q \in Procs : CommandSound(proc'[q], issued')
  BY <1>1, IdleSound DEF Write, IInv, TypeOK
<1>. QED
  BY <1>2, <1>3, <1>4, <1>5 DEF Write, IInv, TypeOK

(* A step that changes one command alone preserves the invariant when the    *)
(* command it leaves is sound.                                               *)
LEMMA CommandStep ==
  ASSUME IInv, NEW p \in Procs, UNCHANGED <<code, file>>,
         issued' \in {issued, issued + 1}, issued' \in 0..MaxCommands,
         \A q \in Procs \ {p} : proc'[q] = proc[q], proc' = [q \in Procs |-> proc'[q]],
         proc'[p] \in Command, CommandSound(proc'[p], issued')
  PROVE  IInv'
<1>1. issued \in Nat
  BY DEF IInv, TypeOK
<1>2. ASSUME NEW q \in Procs PROVE proc'[q] \in Command /\ CommandSound(proc'[q], issued')
  <2>1. CASE q = p
    BY <2>1
  <2>2. CASE q # p
    <3>1. proc[q] \in Command /\ CommandSound(proc[q], issued) /\ proc'[q] = proc[q]
      BY <2>2 DEF IInv, TypeOK
    <3>. QED
      BY <1>1, <3>1, LaterSound
  <2>. QED
    BY <2>1, <2>2
<1>3. proc' \in [Procs -> Command]
  BY <1>2
<1>4. NotAhead(file.entries, issued')
  <2>1. file.entries \in Entries /\ NotAhead(file.entries, issued)
    BY DEF IInv, TypeOK, FileSound
  <2>. QED
    BY <1>1, <2>1, LaterNotAhead
<1>. QED
  BY <1>2, <1>3, <1>4 DEF IInv, TypeOK, FileSound

(* Every step of every command keeps the invariant. *)
THEOREM StepPreserves == IInv /\ [Next]_vars => IInv'
<1>. SUFFICES ASSUME IInv, [Next]_vars PROVE IInv'
  OBVIOUS
<1>1. ASSUME NEW p \in Procs, NEW n \in Ids, NEW op \in {"set", "clear"}, Review(p, n, op)
      PROVE  IInv'
  <2>1. proc'[p] \in Command /\ CommandSound(proc'[p], issued')
    BY <1>1, ReviewSound
  <2>2. issued' = issued + 1 /\ issued' \in 0..MaxCommands
    BY <1>1 DEF Review, Issue, IInv, TypeOK
  <2>3. PICK c : proc' = [proc EXCEPT ![p] = c]
    BY <1>1, Zenon DEF Review
  <2>4. /\ \A q \in Procs \ {p} : proc'[q] = proc[q]
        /\ proc' = [q \in Procs |-> proc'[q]]
    BY <2>3 DEF IInv, TypeOK
  <2>. QED
    BY <1>1, <2>1, <2>2, <2>4, CommandStep DEF Review
<1>2. ASSUME NEW p \in Procs, NEW r \in Revisions, Loaded(p, r) PROVE IInv'
  <2>1. proc'[p] \in Command /\ CommandSound(proc'[p], issued')
    BY <1>2, LoadedSound
  <2>. QED
    BY <1>2, <2>1, CommandStep DEF Loaded, IInv, TypeOK
<1>3. ASSUME NEW p \in Procs, NEW a \in Revisions, NEW b \in Revisions, NEW match \in Match,
             UpdateReview(p, a, b, match)
      PROVE  IInv'
  <2>1. proc'[p] \in Command /\ CommandSound(proc'[p], issued')
    BY <1>3, UpdateSound
  <2>2. issued' = issued + 1 /\ issued' \in 0..MaxCommands
    BY <1>3 DEF UpdateReview, Issue, IInv, TypeOK
  <2>3. PICK c : proc' = [proc EXCEPT ![p] = c]
    BY <1>3, Zenon DEF UpdateReview
  <2>4. /\ \A q \in Procs \ {p} : proc'[q] = proc[q]
        /\ proc' = [q \in Procs |-> proc'[q]]
    BY <2>3 DEF IInv, TypeOK
  <2>. QED
    BY <1>3, <2>1, <2>2, <2>4, CommandStep DEF UpdateReview
<1>4. ASSUME NEW p \in Procs, Die(p) PROVE IInv'
  <2>1. proc'[p] \in Command /\ CommandSound(proc'[p], issued')
    BY <1>4, IdleSound DEF Die, IInv, TypeOK
  <2>. QED
    BY <1>4, <2>1, CommandStep DEF Die, IInv, TypeOK
<1>5. CASE UNCHANGED vars
  BY <1>5 DEF vars, IInv, TypeOK, FileSound
<1>. QED
  BY <1>1, <1>2, <1>3, <1>4, <1>5, TruncatePreserves, WritePreserves DEF Next

-----------------------------------------------------------------------------
(* Imported findings.  A result lands on the functions it names, because the *)
(* functions of a revision stand apart inside their contract; what is in     *)
(* findings.json is what the import of its report made of it.                *)

(* slither.ts:179-201 — the smallest node around the last byte of a function  *)
(* is that function.                                                         *)
LEMMA ContainingFunction ==
  ASSUME NEW graph \in Revision, NEW n \in Functions(graph)
  PROVE  Containing(graph, Element(graph, n)) = n
<1>. DEFINE at == Layout[graph]
            around == {m \in Nodes(graph) : /\ End(at[n]) - 1 >= at[m].from
                                            /\ End(at[n]) <= End(at[m])}
<1>1. n \in Ids /\ n # Contract /\ n \notin {Pragma, Elsewhere, Unlocated}
  BY FindingsAssumption DEF Functions
<1>2. Element(graph, n) = [file |-> "ours", start |-> End(at[n]) - 1, length |-> 1]
  BY <1>1 DEF Element, Span
<1>3. ASSUME NEW m \in Nodes(graph)
      PROVE  at[m].from \in Nat /\ at[m].length \in Nat /\ End(at[m]) = at[m].from + at[m].length
  BY FindingsAssumption DEF Nodes, Functions, End
<1>4. n \in Nodes(graph) /\ Contract \in Nodes(graph) /\ at[n].length > 0
  BY LayoutAssumption DEF Nodes
<1>5. n \in around
  BY <1>3, <1>4
<1>6. ASSUME NEW m \in around, m # n PROVE m = Contract /\ at[n].length < at[m].length
  <2>1. m \in Nodes(graph) /\ End(at[n]) - 1 >= at[m].from /\ End(at[n]) <= End(at[m])
    OBVIOUS
  <2>2. CASE m \in Functions(graph)
    <3>1. at[m].length > 0 /\ (End(at[n]) <= at[m].from \/ End(at[m]) <= at[n].from)
      BY <1>6, <2>2, LayoutAssumption
    <3>. QED
      BY <1>3, <1>4, <2>1, <3>1
  <2>3. CASE m = Contract
    <3>1. at[n].from > at[m].from /\ End(at[n]) <= End(at[m])
      BY <2>3, LayoutAssumption
    <3>. QED
      BY <1>3, <1>4, <2>3, <3>1
  <2>. QED
    BY <2>1, <2>2, <2>3 DEF Nodes
<1>7. around # {} /\ Containing(graph, Element(graph, n)) =
        CHOOSE m \in around : \A o \in around :
             \/ at[m].length < at[o].length
             \/ at[m].length = at[o].length /\ m <= o
  <2>1. around = {m \in Nodes(graph) :
                    /\ Element(graph, n).start >= Span(graph, m).from
                    /\ Element(graph, n).start + Element(graph, n).length <= End(Span(graph, m))}
    BY <1>2, <1>3, <1>4 DEF Span
  <2>. QED
    BY <1>5, <2>1 DEF Containing, Span
<1>8. \A o \in around : at[n].length < at[o].length \/ (at[n].length = at[o].length /\ n <= o)
  BY <1>1, <1>6, ReviewAssumption
<1>9. ASSUME NEW m \in around,
             \A o \in around : at[m].length < at[o].length \/ (at[m].length = at[o].length /\ m <= o)
      PROVE  m = n
  <2>1. at[m].length \in Nat /\ at[n].length \in Nat
    BY <1>3, <1>4
  <2>. QED
    BY <1>5, <1>6, <1>9, <2>1
<1>. HIDE DEF around
<1>. QED
  BY <1>5, <1>7, <1>8, <1>9

(* What is no function lands on none.                                        *)
LEMMA ContainingOther ==
  ASSUME NEW graph \in Revision, NEW place \in Places \ Ids, Element(graph, place).file = "ours"
  PROVE  Containing(graph, Element(graph, place)) \in {None, Contract}
<1>. DEFINE at == Layout[graph]
            e == Element(graph, place)
            around == {m \in Nodes(graph) : /\ e.start >= at[m].from
                                            /\ e.start + e.length <= End(at[m])}
<1>1. Contract \notin Ids
  BY FindingsAssumption
<1>2. ASSUME NEW m \in Nodes(graph)
      PROVE  at[m].from \in Nat /\ at[m].length \in Nat /\ End(at[m]) = at[m].from + at[m].length
  BY FindingsAssumption DEF Nodes, Functions, End
<1>3. e.start <= at[Contract].from /\ e.start \in Nat
  <2>1. CASE place = Pragma
    <3>1. e.start = 0
      BY <2>1, FindingsAssumption DEF Element
    <3>2. at[Contract].from \in Nat
      BY <1>2 DEF Nodes
    <3>. QED
      BY <3>1, <3>2
  <2>2. CASE place # Pragma
    <3>1. place = Contract
      BY <2>2 DEF Element, Places
    <3>. QED
      BY <1>2, <2>2, <3>1 DEF Element, Span, Nodes
  <2>. QED
    BY <2>1, <2>2
<1>4. around \subseteq {Contract}
  <2>1. ASSUME NEW m \in around, m \in Functions(graph) PROVE FALSE
    <3>1. at[m].from > at[Contract].from /\ e.start >= at[m].from
      BY <2>1, LayoutAssumption
    <3>. QED
      BY <1>2, <1>3, <3>1 DEF Nodes
  <2>. QED
    BY <2>1 DEF Nodes
<1>5. Containing(graph, e) = IF around = {} THEN None
        ELSE CHOOSE m \in around : \A o \in around :
             \/ at[m].length < at[o].length
             \/ at[m].length = at[o].length /\ m <= o
  BY DEF Containing, Span
<1>. HIDE DEF around
<1>6. CASE around = {}
  BY <1>5, <1>6
<1>7. CASE around = {Contract}
  <2>1. \A o \in around : at[Contract].length = at[o].length /\ Contract <= o
    BY <1>2, <1>7, FindingsAssumption DEF Nodes
  <2>. QED
    BY <1>5, <1>7, <2>1
<1>. QED
  BY <1>4, <1>6, <1>7

(* slither.ts:203-221, 243-276 — a result lands on the functions it names.    *)
LEMMA LandsOnTheNamed ==
  ASSUME NEW graph \in Revision, NEW report \in Reports, NEW k \in DOMAIN report,
         ToSet(report[k]) \cap Ids \subseteq Functions(graph), NEW n \in Ids
  PROVE  n \in Landed(graph, Results(graph, report)[k]) <=> n \in ToSet(report[k])
<1>. DEFINE named  == report[k]
            result == Results(graph, report)[k]
<1>1. result = [i \in DOMAIN named |-> Element(graph, named[i])]
  BY DEF Results
<1>2. DOMAIN result = DOMAIN named /\ \A i \in DOMAIN named : result[i] = Element(graph, named[i])
  BY <1>1
<1>3. n # None /\ n # Contract
  BY FindingsAssumption
<1>4. ASSUME n \in Landed(graph, result) PROVE n \in ToSet(named)
  <2>1. PICK e \in ToSet(result) : e.file = "ours" /\ n = Containing(graph, e)
    BY <1>4 DEF Landed
  <2>2. PICK i \in DOMAIN result : e = result[i]
    BY DEF ToSet
  <2>3. i \in DOMAIN named /\ e = Element(graph, named[i])
    BY <1>2, <2>2
  <2>4. named[i] \in Places /\ named[i] \in ToSet(named)
    BY <2>3, FindingsAssumption DEF ToSet
  <2>5. CASE named[i] \in Ids
    <3>1. named[i] \in Functions(graph)
      BY <2>4, <2>5
    <3>. QED
      BY <2>1, <2>3, <2>4, <3>1, ContainingFunction
  <2>6. CASE named[i] \notin Ids
    BY <1>3, <2>1, <2>3, <2>4, <2>6, ContainingOther
  <2>. QED
    BY <2>5, <2>6
<1>5. ASSUME n \in ToSet(named) PROVE n \in Landed(graph, result)
  <2>1. PICK i \in DOMAIN named : n = named[i]
    BY <1>5 DEF ToSet
  <2>2. n \in Functions(graph)
    BY <1>5
  <2>3. Element(graph, n).file = "ours"
    BY FindingsAssumption DEF Element
  <2>4. Element(graph, n) \in ToSet(result)
    BY <1>2, <2>1 DEF ToSet
  <2>5. Containing(graph, Element(graph, n)) = n
    BY <2>2, ContainingFunction
  <2>. QED
    BY <1>3, <2>3, <2>4, <2>5 DEF Landed
<1>. QED
  BY <1>4, <1>5

LEMMA WhatIsImported ==
  ASSUME NEW graph, NEW results, NEW f
  PROVE  /\ f \in ImportSlitherFindings(graph, results) =>
              /\ f.says \in DOMAIN results
              /\ f.nodes = OnNodes(graph, Landed(graph, results[f.says]))
         /\ \A k \in DOMAIN results : Landed(graph, results[k]) # {} =>
              \E g \in ImportSlitherFindings(graph, results) :
                 g.says = k /\ g.nodes = OnNodes(graph, Landed(graph, results[k]))
<1>. DEFINE mapped == {k \in DOMAIN results : Landed(graph, results[k]) # {}}
            name(k) == <<Anchor(results[k]),
                         Cardinality({j \in mapped : j < k /\ Anchor(results[j]) = Anchor(results[k])})>>
            finding(k) == [id |-> name(k), says |-> k,
                           nodes |-> OnNodes(graph, Landed(graph, results[k]))]
<1>1. ImportSlitherFindings(graph, results) = {finding(k) : k \in mapped}
  BY DEF ImportSlitherFindings
<1>2. \A k : finding(k).says = k /\ finding(k).nodes = OnNodes(graph, Landed(graph, results[k]))
  OBVIOUS
<1>. HIDE DEF finding
<1>. QED
  BY <1>1, <1>2

(* store.ts:147-177, audit-state.ts:141-168 — what is painted on a node that  *)
(* is still there is about the body of that node alone.                      *)
LEMMA PaintedByItsBody ==
  ASSUME NEW today, NEW then, NEW n, n \in Nodes(today), NEW ns, n \in ns,
         NEW f, f.nodes = OnNodes(then, ns)
  PROVE  /\ FindingStaleness(f, today) # "orphaned"
         /\ Painted(f, today, n) = IF BodyHash(today, n) = BodyHash(then, n) THEN "current" ELSE "stale"
<1>1. [node |-> n, body |-> BodyHash(then, n)] \in f.nodes
  BY DEF OnNodes
<1>2. \A m \in f.nodes : m.node = n => m.body = BodyHash(then, n)
  BY DEF OnNodes
<1>3. n \notin Missing(f, today)
  BY DEF Missing
<1>4. n \in Changed(f, today) <=> BodyHash(today, n) # BodyHash(then, n)
  BY <1>1, <1>2 DEF Changed
<1>5. ~(\A m \in f.nodes : m.node \notin Nodes(today))
  BY <1>1
<1>. QED
  BY <1>3, <1>4, <1>5 DEF Painted, FindingStaleness

(* What a host shows of result k on a function it still has.                 *)
LEMMA ShownAsNamed ==
  ASSUME NEW then \in Revision, NEW today \in Revision, NEW report \in Reports,
         \A k \in DOMAIN report : ToSet(report[k]) \cap Ids \subseteq Functions(then),
         FindingsOnDisk = ImportSlitherFindings(then, Results(then, report)),
         NEW n \in Functions(today), NEW k \in DOMAIN report
  PROVE  ShownOn(AuditState(today), n, k) =
           IF n \notin ToSet(report[k]) THEN {}
           ELSE IF then[n] = today[n] THEN {"current"} ELSE {"stale"}
<1>. DEFINE list  == FindingsOnDisk
            drawn == {f \in list : FindingStaleness(f, today) # "orphaned"}
            on    == {f \in drawn : \E m \in f.nodes : m.node = n}
            results == Results(then, report)
            landed == Landed(then, results[k])
<1>1. n \in Ids /\ n # Contract /\ n \in Nodes(today) /\ DOMAIN results = DOMAIN report
  BY FindingsAssumption DEF Functions, Nodes, Results
<1>2. n \in landed <=> n \in ToSet(report[k])
  BY <1>1, LandsOnTheNamed
<1>3. AuditState(today).findings[n] = {[says |-> f.says, staleness |-> Painted(f, today, n)] : f \in on}
  BY <1>1 DEF AuditState
<1>. HIDE DEF on
<1>4. ASSUME NEW x
      PROVE  x \in ShownOn(AuditState(today), n, k) <=>
               \E f \in on : f.says = k /\ x = Painted(f, today, n)
  <2>. DEFINE shown == AuditState(today).findings[n]
  <2>1. x \in ShownOn(AuditState(today), n, k) <=> \E t \in shown : t.says = k /\ x = t.staleness
    BY DEF ShownOn
  <2>2. ASSUME NEW t
        PROVE  t \in shown <=> \E f \in on : t = [says |-> f.says, staleness |-> Painted(f, today, n)]
    BY <1>3
  <2>. HIDE DEF shown
  <2>3. ASSUME NEW t \in shown, t.says = k, x = t.staleness
        PROVE  \E f \in on : f.says = k /\ x = Painted(f, today, n)
    BY <2>2, <2>3
  <2>4. ASSUME NEW f \in on, f.says = k, x = Painted(f, today, n)
        PROVE  \E t \in shown : t.says = k /\ x = t.staleness
    <3>1. [says |-> k, staleness |-> x] \in shown
      BY <2>2, <2>4
    <3>. QED
      BY <3>1
  <2>. QED
    BY <2>1, <2>3, <2>4
<1>5. ASSUME NEW f \in list, f.says = k
      PROVE  f.nodes = OnNodes(then, landed)
  BY <1>5, WhatIsImported
<1>6. ASSUME NEW f \in on, f.says = k PROVE f \in list /\ n \in landed
  <2>1. f \in list /\ \E m \in f.nodes : m.node = n
    BY DEF on
  <2>. QED
    BY <1>5, <1>6, <2>1 DEF OnNodes
<1>7. CASE n \notin ToSet(report[k])
  BY <1>2, <1>4, <1>6, <1>7
<1>8. CASE n \in ToSet(report[k])
  <2>1. BodyHash(today, n) = today[n] /\ BodyHash(then, n) = then[n]
    BY <1>1 DEF BodyHash
  <2>2. n \in landed
    BY <1>2, <1>8
  <2>. HIDE DEF landed
  <2>3. ASSUME NEW f \in list, f.says = k
        PROVE  /\ FindingStaleness(f, today) # "orphaned"
               /\ Painted(f, today, n) = IF then[n] = today[n] THEN "current" ELSE "stale"
    <3>1. f.nodes = OnNodes(then, landed)
      BY <1>5, <2>3
    <3>2. /\ FindingStaleness(f, today) # "orphaned"
          /\ Painted(f, today, n) =
               IF BodyHash(today, n) = BodyHash(then, n) THEN "current" ELSE "stale"
      BY <1>1, <2>2, <3>1, PaintedByItsBody
    <3>. QED
      BY <2>1, <3>2
  <2>4. PICK g \in list : g.says = k
    BY <1>1, <2>2, WhatIsImported DEF landed
  <2>5. \E m \in g.nodes : m.node = n
    <3>1. g.nodes = OnNodes(then, landed)
      BY <1>5, <2>4
    <3>2. [node |-> n, body |-> BodyHash(then, n)] \in OnNodes(then, landed)
      BY <2>2 DEF OnNodes
    <3>. QED
      BY <3>1, <3>2
  <2>6. g \in on
    BY <2>3, <2>4, <2>5 DEF on
  <2>7. \A f \in on : f.says = k =>
          Painted(f, today, n) = IF then[n] = today[n] THEN "current" ELSE "stale"
    BY <1>6, <2>3
  <2>. QED
    BY <1>4, <1>8, <2>4, <2>6, <2>7
<1>. QED
  BY <1>7, <1>8

(* The audit files do not touch the review, but for the clock they share.    *)
LEMMA AuditStepKeeps ==
  ASSUME IInv, UNCHANGED <<code, file, proc>>,
         \/ issued' = issued
         \/ issued < MaxCommands /\ issued' = issued + 1
  PROVE  IInv'
<1>1. issued \in Nat /\ issued' \in 0..MaxCommands /\ issued' \in Nat
  BY DEF IInv, TypeOK
<1>2. TypeOK'
  BY <1>1 DEF IInv, TypeOK
<1>3. CASE issued' = issued
  BY <1>2, <1>3 DEF IInv, FileSound
<1>4. CASE issued' = issued + 1
  <2>1. FileSound'
    <3>1. NotAhead(file.entries, issued + 1)
      BY <1>1, LaterNotAhead DEF IInv, TypeOK, FileSound
    <3>. QED
      BY <1>4, <3>1 DEF IInv, FileSound
  <2>2. ASSUME NEW p \in Procs PROVE CommandSound(proc[p], issued + 1)
    <3>1. proc[p] \in Command /\ CommandSound(proc[p], issued)
      BY DEF IInv, TypeOK
    <3>. QED
      BY <1>1, <3>1, LaterSound
  <2>. QED
    BY <1>2, <1>4, <2>1, <2>2 DEF IInv
<1>. QED
  BY <1>3, <1>4

(* What the auditors type and what Slither and the import do, together, keep *)
(* the commands sound and the findings those of their report.                *)
LEMMA FindingsStep == IInv /\ Imported /\ [FindingsNext]_<<vars, audit>> => IInv' /\ Imported'
<1>. SUFFICES ASSUME IInv, Imported, [FindingsNext]_<<vars, audit>> PROVE IInv' /\ Imported'
  OBVIOUS
<1>1. ASSUME code' = code, UNCHANGED audit PROVE Imported'
  BY <1>1 DEF Imported, ImportOf, Faithful, audit
<1>2. CASE Next /\ UNCHANGED audit
  <2>1. code' = code
    BY <1>2 DEF Next, Review, Loaded, UpdateReview, Truncate, Write, Die
  <2>. QED
    BY <1>1, <1>2, <2>1, StepPreserves
<1>3. ASSUME NEW r \in Revisions, NEW report \in Reports, SlitherRuns(r, report)
      PROVE  IInv' /\ Imported'
  <2>1. IInv'
    BY <1>3, AuditStepKeeps DEF SlitherRuns
  <2>2. slither'.st \in {"failed", "whole"} /\ (slither'.st = "whole" => Faithful(report, r))
    <3>1. ASSUME NEW k \in DOMAIN report PROVE ToSet(report[k]) \cap Ids \subseteq Functions(code[r])
      BY <1>3 DEF SlitherRuns
    <3>. QED
      BY <1>3, <3>1 DEF SlitherRuns, Faithful
  <2>3. slither'.st = "whole" => slither'.report = report /\ slither'.of = r
    BY <1>3 DEF SlitherRuns
  <2>4. UNCHANGED <<code, findings, importer>>
    BY <1>3 DEF SlitherRuns
  <2>. QED
    BY <2>1, <2>2, <2>3, <2>4 DEF Imported, ImportOf, Faithful
<1>4. CASE ImportStarts
  <2>1. IInv'
    BY <1>4, AuditStepKeeps DEF ImportStarts
  <2>. QED
    BY <1>4, <2>1 DEF ImportStarts, Imported, ImportOf, Faithful
<1>5. ASSUME NEW r \in Revisions, ImportLoads(r) PROVE IInv' /\ Imported'
  <2>1. IInv'
    BY <1>5, AuditStepKeeps DEF ImportLoads
  <2>. QED
    BY <1>5, <2>1 DEF ImportLoads, Imported, ImportOf, Faithful
<1>6. CASE ImportReads
  <2>1. IInv'
    BY <1>6, AuditStepKeeps DEF ImportReads
  <2>2. CASE slither.st = "failed"
    BY <1>6, <2>1, <2>2 DEF ImportReads, Imported, ImportOf, Faithful, IdleImporter
  <2>3. CASE slither.st # "failed"
    <3>1. Faithful(slither.report, slither.of) /\ importer.on \in Revisions
      BY <1>6, <2>3 DEF ImportReads, Imported
    <3>2. UNCHANGED <<code, slither, findings>> /\ importer.pc = "loaded"
      BY <1>6 DEF ImportReads
    <3>3. importer' = [importer EXCEPT !.pc = "ready",
             !.next = [st |-> "whole", of |-> slither.of, on |-> importer.on,
                       report |-> slither.report,
                       list |-> ImportSlitherFindings(code[importer.on],
                                  Results(code[slither.of], slither.report))]]
      BY <1>6, <2>3 DEF ImportReads
    <3>4. /\ importer' = [pc |-> importer'.pc, on |-> importer'.on, next |-> importer'.next]
          /\ importer'.pc = "ready" /\ importer'.on = importer.on
          /\ importer'.next.on = importer.on
          /\ importer'.next.of = slither.of /\ importer'.next.report = slither.report
          /\ importer'.next.list = ImportSlitherFindings(code[importer.on],
                                     Results(code[slither.of], slither.report))
      BY <3>3 DEF Imported
    <3>5. ImportOf(importer.next)'
      BY <3>1, <3>2, <3>4 DEF ImportOf, Faithful
    <3>6. slither.st # "absent" /\ (findings.st = "whole" => ImportOf(findings)')
      BY <3>2 DEF Imported, ImportOf, Faithful
    <3>7. slither.st = "whole" => Faithful(slither.report, slither.of)'
      BY <3>2 DEF Imported, Faithful
    <3>. QED
      BY <2>1, <3>2, <3>4, <3>5, <3>6, <3>7 DEF Imported
  <2>. QED
    BY <2>2, <2>3
<1>7. CASE ImportTruncates
  <2>1. IInv'
    BY <1>7, AuditStepKeeps DEF ImportTruncates
  <2>. QED
    BY <1>7, <2>1 DEF ImportTruncates, Imported, ImportOf, Faithful, NoFindings
<1>8. CASE ImportWrites
  <2>1. IInv'
    BY <1>8, AuditStepKeeps DEF ImportWrites
  <2>. QED
    BY <1>8, <2>1 DEF ImportWrites, Imported, ImportOf, Faithful, IdleImporter
<1>9. CASE ImportDies
  <2>1. IInv'
    BY <1>9, AuditStepKeeps DEF ImportDies
  <2>. QED
    BY <1>9, <2>1 DEF ImportDies, Imported, ImportOf, Faithful, IdleImporter
<1>10. CASE UNCHANGED <<vars, audit>>
  <2>1. IInv'
    BY <1>10, AuditStepKeeps DEF vars
  <2>. QED
    BY <1>1, <1>10, <2>1 DEF vars
<1>. QED
  BY <1>2, <1>3, <1>4, <1>5, <1>6, <1>7, <1>8, <1>9, <1>10 DEF FindingsNext

(* state.ts:118-128, 153-159 — what a command has kept once it has written.    *)
Kept(c) ==
  \A n \in Ids : c.was[n] # None =>
    IF c.op = "migrate"
    THEN \/ \E o \in Ids \ {n} : /\ c.was[o] # None
                                 /\ Destination(c.match, o) = Destination(c.match, n)
         \/ file'.entries[Destination(c.match, n)] = c.was[n]
    ELSE n = c.node \/ file'.entries[n] = c.was[n]

(* Whoever writes, keeps what it is not about. *)
LEMMA WriteKeeps ==
  ASSUME IInv, [Next]_vars, file' # file,
         NEW p \in Procs, proc[p].pc = "writing", proc'[p].pc = "idle"
  PROVE  Kept(proc[p])
<1>1. Write(p)
  <2>1. ASSUME NEW q \in Procs, Truncate(q) PROVE FALSE
    BY <2>1 DEF Truncate, IInv, TypeOK
  <2>2. ASSUME NEW q \in Procs, Write(q) PROVE q = p
    BY <2>2 DEF Write, IInv, TypeOK
  <2>. QED
    BY <2>1, <2>2
       DEF Next, vars, Review, Loaded, UpdateReview, Die
<1>2. /\ proc[p] \in Command /\ proc[p].read = proc[p].was /\ NextFollows(proc[p])
      /\ file'.entries = proc[p].next
  BY <1>1 DEF IInv, TypeOK, CommandSound, Write
<1>3. proc[p].read \in Entries /\ proc[p].match \in Match
  BY <1>2 DEF Command
<1>4. CASE proc[p].op = "migrate"
  <2>1. PICK c : c = proc[p]
    OBVIOUS
  <2>2. ASSUME NEW n \in Ids, c.was[n] # None
        PROVE  \/ c.next[Destination(c.match, n)] = c.was[n]
               \/ \E o \in Ids \ {n} : /\ c.was[o] # None
                                       /\ Destination(c.match, o) = Destination(c.match, n)
    BY <1>2, <1>3, <1>4, <2>1, <2>2, MigratedTo DEF NextFollows
  <2>. QED
    BY <1>2, <1>4, <2>1, <2>2 DEF Kept
<1>5. CASE proc[p].op # "migrate"
  BY <1>2, <1>5 DEF NextFollows, Kept
<1>. QED
  BY <1>4, <1>5

-----------------------------------------------------------------------------
(* The theorems. *)

(* The first state is sound. *)
LEMMA InitSound == Init => IInv
<1>. SUFFICES ASSUME Init PROVE IInv
  OBVIOUS
<1>1. TypeOK
  BY IdleSound DEF Init, TypeOK
<1>2. FileSound
  BY DEF Init, FileSound, OnceEach, NotAhead, NoEntries
<1>3. \A p \in Procs : CommandSound(proc[p], issued)
  BY IdleSound DEF Init
<1>. QED
  BY <1>1, <1>2, <1>3 DEF IInv

(* In a sound state no note stands for two nodes. *)
LEMMA NotesOnce == IInv => NoteStandsOnce
  BY DEF IInv, FileSound, CommandSound, NoteStandsOnce

(* Every reachable state of the shared file and the commands is sound. *)
THEOREM Invariance == Spec => []IInv
  BY InitSound, StepPreserves, PTL DEF Spec

(* state.ts and store.ts keep their types, whatever the shells type. *)
THEOREM TypeCorrect == Spec => []TypeOK
<1>1. IInv => TypeOK
  BY DEF IInv
<1>. QED
  BY <1>1, Invariance, PTL

(* state.ts:142-147 — no interleaving of any number of commands and          *)
(* migrations, interrupted or not, leaves one note standing for two nodes.   *)
THEOREM NotesStandOnce == Spec => []NoteStandsOnce
  BY Invariance, NotesOnce, PTL

(* state.ts:118-128, 153-159 — of what a command read, all that it is not     *)
(* about is still there when it has written: under its own id or the one its *)
(* node moved to, unless another note goes there too.                        *)
THEOREM OtherNotesAreKept == Spec => RestIsKept
<1>1. IInv /\ [Next]_vars =>
        [\A p \in Procs : proc[p].pc = "writing" /\ proc'[p].pc = "idle" => Kept(proc[p])]_file
  BY WriteKeeps
<1>. QED
  BY <1>1, Invariance, PTL DEF Spec, RestIsKept, Kept

(* Nor do the runs of Slither and the imports beside them leave anything else *)
(* in findings.json than what its report and its graph make.                 *)
THEOREM FindingsInvariance == FindingsSpec => [](IInv /\ Imported)
<1>1. FindingsInit => IInv /\ Imported
  <2>. SUFFICES ASSUME FindingsInit PROVE IInv /\ Imported
    OBVIOUS
  <2>1. IInv
    BY InitSound DEF FindingsInit
  <2>2. Imported
    BY DEF FindingsInit, Imported, NoFindings, IdleImporter
  <2>. QED
    BY <2>1, <2>2
<1>. QED
  BY <1>1, FindingsStep, PTL DEF FindingsSpec

(* store.ts:16-21, 125-134, audit-state.ts:141-156 — a report imported on the *)
(* revision it was made of is shown, on every revision, on the functions it  *)
(* names and on no other, `current` or `stale` by the body of each alone:    *)
(* for any number of functions and revisions, any report and any layout.     *)
THEOREM FindingsAreShownHonestly == FindingsSpec => []FindingsAreHonest
<1>1. IInv /\ Imported => FindingsAreHonest
  <2>. SUFFICES ASSUME IInv, Imported, findings.st = "whole", findings.of = findings.on,
                       NEW r \in Revisions, NEW n \in Functions(code[r]),
                       NEW k \in DOMAIN findings.report
                PROVE  ShownOn(AuditState(code[r]), n, k) =
                         IF n \notin ToSet(findings.report[k]) THEN {}
                         ELSE IF code[findings.of][n] = code[r][n] THEN {"current"} ELSE {"stale"}
    BY DEF FindingsAreHonest
  <2>1. ImportOf(findings)
    BY DEF Imported
  <2>2. /\ findings.of \in Revisions /\ findings.report \in Reports
        /\ \A j \in DOMAIN findings.report :
              ToSet(findings.report[j]) \cap Ids \subseteq Functions(code[findings.of])
    BY <2>1 DEF ImportOf, Faithful
  <2>3. code[findings.of] \in Revision /\ code[r] \in Revision
    BY <2>2 DEF IInv, TypeOK
  <2>4. FindingsOnDisk = ImportSlitherFindings(code[findings.of],
                           Results(code[findings.of], findings.report))
    BY <2>1 DEF FindingsOnDisk, ImportOf
  <2>5. PICK then, today, report :
          then = code[findings.of] /\ today = code[r] /\ report = findings.report
    OBVIOUS
  <2>6. /\ then \in Revision /\ today \in Revision /\ report \in Reports
        /\ FindingsOnDisk = ImportSlitherFindings(then, Results(then, report))
        /\ \A j \in DOMAIN report : ToSet(report[j]) \cap Ids \subseteq Functions(then)
        /\ n \in Functions(today) /\ k \in DOMAIN report
    BY <2>2, <2>3, <2>4, <2>5
  <2>7. ShownOn(AuditState(today), n, k) =
          IF n \notin ToSet(report[k]) THEN {}
          ELSE IF then[n] = today[n] THEN {"current"} ELSE {"stale"}
    BY <2>6, ShownAsNamed
  <2>. QED
    BY <2>5, <2>7
<1>. QED
  BY <1>1, FindingsInvariance, PTL

(* state.ts:142-147 — the auditors' notes stand once with Slither and its     *)
(* imports at work beside them.                                              *)
THEOREM NotesStandOnceBesideFindings == FindingsSpec => []NoteStandsOnce
  BY FindingsInvariance, NotesOnce, PTL

(* state.ts:118-128, store.ts:27-30 — and with those at work too, a command   *)
(* writes all it has read and is not about.                                  *)
THEOREM OtherNotesAreKeptBesideFindings == FindingsSpec => RestIsKept
<1>1. ASSUME [FindingsNext]_<<vars, audit>>, file' # file PROVE [Next]_vars
  BY <1>1 DEF FindingsNext, vars, SlitherRuns, ImportStarts, ImportLoads, ImportReads,
              ImportTruncates, ImportWrites, ImportDies
<1>2. IInv /\ [FindingsNext]_<<vars, audit>> =>
        [\A p \in Procs : proc[p].pc = "writing" /\ proc'[p].pc = "idle" => Kept(proc[p])]_file
  BY <1>1, WriteKeeps
<1>. QED
  BY <1>2, FindingsInvariance, PTL DEF FindingsSpec, RestIsKept, Kept
=============================================================================
