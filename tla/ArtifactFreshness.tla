-------------------------- MODULE ArtifactFreshness --------------------------
(***************************************************************************)
(* When `.axiomap/graph.json` is believed: core's project/session.ts       *)
(* (loadProjectGraph, newestInput, settingsMatch) against the one command  *)
(* that writes the file (cli/src/context.ts, graph/serialize.ts) and the   *)
(* user who saves, deletes and restores sources meanwhile.  The processes  *)
(* share a file system, so every read, stat and write is a step of its own.*)
(* A file's content is a version that changes with each save, deletion and *)
(* restoration, and its mtime is what the clock said then; the clock is    *)
(* coarse, so several writes may share a tick.                             *)
(***************************************************************************)
EXTENDS Integers

CONSTANTS Files,        \* the Solidity files
          Settings,     \* what a config's knobs may be (AXIOMAP.md section 13)
          MaxChanges,   \* bound on changes to each file and to the config
          MaxTime,      \* bound on the clock
          MaxBuilds     \* bound on runs of `axiomap build`

ASSUME FreshnessAssumption ==
  /\ Files # {} /\ Settings # {}
  /\ MaxChanges \in Nat /\ MaxTime \in Nat /\ MaxBuilds \in Nat

VARIABLES
  now,       \* the file system's clock
  source,      \* each source: its version, whether it exists, its mtime
  config,    \* axiomap.config.json: the settings in it, its version and mtime
  artifact,  \* graph.json: absent, torn or whole, its mtime, and its graph
  build,     \* `axiomap build`
  builds,    \* how many of them there have been
  load       \* one loadProjectGraph, in a query, a server or an editor

artifactVars == <<now, source, config, artifact, build, builds, load>>

Versions == 0..MaxChanges
Times == 0..MaxTime
Source == [v : Versions, present : BOOLEAN, mtime : Times]

(* A graph is the version of each file it was built from and the settings it *)
(* was built with.                                                           *)
Graph == [of : [Files -> Versions], settings : Settings]
Artifact == [st : {"absent", "torn", "whole"}, mtime : Times, graph : Graph, clean : BOOLEAN]

ArtifactTypeOK ==
  /\ now \in Times
  /\ source \in [Files -> Source]
  /\ config \in [settings : Settings, v : Versions, mtime : Times]
  /\ artifact \in Artifact
  /\ build \in [pc : {"idle", "reading", "writing"}, todo : SUBSET Files, graph : Graph]
  /\ builds \in 0..MaxBuilds
  /\ load \in [pc : {"idle", "scan", "read", "build", "artifact", "built"}, stale : BOOLEAN,
               settings : Settings, start : [Files -> Source], todo : SUBSET Files,
               seen : SUBSET Files, newest : Times, got : Artifact]

(* Stands where there is no graph to speak of. *)
NoGraph == [of |-> [f \in Files |-> 0], settings |-> CHOOSE s \in Settings : TRUE]
Unwritten(st, mtime) == [st |-> st, mtime |-> mtime, graph |-> NoGraph, clean |-> FALSE]

IdleBuild == [pc |-> "idle", todo |-> {}, graph |-> NoGraph]

VersionsNow == [f \in Files |-> source[f].v]
Newer(s, t) == IF s > t THEN s ELSE t

ArtifactInit ==
  /\ now = 0
  /\ source = [f \in Files |-> [v |-> 0, present |-> TRUE, mtime |-> 0]]
  /\ config \in [settings : Settings, v : {0}, mtime : {0}]
  /\ build = IdleBuild
  /\ artifact = Unwritten("absent", 0)
  /\ builds = 0
  /\ load = [pc |-> "idle", stale |-> FALSE, settings |-> config.settings, start |-> source,
             todo |-> {}, seen |-> {}, newest |-> 0, got |-> Unwritten("absent", 0)]

-----------------------------------------------------------------------------
(* The user and the clock. *)

Tick ==
  /\ now < MaxTime
  /\ now' = now + 1
  /\ UNCHANGED <<source, config, artifact, build, builds, load>>

(* Save a file, delete it, or write it anew. *)
Change(f, present) ==
  /\ source[f].v < MaxChanges
  /\ source[f].present \/ present
  /\ source' = [source EXCEPT ![f] = [v |-> @.v + 1, present |-> present,
                                  mtime |-> IF present THEN now ELSE @.mtime]]
  /\ UNCHANGED <<now, config, artifact, build, builds, load>>

Reconfigure(s) ==
  /\ config.v < MaxChanges
  /\ config' = [settings |-> s, v |-> config.v + 1, mtime |-> now]
  /\ UNCHANGED <<now, source, artifact, build, builds, load>>

-----------------------------------------------------------------------------
(* `axiomap build`: read the config, read each file, write the artifact. *)

BuildStarts ==
  /\ build.pc = "idle" /\ builds < MaxBuilds
  /\ builds' = builds + 1
  /\ build' = [pc |-> "reading", todo |-> Files,
               graph |-> [NoGraph EXCEPT !.settings = config.settings]]
  /\ UNCHANGED <<now, source, config, artifact, load>>

BuildReads(f) ==
  /\ build.pc = "reading" /\ f \in build.todo
  /\ build' = [build EXCEPT !.todo = @ \ {f}, !.graph.of[f] = source[f].v]
  /\ UNCHANGED <<now, source, config, artifact, builds, load>>

(* fs.writeFileSync truncates the artifact that was there. *)
BuildTruncates ==
  /\ build.pc = "reading" /\ build.todo = {}
  /\ build' = [build EXCEPT !.pc = "writing"]
  /\ artifact' = Unwritten("torn", now)
  /\ UNCHANGED <<now, source, config, builds, load>>

(* clean: the graph describes the sources at the moment it is written. *)
BuildWrites ==
  /\ build.pc = "writing"
  /\ artifact' = [st |-> "whole", mtime |-> now, graph |-> build.graph,
                  clean |-> build.graph.of = VersionsNow]
  /\ build' = IdleBuild
  /\ UNCHANGED <<now, source, config, builds, load>>

(* Interrupted: whatever was on disk stays there. *)
BuildDies ==
  /\ build.pc # "idle"
  /\ build' = IdleBuild
  /\ UNCHANGED <<now, source, config, artifact, builds, load>>

-----------------------------------------------------------------------------
(* loadProjectGraph. *)

(* openProject reads the config; existsSync decides which way to go. *)
LoadStarts(rebuild, stale) ==
  /\ load.pc = "idle"
  /\ load' = [pc |-> IF rebuild \/ artifact.st = "absent" THEN "build"
                     ELSE IF stale THEN "read" ELSE "scan",
              stale |-> stale, settings |-> config.settings, start |-> source,
              todo |-> Files, seen |-> {}, newest |-> 0, got |-> Unwritten("absent", 0)]
  /\ UNCHANGED <<now, source, config, artifact, build, builds>>

(* Faulty: the last file scanned decides. *)
LoadScansLast(f) ==
  /\ load.pc = "scan" /\ f \in load.todo
  /\ load' = IF source[f].present
             THEN [load EXCEPT !.todo = @ \ {f}, !.seen = @ \cup {f}, !.newest = source[f].mtime]
             ELSE [load EXCEPT !.todo = @ \ {f}]
  /\ UNCHANGED <<now, source, config, artifact, build, builds>>

(* newestInput, a file at a time: one that has vanished is passed over. *)
LoadScans(f) ==
  /\ load.pc = "scan" /\ f \in load.todo
  /\ load' = IF source[f].present
             THEN [load EXCEPT !.todo = @ \ {f}, !.seen = @ \cup {f},
                               !.newest = Newer(@, source[f].mtime)]
             ELSE [load EXCEPT !.todo = @ \ {f}]
  /\ UNCHANGED <<now, source, config, artifact, build, builds>>

(* The config last; then the artifact's own mtime decides. *)
LoadCompares ==
  /\ load.pc = "scan" /\ load.todo = {}
  /\ LET newest == Newer(load.newest, config.mtime) IN
       load' = [load EXCEPT !.newest = newest,
                            !.pc = IF newest > artifact.mtime THEN "build" ELSE "read"]
  /\ UNCHANGED <<now, source, config, artifact, build, builds>>

(* An artifact that does not parse, or answers a different question, is a    *)
(* reason to build.                                                          *)
Believed == artifact.st = "whole" /\ artifact.graph.settings = load.settings

(* Faulty: a torn artifact stops the load. *)
LoadReadsWhole ==
  /\ load.pc = "read" /\ artifact.st = "whole"
  /\ load' = IF Believed THEN [load EXCEPT !.pc = "artifact", !.got = artifact]
             ELSE [load EXCEPT !.pc = "build"]
  /\ UNCHANGED <<now, source, config, artifact, build, builds>>

LoadReads ==
  /\ load.pc = "read"
  /\ load' = IF Believed THEN [load EXCEPT !.pc = "artifact", !.got = artifact]
             ELSE [load EXCEPT !.pc = "build"]
  /\ UNCHANGED <<now, source, config, artifact, build, builds>>

LoadBuilds ==
  /\ load.pc = "build"
  /\ load' = [load EXCEPT !.pc = "built", !.got = [st |-> "whole", mtime |-> now, clean |-> TRUE,
                 graph |-> [of |-> VersionsNow, settings |-> load.settings]]]
  /\ UNCHANGED <<now, source, config, artifact, build, builds>>

-----------------------------------------------------------------------------
Load ==
  \/ \E f \in Files : LoadScans(f)
  \/ LoadCompares \/ LoadReads \/ LoadBuilds

(* What happens after the load has ended does not matter to it. *)
World ==
  /\ load.pc \notin {"artifact", "built"}
  /\ \/ Tick
     \/ \E f \in Files, present \in BOOLEAN : Change(f, present)
     \/ \E s \in Settings : Reconfigure(s)
     \/ BuildStarts \/ BuildTruncates \/ BuildWrites \/ BuildDies
     \/ \E f \in Files : BuildReads(f)

ArtifactNext ==
  \/ World
  \/ \E rebuild, stale \in BOOLEAN : LoadStarts(rebuild, stale)
  \/ Load

ArtifactSpec == ArtifactInit /\ [][ArtifactNext]_artifactVars

(* A load is one synchronous run of a process nobody stops. *)
FairSpec == ArtifactSpec /\ WF_artifactVars(Load)

-----------------------------------------------------------------------------
(* Properties *)

(* core/project/session.ts:20-35 — an artifact believed without `stale`      *)
(* describes every source file the scan saw no older than when the load      *)
(* began, provided that it described the sources when it was written and     *)
(* that no file was saved in the artifact's own tick.                        *)
BelievedIsCurrent ==
  load.pc = "artifact" /\ ~load.stale /\ load.got.clean
    => \A f \in load.seen : load.start[f].present =>
         \/ load.got.graph.of[f] >= load.start[f].v
         \/ load.start[f].mtime = load.got.mtime

(* core/project/session.ts:241-250 — a torn artifact, or a build that died,   *)
(* is a reason to rebuild and never a reason to stop.                        *)
LoadReturns == (load.pc # "idle") ~> (load.pc \in {"artifact", "built"})
=============================================================================
