# Axiomap in TLA+

This directory specifies Axiomap, the tool that turns a Solidity project into a graph of
declarations and calls and serves views of it to an editor, a web page and a shell. Two kinds of
specification stand side by side:

- what depends on *order*: what the VS Code extension's session holds while loads, file events and
  commands interleave; what its panel and the web interface show while requests, answers, layouts
  and refreshes overtake one another; when a stored `.axiomap/graph.json` may be believed; what the
  shared `review.json` and `findings.json` look like after several commands have rewritten them; what
  the parse pool and its disk cache hand back;
- what depends on *cases*: how names become edges, and edges views. Parsing a body, symbols and
  imports, linearization, resolution, the compiler's answers, the collapse into a graph, the views and
  their aggregation, the exported page, the diff of two revisions, the analyses.

The specifications are read off the code under `packages/`, model-checked with TLC on small
instances, and most of their safety properties are proved with TLAPS for every value of their
constants.

    tlc -workers 2 -config EditorSession.cfg EditorSession.tla
    tlapm EditorProofs.tla

`PROJECT.json` lists, for every definition, the lines it stands for; for every property, a faulty
variant of a definition under which it breaks (the definitions marked `Faulty`); and the hazards
the properties are aimed at.

## 1. The system

Axiomap turns a Solidity project into a graph of declarations and calls, and serves views of it.

| Component | State it keeps | Operations | Interacts by |
|---|---|---|---|
| **Ingest** `core/ingest.ts`, `project/{detect,config,globs,imports,remappings,…}` | none: files in, project description out | detect the project kind, list files, read config and remappings | synchronous file reads |
| **Parse pool and cache** `core/parse/{workers,worker-entry,cache}.ts` | workers, batches; `.axiomap/cache/parse` | `parseFiles`, `ParseCache.get/set` | worker messages, a cache directory shared by workers and processes |
| **Parser** `core/parse/treesitter*.ts` | none | text → neutral AST, hashes, positions | called by the pool |
| **Symbols and resolution** `core/symbols`, `core/resolve` | symbol table, scopes | C3 linearization, name/overload/call resolution | pure functions over parsed units |
| **Graph** `core/graph` | node and edge maps; `graph.json` | build, score/mode, serialize, parse | artifact file |
| **Enrichment** `core/enrich` | semantic overlay | match solc AST to sources by hash, upgrade edges | build-info files |
| **Analyses** `core/analysis` | none | reachability, access control, external calls | over the graph |
| **Artifact freshness** `core/project/session.ts`, `cli/context.ts` | `graph.json`'s mtime and settings | `openProject`, `loadProjectGraph`, `buildAndWrite` | file system, other processes |
| **Review state** `core/review`, `cli/commands/{review,diff}.ts` | `.axiomap/review.json` | set, clear, list, migrate across a rename | file shared by shells, editors and git |
| **Findings** `core/findings`, `cli/commands/import-findings.ts` | `.axiomap/findings.json` | import from Slither, staleness | same |
| **Diff** `core/diff` | none | match nodes in four tiers, classify, derive findings | over two graphs |
| **Revisions** `cli/revisions.ts` | git worktrees in a temporary directory | resolve, dispose | `git worktree` |
| **Query** `core/query` | none | views, aggregation, traversal, search, inspection, protocol encoding | answers of the three hosts |
| **Serve** `cli/serve` | one graph for the life of the server | HTTP methods over the protocol | HTTP |
| **Export** `cli/export`, `webview/static.ts` | none | SVG, HTML, formats | files |
| **Editor session** `vscode/session.ts` | `#state`, `#loading` | `ready`, `reload`, `refreshAuditState` | promises awaited by panel, lenses, cursor, watcher |
| **Editor panel** `vscode/{extension,panel,host}.ts` | `GraphPanel.open`, listeners | open, rebuild, watch, answer requests | `postMessage` channels |
| **Webview** `webview/src` | pending requests, generation, navigation, layout | request effects, navigation, layout client, canvas | the bridge, an ELK worker |

What is hard here is not one function but their overlap. The extension host is one thread, but
every `await` lets commands, file events, requests and disposals in. The files under `.axiomap/`
are written by truncate-and-write, read by other processes at any moment, and compared by mtime.
Nothing locks `review.json`. A build can throw or be interrupted at any point. The hazards in
`PROJECT.json` name each such place by line.

Correctness, component by component:

- *session*: loads do not overlap; everyone who waits is told; the graph never goes back; an
  audit file half-read is re-read; a reload that starts its own load is about the sources as they were
  when it was asked for;
- *panel*: what is on screen is what the session holds, or something is on its way to fix it;
  every request is answered;
- *web interface*: once nothing is awaited the screen is the present answer to the present request;
  directories are open as they were clicked; no gesture leads to a view without a way on; a canvas
  held blank is revealed;
- *freshness*: an artifact that described the sources when it was written is believed only while it
  does, and for the settings asked for; torn artifacts are rebuilt;
- *review and findings*: a command writes back every entry it is not about as it read it; a note follows its
  node, once; a finding is shown on what it was about, and as current only while that is unchanged;
- *pool*: every file is answered with the parse of a text it had; the run ends; a cache entry of
  another file, text or a torn one is never an answer;
- *symbols, resolution, graph build, enrichment*: the linearization is Solidity's; whatever virtual
  dispatch may run is in the graph; every call site is counted on as many edges as it has targets; what
  the compiler says wins, where it speaks of the bytes that were parsed; what a body calls, reads
  and writes reaches the graph;
- *query*: folding edges into boxes loses and invents no call site; the map opens as far as it fits;
  a refusal has a way out; the walks over the edges agree with one another;
- *export*: a drawn node opens; what is missing is counted; the size is that of what is carried;
- *diff*: matching is one to one, confident tiers first, no match is taken back, nothing newly
  exposed goes unreported;
- *analyses*: the worklists end, and with the closures they stand for.

## 2. The modules

| Module | Models | Extends / uses |
|---|---|---|
| `GraphHolder` | what the features of the editor may rely on: one graph with its audit state, moving only forward | – |
| `EditorSession` | `vscode/session.ts`, the artifact watch of `extension.ts`, a terminal build beside them | implements `GraphHolder` |
| `EditorPanel` | commands, watch, `GraphPanel`, message handler, the webview's bridge and its refresh | extends `EditorSession` |
| `Navigation` | `webview/src/ui/navigation.ts`: what a click means | – |
| `Webview`, `MCWebview` | `App.tsx`, `GraphCanvas.tsx`, the layout client, against a host that answers in any order | extends `Navigation` |
| `ArtifactFreshness` | `loadProjectGraph` and `axiomap build` over a file system | – |
| `ReviewStore` | the commands that rewrite `review.json`; `migrateReview` | – |
| `Findings`, `MCFindings` | Slither's report, `axiomap import-findings`, `findings.json`, what a host shows | extends `ReviewStore` |
| `ParsePool` | `parseFiles`, its workers and the parse cache | – |
| `Parser` | from the syntax tree of a file to declarations, calls and uses | – |
| `Symbols` | imports, remappings, the symbol table, ids | – |
| `C3` | the merge of the bases' orders into one | – |
| `Resolution` | scopes, linearization, every shape of call, dispatch | extends `Symbols`, `C3` |
| `Enrichment` | compiler artifacts: their index, relations and layouts | extends `Symbols` |
| `Edges` | the collapse of drafts into edges; the score | – |
| `GraphBuild`, `MCGraphBuild` | `buildProjectGraph`: the order of the above, saves in between | extends `Resolution`, `Edges`, uses `Enrichment`, `Parser` |
| `Query` | the views, the inspector, lenses and traversal over a graph | – |
| `Aggregation`, `MCAggregation` | directories, the render cap, refusals | extends `Query` |
| `Export`, `MCExport` | `buildHtmlExport` and the page that answers from it | extends `Query`, uses `Aggregation`'s drawing and `Navigation` |
| `DiffMatch`, `Diff`, `MCDiff` | `diff/match.ts`; `classify.ts` and `findings.ts` over it; the pairs of revisions TLC diffs | `Diff` extends `DiffMatch` |
| `Analysis`, `MCAnalysis` | `analysis/{reachability,access-control,external-calls}.ts`; the graphs TLC analyses | – |
| `EditorProofs`, `StoreProofs`, `BuildProofs`, `WebviewProofs`, `AggregationProofs`, `ExportProofs`, `DiffProofs`, `AnalysisProofs` | theorems | extend their component; `EditorProofs` the panel, and so the session; `StoreProofs` what is stored under `.axiomap`: the artifact, the findings, and so the review; `BuildProofs` what a build runs: `ParsePool`, `C3`, `Edges` |

`PROJECT.json` `map` has the lines behind each definition. What state and actions stand for:

- **EditorSession.** `state` is `#state`, `loading` is `#loading`, `loads` the calls of `#load` that
  have not settled. One action is one uninterrupted run of the event loop: `Ready` and `Reload`
  run up to their `await`; `ReadSources(l)` and `LoadDone(l)`/`LoadFail(l)` are the runs in which a
  load goes on, and settling also clears the slot and resumes everybody who shares the promise
  (`Settle`). `Edit`, `AuditWrite…`, `CliBuild…` are the world; `OnGraphEvent`, `OnAuditEvent` are
  the watcher's deliveries, which may lag. A source version is a number; `fresh`, `asked`, `own` are
  ghosts of a call for the properties.
- **EditorPanel.** Callers of the session are continuations: `then[c]` says what the code after
  the `await` does and `Resume(c)`/`Throw(c)` runs it. The channels to and from the webview are FIFO.
  The webview is one composite request here: what it does with its five is `Webview`'s subject.
- **Navigation/Webview.** `nav` is the reducer's state and every gesture one of its actions. Setting
  state and rendering it are two things in React, and so here: gestures, answers and messages set
  state, `Commit` renders it and runs the effects whose dependency lists (`Deps`) changed. What a
  gesture reads is the `screen` of the last `Commit`; what a reducer reads is the latest `nav`. A
  channel is one of the effects that ask the host; its `flight` is a sequence whose answers come in
  any order or fail, and a superseded request is not followed any further (`cancelled`). `canvas` is
  the effect run of `GraphCanvas` that is current, with the arrangements it remembers by request;
  `layouts` are the graphs in the ELK worker. `wanted` is a ghost: the directories the clicks ask
  for, as a set, kept apart from the list in `nav` that the reducer edits and from the one the engine
  answers with. The engine is a constant as far as it chooses (`AutoOpened`, `DrawnFor`); what it has
  open besides is computed as it does (`OpenFor`).
- **ArtifactFreshness.** Every stat, read and write is a step, the clock is coarse (`Tick` may or
  may not come between two writes), writing truncates first. `clean` is a ghost of the artifact: its
  graph described the sources at the moment it was written.
- **ReviewStore.** A command is a process: read the file, await the graph, compute, truncate,
  write. Ids are numbers for their sort order. Matchings are any partial one-to-one maps that keep
  an id that is still there, which is what `DiffMatch` promises (`MatchingIsOneToOne`, proved).
  Notes are told apart by `at`. `review.json` is also merged by git; that is outside the code.
- **Findings.** The same processes may import: read Slither's report, await the graph, join by byte
  offset to the narrowest node, write. Slither runs on a revision, the import on another, the
  reader on a third. Offsets are real here (functions have widths and move as earlier ones change),
  because the join is by offset and everything after it by body hash. `Layout` gives the bytes of
  each revision; all that is assumed of it is that functions lie inside the contract and apart.
- **ParsePool.** A worker's loop is split at each file-system call. Temporaries are named by the
  pid, so what a rejected run left behind and the next run share them. A hash is its input:
  collisions are not modelled.
- **Parser/Symbols/Resolution/Enrichment/GraphBuild.** A build is a sequence of steps (`Ingest`,
  one `ReadBuildInfo` per artifact, `Index`, one `Linearize` per contract, `ResolveProject`,
  `BuildGraph`), between which a user may `Save` a file; what a step computes is operators, one per method of the code. A syntax tree
  is records with a type, an offset, a text and children; a declaration is a record with the fields
  the resolver reads. Types are names, bytes are the identity of a unit (`text`), the lists of
  built-in names are represented by one or two members each. The compiler in `Enrichment` is the one
  external part: it numbers declarations, refers to them and lays out storage as solc documents.
- **Query/Aggregation.** A query is an operator from a graph and a request to a selection of nodes
  and edges. `Aggregation` is the loop around it for the clustered map: `TryOpen` opens one
  directory more while it fits; the reader feeds back what is open, closes one, opens one.
  The directories above one are the least set closed under `Parent`, which is what going up to the
  root collects. Assumed of a graph: edges have their ends in it and counts are naturals, as
  graphology and the schema require, and only calls have further targets.
- **Export.** Phases of `buildHtmlExport`: views round by round from the opening view, then
  inspector entries, then sources, each under its budget and quota; the page that is written is
  opened and read by up to `MaxClicks` clicks that follow `Navigation`.
- **DiffMatch/Diff.** Each step is one decision. Buckets are visited in any order, within a bucket
  ids go in sort order as in the code. `nameSimilarity` is the constant table `Likeness`; scores
  are integers out of 1200, the common denominator of the weights, where the code has floats.
  Attributes the code compares as a whole are model values; messages and severities are left out.
  Where two edges of one revision have one key in the diff's map, the later one in the graph's order
  is kept, in any order here.
- **Analysis.** Each step is one turn of a worklist, in any order (the code's is a stack).
  A bitset is the set of entrypoints in it, except for the one thing its width decides, which
  `Changed` keeps: a word with its top bit set never equals itself.

## 3. The runs

| Run | Question | Bounds |
|---|---|---|
| `session` | do loads stay single, settle, move forward; is the audit state followed; is the holder implemented | 2 callers, 2 edits, 1 audit rewrite, 2 loads, builds may throw |
| `panel` | is a panel that is behind being seen to; is every request resolved | the same with 1 edit, 2 panels |
| `webview` | is the screen current once nothing is awaited; are the directories as clicked; is there always a way on; is the canvas revealed | 1 contract, 1 function, 2 directories, 3 channels, 3 events of any kind: gestures, a refresh, a theme change, failures |
| `freshness` | is what is believed current; does a load return whatever the artifact | 2 files, 2 settings, 1 change each, 2 ticks, 2 builds |
| `review` | is the rest of what a command read kept; does a note stand once; are findings honest | 2 shells, 2 ids, 2 bodies of widths 1 and 3, 2 revisions, 2 reports, 3 commands of any kind |
| `pool` | are the answers the files' own; does everything end | 3 files, 2 texts, 2 workers, 2 calls, 1 edit, 1 failure |
| `build` | is the graph what the sources and the compiler say | every hierarchy on 4 contracts in one file; 2 files in 2 revisions each with artifacts of either; every way a name is found and every shape of call; bodies of two statements |
| `query` | are call sites conserved; does the map open as far as it fits; do the walks agree | all 256 choices of 8 groups of relations over 4 contracts in 4 directories, 25 requests, caps 3 to 12 |
| `export` | do nodes open; is what is missing counted; is the size true | 3 contracts in 3 directories with and without calls, 8 budgets, 2 caps, 2 hop counts, 4 clicks |
| `diff` | the matching; what is reported | 11 node ids, up to 3 functions a side, plus exposure and storage families |
| `analysis` | do the passes agree with their definitions; do they end | all 512 call graphs on 3 entrypoints; 3 families on 6 functions; 2 bits a word |
| `analysis_hangs` | section 6 | as `analysis` |

Why these bounds are enough for the cases to happen: two callers and two loads let a reload meet
a load in flight, be folded into it, and start one of its own afterwards; a third caller repeats
the second. Two panels are one disposed and its successor. Three events in the web interface are a
click, one more before its answer, and a refresh or a failure between them; one directory inside
another is what makes closing drop more than what was clicked. Two files and two ticks let a save
fall before, in and after each stat and share the artifact's tick. Two ids with bodies of different
widths move the second whenever the first changes, so an offset of one revision names another
function or none in the next; two revisions hold a rename onto an id that has a note, and a swap.
Three files on two workers give one worker a batch of two, and two calls of which the first fails
give leftovers. Four contracts are the smallest diamond, and hold every order of bases that Solidity
accepts or refuses; two revisions of two files are every mix of artifact and bytes. The caps of
`query` go from below what the closed map needs to above what the open one does; the budgets of
`export` from one view to all. Three entrypoints with two bits a word have a sign bit in the first
word and a second word; every cycle among three functions occurs. The bounds named `Max…` are in
the guards of the environment's actions and of `#load`; none bounds how long a component takes.
`CHECK_DEADLOCK FALSE` everywhere: a folder nobody edits, a finished command, a built graph and a
reader who has clicked enough stop.

Every property of a passing run has a faulty variant of a definition (`Faulty:` in the modules) under
which TLC finds it violated.

**Fairness.** `EditorSession`, `EditorPanel`: weak fairness of the continuation of each load, of the
delivery of file events, of a started audit write, of message delivery and of resumed callers – a
promise that can go on does, and the event loop is fair; nothing is assumed of users, edits or
builds in terminals, and a load may end by throwing. `Webview`: of `Commit` (React renders what was
set), of the delivery of a refresh, of each channel's answers (or the bridge gives up on one), and of
the layout worker; nothing of gestures, themes or failures. `ArtifactFreshness`: weak fairness of
the load, which is synchronous code; none of the build, which may be interrupted. `ParsePool`: of
each worker's steps. `Analysis`: of `Next`, one synchronous run. The others claim no liveness.

## 4. What is proved

TLAPS checks the following for all values of the constants that satisfy the named assumptions
(those say that bounds are naturals, that `None` is no id, that edges join nodes of the graph, and
what else is named below or in section 2).

- `EditorProofs`, the session – `TypeCorrect`, `SingleFlight`, `OwnReloadsAreFresh`, `GraphMonotone`,
  `AuditIsFollowed`, `Implementation`. The graph never goes back because every load in flight has
  read sources at least as new as those held (`LoadsAreNewer`), which is inductive only with "there
  is at most one load" and "who waits, waits for it"; `OwnLoadIsNewer` carries what a reload knew when
  it asked to the moment it is answered. The refinement has the session's state as the holder's: a
  step is a publication or a stutter.
- `EditorProofs`, the panel – `PanelTypeCorrect`, `BehindPanelsAreFollowed`, for any number of callers,
  panels, edits and loads. `BehindIsFollowed` is far from inductive. The proof follows each answer
  from the moment it is posted, about the state of that moment: what replaces the state later leaves a
  refresh behind the answer in the channel, or a caller that will post one (`AnswersFollowed`), since
  only a caller of that sort starts a load while there is a graph (`Reloading`). A request may be
  dropped when the build it awaits throws; then nothing is shown yet (`WaitedFirst`), which needs
  that an ask is in one place only (`Once`).
- `StoreProofs`, the artifact – `ArtifactTypeCorrect`, `BelievedArtifactsAreCurrent`, for any number of
  files, saves, builds and ticks. What was stat'ed is history: the invariant relates each file as the
  load began (`load.start`), as it is now, and the artifact that is there now or was read (`Past`,
  `Grown`, `Lacking`): a file the artifact lacks was saved at or after the artifact's own tick.
- `StoreProofs`, review and findings – `TypeCorrect`, `NotesStandOnce`, `OtherNotesAreKept`. The invariant
  follows a note through what a command has read and is going to write (`CommandSound`) as well as
  through the file: a migration is a one-to-one renaming of what was read. The same for a project
  that also imports findings (`NotesStandOnceBesideFindings`, `OtherNotesAreKeptBesideFindings`), and
  `FindingsAreShownHonestly`: for any revisions whose functions lie apart, any reports and any
  interleaving of imports and commands. What is in `findings.json` was joined by offset in some
  revision (`Imported`); with functions apart the narrowest node around an offset is the function
  that was reported, and its stored body tells whether it still is.
- `BuildProofs`, the pool – `TypeCorrect`, `EveryFileIsAnswered`, for any number of files, workers,
  processes and calls over one cache directory. The cache is trusted for what an entry says, never
  for when it was written: an entry or a temporary is empty, torn, or the parse its key stands for
  (`CacheSound`). A file of a running call is answered or with a worker that has not failed
  (`Covered`), which holds at the start because dealing round-robin leaves no file out (`DealCovers`,
  with the arithmetic of `div` and `mod` under it) and at the end because a worker that has ended
  holds nothing.
- `BuildProofs`, the merge – `MergeFindsAnOrder`, for any lists, contradictions included, none of
  which names a contract twice (Solidity refuses such a list of bases; where a half-written file has
  one, the code puts the base out twice, and so does `Pass`, before the duplicates are dropped): the
  merge is complete exactly when an order exists that keeps every list, and then it is one. After each pass a first part of every list is out, in order, and nothing
  of what is left of it (`Progress`); each pass that finds a head puts out a member that was not, so
  as many passes as there are places in the lists are enough. When none finds a head, each member left comes after
  another that is left, and a finite order has no room for that.
- `BuildProofs`, the collapse and the score – `CollapseKeepsEverySite`, `ScoreCountsEverySite`. After each
  draft there is one edge for each key drawn so far, with what its drafts have (`Collapsed`). The four
  counts are sums over the keys of one confidence; as the sizes of piles of sites they add up to the
  drawn sites. Assumed: drafts have one of the four confidences and a Boolean mark (`Ranked`), and the
  sites of one edge lie in one file (`OneFile`), which is that of the edge's source. The resolver
  emits each draft from the declaration it is about, so both hold; without the second, which files
  are left out would depend on an edge's first site.
- `WebviewProofs` – `AlwaysAWayOn`, for any graph, directories, tabs and bounds. The toolbar enables
  a tab by the screen of the last commit while the reducer acts on the latest state; the proof is that
  the two cannot differ where it does harm (`FocusStands`): unless a click of the reader is just being
  committed, a focus on the screen means a focus in the latest state. `WhatIsShownIsCurrent`: each
  channel follows one request, that of its effect's last run, whatever was overtaken (`OneRequest`),
  and its answer is of a version between the generation it was asked in and the graph of now; when
  no refresh is under way the two are one (`Followed`). `OpenAsClicked`: from the first click after
  the engine chose, the list in `nav` holds what the clicks ask for, and the base of that click is what
  the engine had open in the very answer on screen (`Clicked`). It rests on what a filtered list is
  left with (`WithoutLeaves`), a fold that is unrolled index by index.
- `AggregationProofs` – `OpenedAsFarAsItFits`, `ClosingIsNeverRefused`, `TheQueriesTellOneStory`,
  `NoCallSiteIsLost`, for any graph, directories, requests and caps. Directories form a forest, so
  those above one are a chain, and one drawn element stands for each node. With fewer directories open never more is drawn (`FewerElements`): an answer
  that fits goes on fitting when a directory is closed, and one that was tried and did not fit
  never fits later (`MapFits`, `AllTried`). A walk down turned round is a walk up (`WalkedBack`), and
  the breadth-first search meets each node in the round of its distance (`FrontierIsExact`), which is
  why inspector, traversals and lenses agree. Call sites are added up as the sizes of piles, for which
  finite sets have theorems: the edges behind a bundle are disjoint parts of those between its two
  sides, and what is hidden is what lies within one side.
- `ExportProofs` – `OmittedIsCounted`, `BytesAreKept`, `NodesOpen`, for any graph, opening, budget,
  cap, hop counts and number of clicks. The invariant is a ledger: whatever was asked for is embedded,
  in one queue, or omitted (`Sought`, `Counted`), with keys apart in every queue. A turn moves one key
  from a queue to the page and adds what its view asks for that was never asked for; two ways to ask
  for one key are the key of the view itself (`NextAreRequests`), which is why counting requests counts
  views. With nothing omitted, the request of any node on screen has its entry, which carries its nodes;
  `PickAsks` shows that the interface spells it as the exporter does, hop count included. For the size,
  `Spent` keeps each kind to its share while shares are being spent, the opening view apart; they add
  up to less than the view budget (`Shares`), the drain stays within what is left, and inspections and
  slices stop at most one past theirs (`Weighed`). Sizes are sums over a recursive function that is
  unrolled one view at a time (`SizesGrow`). That the selection of a view is finite rests on the walk
  of `Query` staying among the nodes at the ends of edges (`TraverseIsKnown`). Assumed: graphs are finite,
  directories are those of the project, and hop counts, budgets and caps are naturals.
- `DiffProofs` – `OneToOne`, `MatchesNeverMove`, for every pair of graphs, table of likenesses,
  threshold and bucket order. `IInv` adds to the property that buckets and candidates name nodes of
  the revisions and of one kind, and that tier 1 starts from empty maps. Each tier then comes down to
  one lemma: pairing two free nodes of one kind keeps the matching and moves nothing.
  `LikeliestFirst`: a candidate that lost did so to a pairing at least as likely that shares a
  side with it (`Beaten`). `SurfaceIsAlwaysReported`, whatever the matching. `EdgesFollow` needs
  `IdsTellKindsApart`: no id names nodes of two kinds in the two revisions. The sigils
  and the parentheses of a signature see to that for names that are Solidity's (`ids.ts:8-25`). Without
  it an unmatched node would project back onto its own id, which may be that of the before-node another
  is matched to, and two after-edges would meet under one key.
- `AnalysisProofs` – `TypeCorrect`, `ReachabilityIsExact`, for every graph, word width and worklist
  order. Three facts are inductive together: sets hold entrypoints, each reached from itself; a
  function that is not queued has told its successors all it knows; whatever is closed around an
  entrypoint contains what it has been propagated to. With the worklist empty the second makes the
  reached set closed and the third makes it least. That the worklist empties is not part of it.
  `ConfidenceIsThatOfTheStrongest` and `TheShapeIsFound` carry what has been weighed or marked so far
  (`GuardInv`, `ShapeInv`): a mark has a path of calls behind it, and a worklist that is empty has
  left no caller unmarked.

Only model-checked:

- all liveness (fairness and ENABLED are beyond the prover);
- the five invariants of the run `build`: `Parser`, `Resolution`, `Enrichment` and `GraphBuild` compute
  by recursion over trees and hierarchies, written as RECURSIVE operators, which the prover does not
  take, and what they compute for every input would need an induction over data. The merge inside
  the linearization, the collapse and the score are in modules of their own, without such operators,
  and are proved for every input; that Solidity's order is the one the merge finds among those that
  keep the lists, and that the lists are the right ones, is for `LinearizedAsSolidity`.

## 5. What is not modelled

- Git revisions (a worktree per revision; the state is git's), serve (an HTTP front over one graph
  that never changes), source slices, argument parsing, printing, and the callers of `ready()` that
  keep nothing across it (lenses, navigation in the editor).
- Finding the files of a project: globs, TOML, the layouts of frameworks. Strings in, a list of files
  out, with no state.
- Of the parser, the recovery from syntax errors, positions, documentation and metrics; of the
  graph, the attributes copied onto nodes; of the queries, search, statistics and the wording of notes;
  of the exports, the SVG, DOT, Mermaid and JSON writers.
- In modelled components: xxhash and mtime resolution beyond a tick, `ENOENT` races of a user
  deleting `.axiomap` by hand, floating-point scores, array
  types in resolution, two refreshes of the web interface in one millisecond (its generation is
  `Date.now()`), the trait filter and the gestures that move what is drawn.

## 6. Where the code and its words differ

One of these is a run that TLC ends with a counterexample (`findings` in `PROJECT.json`).

- `analysis_hangs` – `propagate` compares an unsigned array element with the signed result of `|`.
  With the top bit of a word set the comparison never finds them equal, so a call cycle reached by the
  entrypoint with index 31 (mod 32) is propagated round for ever. `EndsWithoutSignBit` in run
  `analysis` says that nothing else keeps it going, and `ReachabilityIsExact` that the result is right
  whenever it ends.

The others were met while modelling; the properties are stated with the exceptions they need.

Session, panel, artifact:

- `vscode/session.ts:106` has `reload()` "Rebuild, whatever the artifact says". One that arrives while a
  load is in flight shares it (114), and that load may have read the sources before the save the
  reload is about, or be a first `ready()` that took the artifact as it is. `OwnReloadIsFresh`
  is about reloads that start their own load; `GraphHolder` promises no more than that the graph
  never goes back.
- `project/session.ts:34-35`: "an artifact is trusted only against the bytes it was made from". It is
  trusted by mtime, and a file saved while a build runs is older than an artifact that lacks it.
  `BelievedIsCurrent` speaks of `clean` artifacts.
- `vscode.ts:116-117`: a refresh says that the host's graph is no longer the one the answers are
  about. The panel to tell is looked up before the reload it is to be told of
  (`extension.ts:245`), so a panel opened meanwhile is not told (`missed`).
- `extension.ts:235-237` says the freshness rule is consulted "at the moment a graph is next asked
  for"; after the first load `ready()` answers with what it holds.
- `host.ts:80-82` says every failure comes back on its correlation id; when the build `#onMessage`
  awaits throws, nothing is posted. `RequestsResolve` has that exception (`dropped`).

Review and findings:

- `review/store.ts:7-9`: `review.json` is a file "that several auditors edit through the tool at once".
  The layout is made for git to merge their checkouts. Where they share one, a command reads the
  file before it awaits the graph and writes it whole afterwards (`commands/review.ts:61`, `136`):
  what another has written in between is lost, without a word. `RestIsKept` is about what a command
  had read, and says that nothing of that is lost.
- `review/state.ts:125-128`: an entry with no counterpart "is **kept under its old id**, not deleted".
  When another entry migrates onto that id, one of the two is discarded.
- `store.ts:129-134` says `current` is "there with the body it was found on"; the body is that of the
  graph at the import (`slither.ts:294`), so a function rewritten between the Slither run and the
  import counts as current. `FindingsAreHonest` asks that the two be of one revision.
- `slither.ts:179-184` has a contract's range inside its source unit's; that node has length 0
  (`graph/build.ts:182-184`), so a finding on a pragma or a whole file is unmapped.

Diff:

- `match.ts:28-31`, `230-231`: a bucket that stays ambiguous is left for the later tiers "rather than
  paired on ordering". Two functions that compete for one body match are told apart by id order.

Parsing, resolution, enrichment:

- `treesitter-bodies.ts:510-518` leaves it to the resolver whether `f(x).g()` is a cast; by then the
  inner call is consumed, and `resolveCast` reports a cast to an unknown type: the call of `f` is in
  no edge. `WrittenIsFollowed` excludes it. A local anywhere in a function hides the function of
  that name in the whole body; `arr[i].push(x)` and `a.b.push(x)` record no write.
- A public state variable that implements an interface function is no possible target
  (`resolve/index.ts:865-867`); `super.m()` uses the line of the contract that declares it, not of the
  one deployed; a library attached twice makes its functions ambiguous with themselves.
- `solc-ast.ts:200-202` rules out two references of one class at one byte; `a.f().g()` has two, and
  the edge to `f` moves to `g`. `enrich/index.ts:25` has a stale target not join; the ids of two
  artifacts share one index (305) and may collide.
- `semantic.ts:205-209`: an ambiguous site for which the compiler names none of the candidates loses
  all its edges. A file saved between its parse and the check of the artifact against the disk, and
  an unchanged file whose names changed meaning in another, are upgraded to an old answer.
- `version.ts:11` says the highest version a pragma admits; `||` is read as a conjunction.

Views, interface, export:

- `GraphCanvas.tsx:258-260`: requests that differ in any field "are two different graphs and get their
  own entry". What is on the canvas is filed under the request that is current when the next effect
  runs (706), which may be another.
- `navigation.ts:138` has a pick toggle what is drawn. A directory opened on a stale screen inside
  one that was closed meanwhile opens those around it too (the engine closes its set under
  ancestors), and closing it again closes those as well, which were never asked for.
  `OpenIsWhatWasClicked` therefore speaks of what was clicked and those around it (`Surrounded`).
- State access with a member in focus is always empty; virtual arms keep nodes without edges in
  the call view; the lenses count `calls` where traversal counts `creates` too.
- `html.ts:97-102`: quotas are "floors as much as ceilings"; a kind whose queue is empty once is closed for good
  (310-313). A directory in an exported page does not open (the request lacks `autoExpand: false`,
  189 against 185-187), a structural graph makes the whole export throw (265-272), and a page
  exported with `--view` or `--include-tests` starts with a request it does not carry
  (`static.ts:133-136`). `NodeClicksAreAnswered` is about nodes.

## 7. Plan

1. Done: session, panel, web interface, freshness, review, findings, pool, parser, symbols,
   resolution, enrichment, graph build, queries, aggregation, export, diff, analyses; section 4.
2. Next: revisions (the worktree life cycle under failures at each git command); serve as a variant
   of the panel's request handling; import closure and globs against reference definitions.
3. Theorems: the import closure and the lookup along a linearization, once `Resolution` states them
   without RECURSIVE operators.
