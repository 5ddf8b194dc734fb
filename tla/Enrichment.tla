----------------------------- MODULE Enrichment -----------------------------
(***************************************************************************)
(* core/src/enrich and graph/semantic.ts: what the compiler's artifacts    *)
(* say, and what of it reaches the edges.                                  *)
(*                                                                         *)
(* An artifact (a build-info file) is [status, layout, srcs], with srcs a  *)
(* sequence of [key, unit]: what was compiled, under the name the          *)
(* toolchain gives it.  Two units with one `text` are of the same bytes.   *)
(*                                                                         *)
(* The compiler numbers the declarations of one compilation 1, 2, ..., and *)
(* binds a reference by `binds`, a declaration's [key, scope, name,        *)
(* params] or None; a declaration's `relations` are its [rel, to].  The    *)
(* layout of a contract numbers the variables of its first base, then its  *)
(* own.                                                                    *)
(***************************************************************************)
EXTENDS Symbols

(***************************************************************************)
(* The compiler                                                            *)
(***************************************************************************)
\* The declarations of a unit in the order of its bytes, and its functions.
InContract(c) == <<[scope |-> None, d |-> c]>>
                 \o [i \in DOMAIN c.members |-> [scope |-> c.name, d |-> c.members[i]]]
UnitDeclarations(unit) ==
    [i \in DOMAIN unit.decls |-> [scope |-> None, d |-> unit.decls[i]]]
    \o FlattenSeq([i \in DOMAIN unit.contracts |-> InContract(unit.contracts[i])])

\* The declarations of a compilation: the position in this sequence is the id.
Compiled(srcs) ==
    FlattenSeq([i \in DOMAIN srcs |->
        LET all == UnitDeclarations(srcs[i].unit)
        IN  [j \in DOMAIN all |-> [key |-> srcs[i].key, scope |-> all[j].scope, d |-> all[j].d]]])

HasParams(d) == d.kind \in {"function", "modifier", "event", "error"}
Names(entry, ref) ==
    /\ IsSuffix(ref.key, entry.key) /\ entry.scope = ref.scope /\ entry.d.name = ref.name
    /\ HasParams(entry.d) => entry.d.params = ref.params

\* The id a reference is bound to; 0 for none.
Bound(compiled, ref) == IF ref = None THEN 0 ELSE SelectInSeq(compiled, LAMBDA e : Names(e, ref))

\* The variables of a contract in the order of their slots.
RECURSIVE Storage(_, _)
Storage(compiled, id) ==
    LET c == compiled[id]
        bases == {Bound(compiled, r.to) : r \in {x \in c.d.relations : x.rel = "inherits"}}
        own == SelectSeq([i \in DOMAIN compiled |-> i],
                   LAMBDA i : /\ compiled[i].key = c.key /\ compiled[i].scope = c.d.name
                              /\ compiled[i].d.kind = "stateVariable")
    IN  (IF bases = {} THEN <<>> ELSE Storage(compiled, CHOOSE b \in bases : TRUE)) \o own

(***************************************************************************)
(* enrich/index.ts: which files an artifact speaks for                     *)
(***************************************************************************)
CandidatesFor(key, files) ==
    LET longer == SelectSeq(files, LAMBDA f : Len(f) > Len(key) /\ IsSuffix(key, f))
    IN  SelectSeq(<<key, <<"node_modules">> \o key>> \o longer, LAMBDA f : Contains(files, f))

\* The verdict on one artifact: the sources that name a file of the project,
\* and of these the ones whose bytes are those of the first file that has them;
\* a later source that matches the same file takes its place.
Claims(artifact, files) == SelectSeq(artifact.srcs, LAMBDA s : CandidatesFor(s.key, files) # <<>>)
MatchOf(src, files, disk) ==
    LET same == SelectSeq(CandidatesFor(src.key, files), LAMBDA f : disk[f].text = src.unit.text)
    IN  IF same = <<>> THEN None ELSE same[1]

Load(artifact, files, disk) ==
    LET claims  == Claims(artifact, files)
        matches == [i \in DOMAIN claims |-> [file |-> MatchOf(claims[i], files, disk), key |-> claims[i].key]]
        put(out, m) ==
            LET at == SelectInSeq(out, LAMBDA o : o.file = m.file)
            IN  IF m.file = None THEN out ELSE IF at = 0 THEN Append(out, m) ELSE [out EXCEPT ![at] = m]
        matched == FoldLeft(put, <<>>, matches)
    IN  [compiled |-> Compiled(artifact.srcs), matched |-> matched,
         layout |-> artifact.layout /\ Len(matched) = Len(claims)]

\* The files some artifact speaks for, with the first in path order that does.
Owned(loaded) ==
    LET of(a) == [i \in DOMAIN a.matched |-> a.matched[i] @@ [compiled |-> a.compiled, layout |-> a.layout]]
        add(out, o) == IF \E i \in DOMAIN out : out[i].file = o.file THEN out ELSE Append(out, o)
    IN  FoldLeft(add, <<>>, FlattenSeq([i \in DOMAIN loaded |-> of(loaded[i])]))

(***************************************************************************)
(* enrich/solc-ast.ts: the index.  It is keyed by the compiler's ids, and  *)
(* is one for every artifact that owns a file.                             *)
(***************************************************************************)
FunctionsOf(compiled, key) ==
    SelectSeq(compiled, LAMBDA e : e.key = key /\ e.d.kind \in {"function", "modifier"})

\* indexDeclarations, for each owned file: a later one takes the id.
IndexDeclarations(owned) ==
    LET entries(o) == [id \in {i \in DOMAIN o.compiled : o.compiled[i].key = o.key} |->
                          [source |-> o.key, offset |-> o.compiled[id].d.at, kind |-> o.compiled[id].d.kind,
                           selector |-> o.compiled[id].d.selector]]
    IN  FoldLeft(LAMBDA index, o : entries(o) @@ index, <<>>, owned)

ClassOf(index, id) == IF id \in DOMAIN index /\ index[id].kind = "stateVariable" THEN "variable" ELSE "call"

\* record: the sites of one file, [site, class, id]; the first of a class stays.
\* The callee's own expression starts where the call does, as does the name
\* of its receiver, and it is visited before that name.
ReferencesIn(index, o) ==
    LET fns == FunctionsOf(o.compiled, o.key)
        site(r, class) == LET id == Bound(o.compiled, r.binds)
                          IN  IF id = 0 THEN <<>> ELSE <<[site |-> <<o.key, r.at>>, class |-> class, id |-> id]>>
        all(refs, class) == FlattenSeq([i \in DOMAIN refs |-> site(refs[i], class)])
        named(refs) == FlattenSeq([i \in DOMAIN refs |->
                          site(refs[i], ClassOf(index, Bound(o.compiled, refs[i].binds)))])
        of(f) == all(f.calls, "call") \o named(f.calls) \o named(f.uses)
                 \o all(f.emits, "emit") \o all(f.reverts, "revert")
    IN  FlattenSeq([i \in DOMAIN fns |-> of(fns[i].d)])

RelationsIn(o) ==
    UNION {{<<r.rel, id, Bound(o.compiled, r.to)>> : r \in o.compiled[id].d.relations} :
              id \in {i \in DOMAIN o.compiled : o.compiled[i].key = o.key}}

\* indexStorageLayout, for each contract of a file of a clean artifact.
LayoutsIn(o) ==
    LET contracts == SelectSeq([i \in DOMAIN o.compiled |-> i],
                         LAMBDA i : o.compiled[i].key = o.key /\ o.compiled[i].d.kind = "contract")
        slots(c) == LET line == Storage(o.compiled, c)
                    IN  [id \in ToSet(line) |-> SelectInSeq(line, LAMBDA x : x = id) - 1]
    IN  IF o.layout THEN FoldLeft(LAMBDA map, c : slots(c) @@ map, <<>>, contracts) ELSE <<>>

\* loadSemanticOverlay: None when no artifact speaks for any file.  The ids
\* are joined with the nodes of the table on file and offset.
Overlay(loaded, table) ==
    LET owned   == Owned(loaded)
        sources == FoldLeft(LAMBDA map, o : (o.key :> o.file) @@ map, <<>>, owned)
        index   == IndexDeclarations(owned)
        at(id)  == {s \in DOMAIN table.sym : /\ table.sym[s].file = sources[index[id].source]
                                              /\ table.sym[s].at = index[id].offset}
    IN  IF owned = <<>> THEN None
        ELSE [keys      |-> [f \in {sources[k] : k \in DOMAIN sources} |->
                                CHOOSE k \in DOMAIN sources : sources[k] = f],
              index     |-> index,
              nodes     |-> [id \in {i \in DOMAIN index : at(i) # {}} |-> CHOOSE s \in at(id) : TRUE],
              refs      |-> FlattenSeq([i \in DOMAIN owned |-> ReferencesIn(index, owned[i])]),
              relations |-> UNION {RelationsIn(owned[i]) : i \in DOMAIN owned},
              storage   |-> FoldLeft(LAMBDA map, o : LayoutsIn(o) @@ map, <<>>, owned)]

Covers(overlay, file) == file \in DOMAIN overlay.keys

Reference(overlay, class, src) ==
    LET hits == SelectSeq(overlay.refs, LAMBDA r : r.site = <<overlay.keys[src[1]], src[2]>> /\ r.class = class)
    IN  IF hits = <<>> \/ hits[1].id \notin DOMAIN overlay.nodes THEN None ELSE overlay.nodes[hits[1].id]

\* The id of a node, if the compiler declares it.
IdOf(overlay, node) == {id \in DOMAIN overlay.nodes : overlay.nodes[id] = node}

Relation == [inherits |-> "inherits", overrides |-> "base", implements |-> "base", modifiedBy |-> "modifiedBy"]
Confirms(overlay, kind, from, to) ==
    \E f \in IdOf(overlay, from), t \in IdOf(overlay, to) : <<Relation[kind], f, t>> \in overlay.relations

Selector(overlay, node) == {overlay.index[id].selector : id \in IdOf(overlay, node)} \ {None}
Slot(overlay, node) == {overlay.storage[id] : id \in IdOf(overlay, node) \cap DOMAIN overlay.storage}

(***************************************************************************)
(* graph/semantic.ts                                                       *)
(***************************************************************************)
ReferenceClass == [calls |-> "call", creates |-> "call", reads |-> "variable", writes |-> "variable",
                   emits |-> "emit", reverts |-> "revert"]

SiteKey(draft) == <<draft.from, draft.kind, draft.src>>
Upgrade(draft, to) == [draft EXCEPT !.to = to, !.res = "semantic"]

ApplyToKeep(draft, overlay, chosen) ==
    LET target == Reference(overlay, ReferenceClass[draft.kind], draft.src)
    IN  IF draft.kind \notin DOMAIN ReferenceClass \/ ~Covers(overlay, draft.src[1]) \/ target = None
           \/ draft.res = "ambiguous"
        THEN <<draft>> ELSE <<Upgrade(draft, target)>>

\* What is left of one draft: itself, the compiler's answer, or nothing.
ApplyTo(draft, overlay, chosen) ==
    IF draft.kind = "declares" \/ ~Covers(overlay, draft.src[1]) THEN <<draft>>
    ELSE IF draft.kind \in DOMAIN Relation
    THEN IF Confirms(overlay, draft.kind, draft.from, draft.to) THEN <<Upgrade(draft, draft.to)>> ELSE <<draft>>
    ELSE LET target == Reference(overlay, ReferenceClass[draft.kind], draft.src)
         IN  IF target = None THEN <<draft>>
             ELSE IF target = draft.to \/ draft.res = "unresolved" THEN <<Upgrade(draft, target)>>
             ELSE IF draft.res = "ambiguous" /\ <<SiteKey(draft), target>> \in chosen THEN <<>>
             ELSE <<Upgrade(draft, target)>>

\* applySemanticOverlay.  `chosen` is the answer at each ambiguous site.
Applied(drafts, overlay) ==
    LET asked == {d \in ToSet(drafts) : /\ d.res = "ambiguous" /\ d.kind \in DOMAIN ReferenceClass
                                        /\ Covers(overlay, d.src[1])}
        chosen == {<<SiteKey(d), Reference(overlay, ReferenceClass[d.kind], d.src)>> : d \in asked}
    IN  FlattenSeq([i \in DOMAIN drafts |-> ApplyTo(drafts[i], overlay, chosen)])
=============================================================================
