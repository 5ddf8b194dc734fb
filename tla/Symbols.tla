------------------------------ MODULE Symbols ------------------------------
(***************************************************************************)
(* core/src/symbols, project/imports.ts, project/remappings.ts: from the   *)
(* parsed files of a project to the table the resolver reads.              *)
(*                                                                         *)
(* A file as Parser.tla leaves it (a unit) is [pragma, imports, decls,     *)
(* contracts], the declarations in the order they are indexed.  A path is  *)
(* a sequence of segments.  A declaration keeps the fields the resolver    *)
(* uses, and `at`, its byte offset.                                        *)
(***************************************************************************)
EXTENDS Naturals, Sequences, SequencesExt, FiniteSetsExt, TLC

CONSTANT None

Dedupe(s) == FoldLeft(LAMBDA out, x : IF Contains(out, x) THEN out ELSE Append(out, x), <<>>, s)

(***************************************************************************)
(* version.ts: the highest 0.x a pragma admits, by its lowest ceiling.     *)
(***************************************************************************)
\* A comparator is [op, minor, patch]; 99 stands for no ceiling.
Ceiling(c) ==
    CASE c.op \in {">", ">="} -> 99
      [] c.op = "<" -> IF c.patch = 0 THEN c.minor - 1 ELSE c.minor
      [] OTHER -> c.minor

Support(pragma) ==
    IF pragma = <<>> THEN "unknown"
    ELSE LET minor == Min({Ceiling(c) : c \in ToSet(pragma)})
         IN  IF minor >= 8 THEN "supported" ELSE IF minor >= 5 THEN "best-effort" ELSE "unsupported"

(***************************************************************************)
(* imports.ts                                                              *)
(***************************************************************************)
Normalise(path) ==
    FoldLeft(LAMBDA out, part :
                IF part \in {"", "."} THEN out
                ELSE IF part = ".." /\ out # <<>> /\ Last(out) # ".." THEN Front(out)
                ELSE Append(out, part),
             <<>>, path)

\* sortRemappings: the longest prefix first, then the longest context.
Earlier(r, s) ==
    \/ Len(r.prefix) > Len(s.prefix)
    \/ Len(r.prefix) = Len(s.prefix) /\ Len(r.context) > Len(s.context)

Applicable(raw, from, remappings) ==
    {r \in remappings : IsPrefix(r.context, from) /\ IsPrefix(r.prefix, raw)}

\* applyRemappings: the first that matches, alone.
Remapped(raw, from, remappings) ==
    LET match == Applicable(raw, from, remappings)
        first == CHOOSE r \in match : \A s \in match \ {r} : ~Earlier(s, r)
    IN  IF match = {} THEN <<>>
        ELSE <<first.target \o SubSeq(raw, Len(first.prefix) + 1, Len(raw))>>

\* ImportResolver.resolve: the places that are tried, in order.
Attempts(project, from, raw) ==
    IF Head(raw) \in {".", ".."} THEN <<Normalise(Front(from) \o raw)>>
    ELSE LET places == Remapped(raw, from, project.remappings)
                       \o <<<<"node_modules">> \o raw>>
                       \o [i \in DOMAIN project.sources |-> project.sources[i] \o raw]
                       \o <<raw>>
         IN  [i \in DOMAIN places |-> Normalise(places[i])]

Resolve(project, from, raw) ==
    LET hits == SelectSeq(Attempts(project, from, raw), LAMBDA p : Contains(project.files, p))
    IN  IF hits = <<>> THEN None ELSE hits[1]

(***************************************************************************)
(* ids.ts.  The strings are tuples: the sigils keep the namespaces apart,  *)
(* and only functions, events and errors carry a signature.  A contract    *)
(* and a file-level constant of one name have one id.                      *)
(***************************************************************************)
Sigil == [contract |-> ".", function |-> ".", stateVariable |-> ".", modifier |-> "#",
          event |-> "^", error |-> "!", struct |-> "~", enum |-> "~"]

Id(file, scope, decl) ==
    <<file, scope, Sigil[decl.kind], decl.name,
      IF decl.kind \in {"function", "event", "error"} THEN decl.params ELSE None>>

(***************************************************************************)
(* build.ts                                                                *)
(***************************************************************************)
EmptyTable == [files |-> <<>>, sym |-> <<>>, order |-> <<>>, exports |-> <<>>, imported |-> <<>>, bare |-> <<>>,
               named |-> <<>>, excluded |-> {}, warned |-> <<>>]

\* index: a second declaration of an id is reported and dropped.
Declare(table, symbol, top) ==
    LET f == symbol.file IN
    IF symbol.id \in DOMAIN table.sym THEN [table EXCEPT !.warned = Append(@, symbol.id)]
    ELSE [table EXCEPT
            !.sym = (symbol.id :> symbol) @@ @,
            !.order = Append(@, symbol.id),
            !.exports = IF top /\ symbol.name \notin DOMAIN @[f]
                        THEN [@ EXCEPT ![f] = (symbol.name :> symbol.id) @@ @] ELSE @]

Symbol(file, scope, decl) ==
    decl @@ [id |-> Id(file, IF scope = None THEN None ELSE scope[4], decl), file |-> file, scope |-> scope]

\* A contract and its members.  A member that was new is pushed on the symbol
\* of its contract, which is not the one in the table when that has the id of
\* an earlier declaration; the list of contracts by name gets the id again.
DeclareContract(table, file, contract) ==
    LET symbol == Symbol(file, None, [contract EXCEPT !.members = <<>>])
        mine   == symbol.id \notin DOMAIN table.sym
        named  == [Declare(table, symbol, TRUE) EXCEPT !.named =
                     (contract.name :> Append(IF contract.name \in DOMAIN @ THEN @[contract.name] ELSE <<>>,
                                              symbol.id)) @@ @]
        member(t, decl) ==
            LET m    == Symbol(file, symbol.id, decl)
                next == Declare(t, m, FALSE)
            IN  IF mine /\ m.id \notin DOMAIN t.sym
                THEN [next EXCEPT !.sym[symbol.id].members = Append(@, m.id)] ELSE next
    IN  FoldLeft(member, named, contract.members)

\* What the import directives bind: names, namespaces ("*"), or whole files.
Imported(project, file) ==
    LET unit == project.unit[file]
        bind(i) == LET from == Resolve(project, file, i.path)
                       one(map, n) == (n.as :> [from |-> from, name |-> n.name]) @@ map
                   IN  IF from = None THEN <<>>
                       ELSE IF i.names # <<>> THEN FoldLeft(one, <<>>, i.names)
                       ELSE IF i.unit # None THEN i.unit :> [from |-> from, name |-> "*"] ELSE <<>>
    IN  FoldLeft(LAMBDA map, i : bind(i) @@ map, <<>>, unit.imports)

Bare(project, file) ==
    LET whole == SelectSeq(project.unit[file].imports, LAMBDA i : i.names = <<>> /\ i.unit = None)
    IN  SelectSeq([i \in DOMAIN whole |-> Resolve(project, file, whole[i].path)], LAMBDA f : f # None)

\* buildSymbolTable, file by file.
AddFile(project, table, file) ==
    LET unit == project.unit[file]
        open == [table EXCEPT !.files    = Append(@, file),
                              !.exports  = (file :> <<>>) @@ @,
                              !.imported = (file :> Imported(project, file)) @@ @,
                              !.bare     = (file :> Bare(project, file)) @@ @,
                              !.excluded = IF Support(unit.pragma) = "supported" THEN @ ELSE @ \cup {file}]
        declared == FoldLeft(LAMBDA t, d : Declare(t, Symbol(file, None, d), TRUE), open, unit.decls)
    IN  FoldLeft(LAMBDA t, c : DeclareContract(t, file, c), declared, unit.contracts)

SymbolTable(project) ==
    FoldLeft(LAMBDA t, f : AddFile(project, t, f), EmptyTable, project.files)
=============================================================================
