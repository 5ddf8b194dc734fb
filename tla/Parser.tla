------------------------------- MODULE Parser -------------------------------
(***************************************************************************)
(* core/src/parse/treesitter.ts and treesitter-bodies.ts: the syntax tree  *)
(* of a file becomes a unit, and the body of a function the calls, uses,   *)
(* emits, reverts and locals the resolver works from.                      *)
(*                                                                         *)
(* A node of a body is [t, at, text, kids, binds]: its type, first byte,   *)
(* text (of an identifier, type or operator), children in order, and what  *)
(* a compiler says it refers to, which only Enrichment reads.  `expression`*)
(* wrappers and comments are left out.  A declaration is a record of its   *)
(* own shape, told apart by `t`.                                           *)
(***************************************************************************)
EXTENDS Naturals, Sequences, SequencesExt, FiniteSetsExt

CONSTANT None

(***************************************************************************)
(* Nodes                                                                   *)
(***************************************************************************)
\* The nodes the walk visits, in its order; assembly is not entered.
RECURSIVE Walk(_)
Walk(n) == <<n>> \o IF n.t = "assembly" THEN <<>> ELSE FlattenSeq([i \in DOMAIN n.kids |-> Walk(n.kids[i])])

RECURSIVE Unwrap(_)
Unwrap(n) == IF n.t = "paren" THEN Unwrap(n.kids[1]) ELSE n

\* baseIdentifier: pairs[a][b] is rooted in pairs; f().x in nothing.
RECURSIVE Base(_)
Base(n) ==
    LET m == Unwrap(n)
    IN  IF m.t = "identifier" THEN <<m>> ELSE IF m.t \in {"member", "index"} THEN Base(m.kids[1]) ELSE <<>>

RECURSIVE Targets(_)
Targets(n) ==
    LET m == Unwrap(n)
    IN  IF m.t = "tuple" THEN FlattenSeq([i \in DOMAIN m.kids |-> Targets(m.kids[i])]) ELSE Base(m)

Writes(n) ==
    CASE n.t \in {"assign", "augment"} -> Targets(n.kids[1])
      [] n.t \in {"update", "delete"}  -> Base(n.kids[1])
      [] OTHER                         -> <<>>

(***************************************************************************)
(* Calls.  The children of a call are its callee and its arguments.        *)
(***************************************************************************)
Callee(call) == Unwrap(call.kids[1])
Core(call) == IF Callee(call).t = "options" THEN Unwrap(Callee(call).kids[1]) ELSE Callee(call)
Keys(call) == IF Callee(call).t = "options" THEN {f.kids[1] : f \in ToSet(Tail(Callee(call).kids))} ELSE {}
Arguments(call) == Len(call.kids) - 1

Property(core) == Last(core.kids)
Receiver(core) == Unwrap(core.kids[1])

\* castTypeOf: IPair(x) is spelled as a call.
IsCastAny(n) == n.t = "call" /\ Callee(n).t = "identifier" /\ Arguments(n) >= 1
IsCast(n) == n.t = "call" /\ Callee(n).t = "identifier" /\ Arguments(n) = 1

Through(call) == LET core == Core(call) IN core.t = "member" /\ Len(core.kids) > 1
Consumed(body) == {Receiver(Core(n)) : n \in {c \in ToSet(Walk(body)) : c.t = "call" /\ Through(c) /\ IsCast(Receiver(Core(c)))}}

\* The identifier the text of a receiver ends in.
RECURSIVE Trailing(_)
Trailing(n) ==
    IF n.t = "identifier" THEN n.text ELSE IF n.t \in {"member", "binary"} THEN Trailing(Last(n.kids)) ELSE None

Shape(shape, name, receiver) == [shape |-> shape, name |-> name, receiver |-> receiver]

\* describeCallee.  A member of nothing, in a file being edited, has no shape.
DescribeCallee(call) ==
    LET core == Core(call)
        name == Property(core).text
        to   == Receiver(core)
    IN  CASE core.t = "new"        -> <<Shape("new", core.kids[1].text, None)>>
          [] core.t = "identifier" -> <<Shape("bare", core.text, None)>>
          [] core.t # "member"     -> <<Shape("expression", core.text, None)>>
          [] ~Through(call)        -> <<>>
          [] to.t = "identifier"   -> IF to.text \in {"super", "this"} THEN <<Shape(to.text, name, None)>>
                                      ELSE <<Shape("member", name, to.text)>>
          [] to.t = "cast"         -> <<Shape("cast", name, to.text)>>
          [] IsCast(to)            -> <<Shape("cast", name, Callee(to).text)>>
          [] OTHER                 -> <<Shape("expression", name, Trailing(to))>>

\* The identifiers a call accounts for.
Accounted(call) ==
    LET core == Core(call)
        to   == Receiver(core)
    IN  Keys(call) \cup
        CASE core.t = "new"        -> ToSet(core.kids)
          [] core.t = "identifier" -> {core}
          [] core.t # "member"     -> {}
          [] ~Through(call)        -> {}
          [] IsCast(to)            -> {Property(core), Callee(to)}
          [] to.t = "identifier" /\ to.text \in {"super", "this"} -> {Property(core), to}
          [] OTHER                 -> {Property(core)}

(***************************************************************************)
(* Bodies                                                                  *)
(***************************************************************************)
\* The name of an emit or revert: emit L.E(..) names E.
StatementName(n) ==
    LET first == Unwrap(n.kids[1])
    IN  CASE first.t = "member" -> <<Last(first.kids)>> [] first.t = "identifier" -> <<first>> [] OTHER -> <<>>

\* Identifiers that are no read of their own.
Skips(n, consumed) ==
    CASE n.t \in {"assign", "augment", "update", "delete"} -> ToSet(Writes(n))
      [] n.t = "declare"             -> {n.kids[2]}
      [] n.t \in {"emit", "revert"}  -> ToSet(StatementName(n))
      [] n.t = "member"              -> IF Len(n.kids) > 1 THEN {Last(n.kids)} ELSE {}
      [] n.t = "field"               -> {n.kids[1]}
      [] n.t = "call"                -> IF n \in consumed THEN {} ELSE Accounted(n)
      [] OTHER                       -> {}

Use(id, write) == [at |-> id.at, name |-> id.text, write |-> write, binds |-> id.binds]

\* What one node records.  x += 1 writes and reads; xs.push(1) writes xs, and
\* reads it as any receiver is read.
UsesAt(n, skipped, consumed) ==
    LET each(make(_)) == FlattenSeq([i \in DOMAIN Writes(n) |-> make(Writes(n)[i])])
        mutates == n.t = "call" /\ n \notin consumed /\ \E s \in ToSet(DescribeCallee(n)) :
                        s.shape = "member" /\ s.name \in {"push", "pop"}
    IN  CASE n.t = "identifier"             -> IF n \in skipped THEN <<>> ELSE <<Use(n, FALSE)>>
          [] n.t \in {"assign", "delete"}   -> each(LAMBDA id : <<Use(id, TRUE)>>)
          [] n.t \in {"augment", "update"}  -> each(LAMBDA id : <<Use(id, TRUE), Use(id, FALSE)>>)
          [] mutates                        -> <<Use(Receiver(Core(n)), TRUE)>>
          [] OTHER                          -> <<>>

Sender == {<<"msg", "sender">>, <<"tx", "origin">>}
NamesSender(n) ==
    LET m == Unwrap(n) IN m.t = "member" /\ [i \in DOMAIN m.kids |-> m.kids[i].text] \in Sender

ElementaryTypes == {"uint256", "address"}
LowLevelNames == {"call", "staticcall", "callcode"}
YulFlags ==
    [delegatecall |-> "hasDelegatecall", call |-> "hasLowLevelCall", callcode |-> "hasLowLevelCall",
     staticcall |-> "hasLowLevelCall", selfdestruct |-> "hasSelfdestruct", create |-> "hasCreate",
     create2 |-> "hasCreate", sstore |-> "assemblyWritesState", tstore |-> "assemblyWritesState",
     sload |-> "assemblyReadsState", tload |-> "assemblyReadsState"]

\* applyCallFlags.
CallFlags(call) ==
    UNION {(IF \E k \in Keys(call) : k.text = "value" THEN {"sendsValue"} ELSE {}) \cup
           CASE s.shape = "new"  -> IF s.name \in ElementaryTypes THEN {} ELSE {"hasCreate"}
             [] s.shape = "bare" -> IF s.name = "selfdestruct" THEN {"hasSelfdestruct"} ELSE {}
             [] s.shape \notin {"member", "expression"} -> {}
             [] s.name = "delegatecall"         -> {"hasDelegatecall"}
             [] s.name \in LowLevelNames        -> {"hasLowLevelCall"}
             [] s.name \in {"transfer", "send"} -> {"sendsValue"}
             [] OTHER -> {} : s \in ToSet(DescribeCallee(call))}

\* Assembly contributes flags alone: Yul names no variable.
AssemblyFlags(n) == {"hasAssembly"} \cup {YulFlags[k.text] : k \in {x \in ToSet(n.kids) : x.text \in DOMAIN YulFlags}}

FlagsOf(n, consumed) ==
    CASE n.t = "binary"    -> IF n.text \in {"==", "!="} /\ \E i \in DOMAIN n.kids : NamesSender(n.kids[i])
                              THEN {"checksSender"} ELSE {}
      [] n.t = "unchecked" -> {"hasUnchecked"}
      [] n.t = "try"       -> {"hasTryCatch"}
      [] n.t = "assembly"  -> AssemblyFlags(n)
      [] n.t = "call"      -> IF n \in consumed THEN {} ELSE CallFlags(n)
      [] OTHER             -> {}

Local(name, type) == [name |-> name, type |-> type]
Declared(params) == LET named == SelectSeq(params, LAMBDA p : p.name # None)
                    IN  [i \in DOMAIN named |-> Local(named[i].name, named[i].type)]

\* analyseBody.
AnalyseBody(body, params, returns) ==
    LET nodes    == IF body = None THEN <<>> ELSE Walk(body)
        consumed == IF body = None THEN {} ELSE Consumed(body)
        skipped  == UNION {Skips(n, consumed) : n \in ToSet(nodes)}
        of(t)    == SelectSeq(nodes, LAMBDA n : n.t = t)
        calls    == SelectSeq(of("call"), LAMBDA n : n \notin consumed /\ DescribeCallee(n) # <<>>)
        call(n)  == [at |-> n.at, args |-> Arguments(n), binds |-> n.binds] @@ DescribeCallee(n)[1]
        named(t) == LET all == SelectSeq(of(t), LAMBDA n : StatementName(n) # <<>>)
                    IN  [i \in DOMAIN all |-> [at |-> all[i].at, name |-> StatementName(all[i])[1].text,
                                               binds |-> all[i].binds]]
        local    == of("declare")
    IN  [calls   |-> [i \in DOMAIN calls |-> call(calls[i])],
         uses    |-> FlattenSeq([i \in DOMAIN nodes |-> UsesAt(nodes[i], skipped, consumed)]),
         emits   |-> named("emit"),
         reverts |-> named("revert"),
         locals  |-> Declared(params) \o Declared(returns)
                     \o [i \in DOMAIN local |-> Local(local[i].kids[2].text, local[i].kids[1].text)],
         flags   |-> UNION {FlagsOf(n, consumed) : n \in ToSet(nodes)}]

(***************************************************************************)
(* Declarations                                                            *)
(***************************************************************************)
FunctionTypes == {"function", "modifier", "constructor", "fallback", "receive"}
Types(params) == [i \in DOMAIN params |-> params[i].type]

\* functionDef, with the name functionName gives the nameless.
FunctionDef(n) ==
    [kind |-> IF n.t = "modifier" THEN "modifier" ELSE "function", sub |-> n.t,
     name |-> IF n.t \in {"function", "modifier"} THEN n.name ELSE n.t,
     params |-> Types(n.params), hasBody |-> n.body # None, body |-> n.body,
     virtual |-> n.virtual, modifiers |-> n.modifiers, at |-> n.at,
     selector |-> n.selector, relations |-> n.relations]
    @@ AnalyseBody(n.body, n.params, n.returns)

MemberOrder == <<FunctionTypes, {"stateVariable"}, {"event"}, {"error"}, {"struct"}, {"enum"}, {"valueType"}>>
FileOrder   == <<{"function"}, {"stateVariable"}, {"error"}, {"struct"}, {"enum"}, {"valueType"}>>

Declaration(n) ==
    IF n.t \in FunctionTypes THEN FunctionDef(n)
    ELSE IF n.t \in {"event", "error"} THEN [[kind |-> n.t] @@ n EXCEPT !.params = Types(@)]
    ELSE [kind |-> n.t] @@ n

\* Declarations are kept in a list per kind, and the table is built from one
\* list after the other.
Grouped(nodes, order) ==
    LET all == FlattenSeq([k \in DOMAIN order |-> SelectSeq(nodes, LAMBDA n : n.t \in order[k])])
    IN  [i \in DOMAIN all |-> Declaration(all[i])]

ContractOf(n) ==
    [kind |-> "contract", at |-> n.at, name |-> n.name, ckind |-> n.ckind, bases |-> n.bases,
     selector |-> n.selector, relations |-> n.relations,
     using   |-> SelectSeq(n.body, LAMBDA m : m.t = "using"),
     members |-> Grouped(n.body, MemberOrder)]

\* import: the tokens in order.  Inside braces `as` renames the last symbol,
\* outside them an identifier is the name of the whole file.
ImportOf(n) ==
    LET read(s, token) ==
            CASE token = "{"  -> [s EXCEPT !.inside = TRUE]
              [] token = "}"  -> [s EXCEPT !.inside = FALSE]
              [] token = "*"  -> [s EXCEPT !.star = TRUE]
              [] token = "as" -> [s EXCEPT !.as = TRUE]
              [] OTHER -> IF s.as THEN IF s.inside THEN [s EXCEPT !.as = FALSE, !.names[Len(s.names)].as = token]
                                       ELSE [s EXCEPT !.as = FALSE, !.unit = token]
                          ELSE IF s.inside THEN [s EXCEPT !.names = Append(@, [name |-> token, as |-> token])]
                          ELSE IF ~s.star THEN [s EXCEPT !.unit = token] ELSE s
        end == FoldLeft(read, [inside |-> FALSE, star |-> FALSE, as |-> FALSE, names |-> <<>>, unit |-> None], n.tokens)
    IN  [path |-> n.path, names |-> end.names, unit |-> end.unit]

\* findSolidityPragma: the first one, whatever the others say.
Pragma(pragmas) ==
    LET solidity == SelectSeq(pragmas, LAMBDA p : p.name = "solidity")
    IN  IF solidity = <<>> THEN <<>> ELSE solidity[1].comparators

\* parse: the children of a file.
Parsed(root) ==
    LET of(types) == SelectSeq(root, LAMBDA n : n.t \in types)
        pragmas   == of({"pragma"})
        imports   == of({"import"})
        contracts == of({"contract"})
    IN  [pragma    |-> Pragma(pragmas),
         imports   |-> [i \in DOMAIN imports |-> ImportOf(imports[i])],
         decls     |-> Grouped(root, FileOrder),
         contracts |-> [i \in DOMAIN contracts |-> ContractOf(contracts[i])]]
=============================================================================
