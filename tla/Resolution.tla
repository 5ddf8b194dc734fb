----------------------------- MODULE Resolution -----------------------------
(***************************************************************************)
(* core/src/resolve: names to edges, with a confidence on each.            *)
(*                                                                         *)
(* A draft is an edge at one call site; `src` is the file and the offset   *)
(* of the site, `possible` the targets virtual dispatch may take.  Types   *)
(* are names; one or two names stand for each of the sets of built-in      *)
(* names the code lists, and array types are left out.                     *)
(***************************************************************************)
EXTENDS Symbols, C3

VARIABLES table,   \* the symbol table
          lines    \* contract -> [order, certain], as far as linearized

Sym(id) == table.sym[id]
IsContract(id) == id \in DOMAIN table.sym /\ Sym(id).kind = "contract"
OfKinds(ids, kinds) == SelectSeq(ids, LAMBDA id : Sym(id).kind \in kinds)

(***************************************************************************)
(* scope.ts: what a file sees                                              *)
(***************************************************************************)
Export(file, name) ==
    IF file \in DOMAIN table.exports /\ name \in DOMAIN table.exports[file]
    THEN <<table.exports[file][name]>> ELSE <<>>

Visible(file, name) ==
    LET bound == IF name \in DOMAIN table.imported[file] THEN table.imported[file][name] ELSE [from |-> None, name |-> "*"]
        bare  == table.bare[file]
    IN  Dedupe(Export(file, name) \o Export(bound.from, bound.name)
               \o FlattenSeq([i \in DOMAIN bare |-> Export(bare[i], name)]))

\* In scope, or anywhere in the project.
ContractsNamed(file, name) ==
    LET local == OfKinds(Visible(file, name), {"contract"})
    IN  IF local # <<>> THEN local
        ELSE IF name \in DOMAIN table.named THEN OfKinds(table.named[name], {"contract"}) ELSE <<>>

(***************************************************************************)
(* scope.ts: linearization                                                 *)
(***************************************************************************)
\* linearise: depth first through the bases, the finished ones cached in
\* `known`; one that is still being visited answers with itself, ambiguous.
\* A base name that is not one contract makes the chain ambiguous, and the
\* first candidate stands for it.
RECURSIVE Linearise(_, _, _)
Linearise(id, visiting, known) ==
    IF id \in DOMAIN known THEN [line |-> known[id], known |-> known]
    ELSE IF id \in visiting THEN [line |-> [order |-> <<id>>, certain |-> FALSE], known |-> known]
    ELSE
    LET contract == Sym(id)
        base(acc, name) ==
            LET candidates == ContractsNamed(contract.file, name)
                below == Linearise(candidates[1], visiting \cup {id}, acc.known)
            IN  IF candidates = <<>> THEN [acc EXCEPT !.certain = FALSE]
                ELSE [certain |-> acc.certain /\ Len(candidates) = 1 /\ below.line.certain,
                      orders  |-> <<below.line.order>> \o acc.orders,
                      direct  |-> <<candidates[1]>> \o acc.direct,
                      known   |-> below.known]
        all    == FoldLeft(base, [certain |-> TRUE, orders |-> <<>>, direct |-> <<>>, known |-> known], contract.bases)
        merged == C3Merge(Append(all.orders, all.direct))
        line   == [order   |-> Dedupe(<<id>> \o IF Complete(merged) THEN merged.out ELSE FlattenSeq(all.orders)),
                   certain |-> all.certain /\ Complete(merged)]
    IN  [line |-> line, known |-> (id :> line) @@ all.known]

Linearization(id) == IF id \in DOMAIN lines THEN lines[id] ELSE [order |-> <<id>>, certain |-> FALSE]
DerivedFrom(id) == {d \in DOMAIN lines \ {id} : Contains(lines[d].order, id)}

\* A declaration shadows those of its kind and signature further up.
SignatureKey(id) ==
    <<Sym(id).kind, IF Sym(id).kind \in {"function", "modifier"} THEN Sym(id).params ELSE None>>

MembersNamed(contract, name) ==
    LET order == Linearization(contract).order
        all   == FlattenSeq([i \in DOMAIN order |->
                     SelectSeq(Sym(order[i]).members, LAMBDA m : Sym(m).name = name)])
        keep(out, m) == IF \E i \in DOMAIN out : SignatureKey(out[i]) = SignatureKey(m) THEN out ELSE Append(out, m)
    IN  FoldLeft(keep, <<>>, all)

(***************************************************************************)
(* Emission                                                                *)
(***************************************************************************)
Draft(kind, sub, from, to, res, src, possible, cross) ==
    [kind |-> kind, sub |-> sub, from |-> from, to |-> to, res |-> res, src |-> src,
     possible |-> possible, cross |-> cross]

Plain(kind, from, to, src) == Draft(kind, None, from, to, "heuristic", src, {}, FALSE)

\* One placeholder per category and name, for the whole project.
Placeholder(category, name) == <<"?", category, name>>
Unresolved(fn, kind, sub, name, category, src) ==
    <<Draft(kind, sub, fn.id, Placeholder(category, name), "unresolved", src, {}, FALSE)>>

\* An exact arity match decides; with none every candidate stays.
NarrowByArity(candidates, args) ==
    LET exact == SelectSeq(candidates, LAMBDA c : Sym(c).kind \in {"function", "modifier"} /\ Len(Sym(c).params) = args)
    IN  IF exact # <<>> THEN exact ELSE candidates

SubkindFor(target, fallback) ==
    IF IsContract(Sym(target).scope) /\ Sym(Sym(target).scope).ckind = "library" THEN "library" ELSE fallback

OverridesOfNext(target) ==
    LET f == Sym(target)
        next == {d \in DerivedFrom(f.scope) : Contains(Sym(d).bases, Sym(f.scope).name)}
    IN  IF f.kind # "function" \/ f.scope = None THEN {}
        ELSE {m \in UNION {ToSet(Sym(d).members) : d \in next} : Sym(m).name = f.name /\ Sym(m).params = f.params}

\* Overriding functions with a body, in every contract derived from the owner.
OverridesOf(target) ==
    LET f == Sym(target) IN
    IF f.kind # "function" \/ f.scope = None THEN {}
    ELSE {m \in UNION {ToSet(Sym(d).members) : d \in DerivedFrom(f.scope)} :
            Sym(m).kind = "function" /\ Sym(m).name = f.name /\ Sym(m).hasBody /\ Sym(m).params = f.params}

ImplementationsOf(target) ==
    LET f == Sym(target) IN
    IF f.kind = "function" /\ IsContract(f.scope) /\ (Sym(f.scope).ckind = "interface" \/ f.virtual)
    THEN OverridesOf(target) ELSE {}
(***************************************************************************)
(* Names with no declaration in the project                                *)
(***************************************************************************)
GlobalBuiltins == {"require", "keccak256"}
BuiltinReceivers == {"abi", "msg"}
ArrayMembers == {"push", "length"}
AddressValues == {"balance", "code"}
LowLevel == [call |-> "lowlevel", delegatecall |-> "delegatecall"]
Elementary == {"uint256", "address"}
FunctionPointer == "function"
TypeKinds == {"contract", "struct", "enum"}

\* The targets a draft names beside its own: none, the overrides of a virtual
\* function called from within, or the implementations of an interface's.
PossibleTargets(dispatch, target) ==
    CASE dispatch = "none"            -> {}
      [] dispatch = "overrides"       -> OverridesOf(target)
      [] dispatch = "implementations" -> ImplementationsOf(target)

EmitCandidates(fn, kind, sub, candidates, src, dispatch, cross) ==
    [i \in DOMAIN candidates |->
        Draft(kind, sub, fn.id, candidates[i], IF Len(candidates) > 1 THEN "ambiguous" ELSE "heuristic",
              src, PossibleTargets(dispatch, candidates[i]), cross)]

(***************************************************************************)
(* Scopes of a function                                                    *)
(***************************************************************************)
\* What a name means in the chain of the contract of a function.
InChain(fn, name, kinds) ==
    IF fn.scope = None THEN <<>> ELSE OfKinds(MembersNamed(fn.scope, name), kinds)
AtFileLevel(fn, name, kinds) == OfKinds(Visible(fn.file, name), kinds)
NamesKind(fn, name, kinds) == AtFileLevel(fn, name, kinds) # <<>> \/ InChain(fn, name, kinds) # <<>>

Local(fn, name) == SelectSeq(fn.locals, LAMBDA l : l.name = name)
\* State variables of the chain, then file-level constants.
Variable(fn, name) ==
    LET all == InChain(fn, name, {"stateVariable"}) \o AtFileLevel(fn, name, {"stateVariable"})
    IN  IF all = <<>> THEN None ELSE all[1]
TypeOfVariable(fn, name) ==
    IF Local(fn, name) # <<>> THEN Local(fn, name)[1].type
    ELSE IF Variable(fn, name) # None THEN Sym(Variable(fn, name)).type ELSE None

\* Functions attached by the using-for directives of the contract itself.
UsingFor(fn, type, name) ==
    IF fn.scope = None THEN <<>>
    ELSE LET attach(u) ==
               LET libs == IF u.library = None THEN <<>> ELSE ContractsNamed(Sym(fn.scope).file, u.library)
               IN  IF u.type \notin {None, type} THEN <<>>
                   ELSE FlattenSeq([i \in DOMAIN libs |-> OfKinds(MembersNamed(libs[i], name), {"function"})])
                        \o (IF name \in u.functions THEN AtFileLevel(fn, name, {"function"}) ELSE <<>>)
             using == Sym(fn.scope).using
         IN  FlattenSeq([i \in DOMAIN using |-> attach(using[i])])

(***************************************************************************)
(* Declarations and contracts                                              *)
(***************************************************************************)
Declares == [i \in DOMAIN table.order |->
    LET s == Sym(table.order[i])
    IN  Plain("declares", IF s.scope = None THEN s.file ELSE s.scope, s.id, <<s.file, s.at>>)]

\* An inherits edge to each contract a base name may mean, with its place in
\* the linearization when it has one.
ResolveContract(contract) ==
    LET order == Linearization(contract.id).order
        src   == <<contract.file, contract.at>>
        edge(d) == IF Contains(order, d.to) THEN [index |-> SelectInSeq(order, LAMBDA x : x = d.to) - 1] @@ d ELSE d
        base(name) ==
            LET found == ContractsNamed(contract.file, name)
                out == EmitCandidates(contract, "inherits", None, found, src, "none", FALSE)
            IN  IF found = <<>> THEN Unresolved(contract, "inherits", None, name, "not-found", src)
                ELSE [i \in DOMAIN out |-> edge(out[i])]
    IN  FlattenSeq([i \in DOMAIN contract.bases |-> base(contract.bases[i])])

\* Every declaration of the kind and signature further up the chain.
ResolveOverrides(fn) ==
    IF fn.scope = None \/ fn.sub = "constructor" THEN <<>>
    ELSE LET above == SelectSeq(Linearization(fn.scope).order, LAMBDA c : c # fn.scope)
             same == SelectSeq(FlattenSeq([i \in DOMAIN above |-> Sym(above[i]).members]),
                        LAMBDA m : /\ Sym(m).kind = fn.kind /\ Sym(m).name = fn.name
                                   /\ Sym(m).params = fn.params)
         IN  [i \in DOMAIN same |-> Plain(IF Sym(same[i]).hasBody THEN "overrides" ELSE "implements",
                                          fn.id, same[i], <<fn.file, fn.at>>)]

\* A name in the modifier list is a modifier of the chain, or a base whose
\* constructor is called (no edge when it declares none).
ResolveModifiers(fn) ==
    LET src == <<fn.file, fn.at>>
        resolve(name) ==
            LET modifiers == InChain(fn, name, {"modifier"})
                bases == ContractsNamed(fn.file, name)
                isBase == fn.scope # None /\ \E i \in DOMAIN bases : Contains(Linearization(fn.scope).order, bases[i])
                constructors == FlattenSeq([i \in DOMAIN bases |->
                                    OfKinds(MembersNamed(bases[i], "constructor"), {"function"})])
            IN  IF modifiers # <<>> THEN EmitCandidates(fn, "modifiedBy", None, modifiers, src, "none", FALSE)
                ELSE IF isBase THEN EmitCandidates(fn, "calls", "internal", constructors, src, "none", FALSE)
                ELSE Unresolved(fn, "modifiedBy", None, name, "not-found", src)
    IN  FlattenSeq([i \in DOMAIN fn.modifiers |-> resolve(fn.modifiers[i])])

ResolveStateAccess(fn) ==
    LET uses == SelectSeq(fn.uses, LAMBDA u : Local(fn, u.name) = <<>> /\ Variable(fn, u.name) # None)
    IN  [i \in DOMAIN uses |-> Plain(IF uses[i].write THEN "writes" ELSE "reads",
                                     fn.id, Variable(fn, uses[i].name), <<fn.file, uses[i].at>>)]

\* emit E(..) and revert Err(..): the chain, then the file.
ResolveNameRefs(fn, refs, kind, symbolKind) ==
    LET resolve(ref) ==
            LET chain == InChain(fn, ref.name, {symbolKind})
                found == IF chain # <<>> THEN chain ELSE AtFileLevel(fn, ref.name, {symbolKind})
            IN  IF found = <<>> THEN Unresolved(fn, kind, None, ref.name, "not-found", <<fn.file, ref.at>>)
                ELSE EmitCandidates(fn, kind, None, found, <<fn.file, ref.at>>, "none", FALSE)
    IN  FlattenSeq([i \in DOMAIN refs |-> resolve(refs[i])])

(***************************************************************************)
(* Calls.  A call is [at, shape, name, args, receiver].                    *)
(***************************************************************************)
Site(fn, call) == <<fn.file, call.at>>
Missing(fn, call, category, sub) == Unresolved(fn, "calls", sub, call.name, category, Site(fn, call))
Calls(fn, call, sub, found, dispatch, cross) ==
    EmitCandidates(fn, "calls", sub, found, Site(fn, call), dispatch, cross)

\* Allocations of memory are no edge.
ResolveNew(fn, call) ==
    LET found == ContractsNamed(fn.file, call.name)
    IN  IF call.name \in Elementary THEN <<>>
        ELSE IF found = <<>> THEN Unresolved(fn, "creates", None, call.name, "not-found", Site(fn, call))
        ELSE EmitCandidates(fn, "creates", None, found, Site(fn, call), "none", FALSE)

\* A function of the chain, a free one, a pointer, a type conversion.
ResolveBare(fn, call) ==
    LET chain     == InChain(fn, call.name, {"function"})
        functions == IF chain # <<>> THEN chain ELSE AtFileLevel(fn, call.name, {"function"})
        found     == NarrowByArity(functions, call.args)
        pointer   == InChain(fn, call.name, {"stateVariable"})
    IN  IF call.name \in GlobalBuiltins THEN <<>>
        ELSE IF Local(fn, call.name) # <<>> THEN Missing(fn, call, "function-pointer", "internal")
        ELSE IF functions # <<>> THEN Calls(fn, call, SubkindFor(found[1], "internal"), found, "overrides", FALSE)
        ELSE IF pointer # <<>> /\ Sym(pointer[1]).type = FunctionPointer
             THEN Missing(fn, call, "function-pointer", "internal")
        ELSE IF NamesKind(fn, call.name, TypeKinds) THEN <<>>
        ELSE Missing(fn, call, "not-found", "internal")

\* The first base with an implementation of that name; every one of them when
\* the chain is uncertain.
ResolveSuper(fn, call) ==
    LET line  == Linearization(fn.scope)
        above == SelectSeq(line.order, LAMBDA c : c # fn.scope)
        of(c) == SelectSeq(Sym(c).members,
                    LAMBDA m : Sym(m).kind = "function" /\ Sym(m).name = call.name /\ Sym(m).hasBody)
        some  == SelectSeq([i \in DOMAIN above |-> of(above[i])], LAMBDA ms : ms # <<>>)
        all   == FlattenSeq(some)
    IN  IF fn.scope = None \/ some = <<>> THEN Missing(fn, call, "not-found", "super")
        ELSE IF line.certain THEN Calls(fn, call, "super", NarrowByArity(some[1], call.args), "none", FALSE)
        ELSE [i \in DOMAIN all |-> Draft("calls", "super", fn.id, all[i], "ambiguous", Site(fn, call), {}, FALSE)]

ResolveOnSelf(fn, call) ==
    LET found == InChain(fn, call.name, {"function"})
    IN  IF found = <<>> THEN Missing(fn, call, "not-found", "external")
        ELSE Calls(fn, call, "external", NarrowByArity(found, call.args), "none", FALSE)

\* The members of one or more candidate contracts: functions, then getters.
ResolveOnContracts(fn, call, contracts, sub) ==
    LET members(c) == MembersNamed(c, call.name)
        all == FlattenSeq([i \in DOMAIN contracts |-> members(contracts[i])])
        functions == OfKinds(all, {"function"})
        getters   == SelectSeq(all, LAMBDA m : Sym(m).kind = "stateVariable" /\ Sym(m).public)
        found     == NarrowByArity(functions, call.args)
        cross     == \E i \in DOMAIN contracts : /\ Sym(contracts[i]).ckind = "interface"
                                                 /\ OfKinds(members(contracts[i]), {"function"}) # <<>>
    IN  IF functions # <<>> THEN Calls(fn, call, SubkindFor(found[1], sub), found, "implementations", cross)
        ELSE IF getters # <<>> THEN Calls(fn, call, "external", getters, "none", FALSE)
        ELSE IF call.name \in ArrayMembers THEN <<>>
        ELSE Missing(fn, call, "not-found", sub)

\* A receiver of a type that is no contract: attached functions, value
\* members, low-level calls.
ResolveOnElementary(fn, call, type) ==
    LET attached == UsingFor(fn, type, call.name)
    IN  IF attached # <<>> THEN Calls(fn, call, "library", attached, "none", FALSE)
        ELSE IF call.name \in ArrayMembers \cup AddressValues THEN <<>>
        ELSE IF call.name \in DOMAIN LowLevel THEN Missing(fn, call, "low-level", LowLevel[call.name])
        ELSE Missing(fn, call, "unattached-member", "external")

ResolveCast(fn, call) ==
    LET found == ContractsNamed(fn.file, call.receiver)
    IN  IF call.receiver \in Elementary THEN ResolveOnElementary(fn, call, call.receiver)
        ELSE IF found = <<>> THEN Missing(fn, call, "not-found", "external")
        ELSE ResolveOnContracts(fn, call, found, "external")

\* unitAlias: the file an imported namespace stands for.
Namespace(file, name) ==
    IF name \in DOMAIN table.imported[file] /\ table.imported[file][name].name = "*"
    THEN table.imported[file][name].from ELSE None

ResolveMember(fn, call) ==
    LET space == OfKinds(Export(Namespace(fn.file, call.receiver), call.name), {"function"})
        named == ContractsNamed(fn.file, call.receiver)
        type  == TypeOfVariable(fn, call.receiver)
        typed == ContractsNamed(fn.file, type)
    IN  IF call.receiver \in BuiltinReceivers THEN <<>>
        ELSE IF space # <<>> THEN Calls(fn, call, SubkindFor(space[1], "internal"), space, "none", FALSE)
        ELSE IF NamesKind(fn, call.receiver, TypeKinds \ {"contract"}) THEN <<>>
        ELSE IF named # <<>> /\ type = None
             THEN ResolveOnContracts(fn, call, named, IF Sym(named[1]).ckind = "library" THEN "library" ELSE "external")
        ELSE IF type = None THEN Missing(fn, call, "dynamic-receiver", "external")
        ELSE IF type \in Elementary THEN ResolveOnElementary(fn, call, type)
        ELSE IF typed # <<>> THEN ResolveOnContracts(fn, call, typed, "external")
        ELSE IF call.name \in ArrayMembers THEN <<>>
        ELSE ResolveOnElementary(fn, call, type)

\* `receiver` is the identifier the receiver expression ends in, if any.
ResolveOnExpression(fn, call) ==
    IF call.receiver \in BuiltinReceivers \/ call.name \in ArrayMembers THEN <<>>
    ELSE Missing(fn, call, "dynamic-receiver",
                 IF call.name \in DOMAIN LowLevel THEN LowLevel[call.name] ELSE "external")

ResolveCall(fn, call) ==
    CASE call.shape = "new"        -> ResolveNew(fn, call)
      [] call.shape = "bare"       -> ResolveBare(fn, call)
      [] call.shape = "super"      -> ResolveSuper(fn, call)
      [] call.shape = "this"       -> ResolveOnSelf(fn, call)
      [] call.shape = "member"     -> ResolveMember(fn, call)
      [] call.shape = "cast"       -> ResolveCast(fn, call)
      [] call.shape = "expression" -> ResolveOnExpression(fn, call)

ResolveFunction(fn) ==
    ResolveOverrides(fn) \o ResolveModifiers(fn) \o ResolveStateAccess(fn)
    \o ResolveNameRefs(fn, fn.emits, "emits", "event") \o ResolveNameRefs(fn, fn.reverts, "reverts", "error")
    \o FlattenSeq([i \in DOMAIN fn.calls |-> ResolveCall(fn, fn.calls[i])])

\* resolveProject: the drafts, in the order they are emitted.
Resolved ==
    LET of(s) == CASE s.kind = "contract" -> ResolveContract(s)
                   [] s.kind \in {"function", "modifier"} -> ResolveFunction(s)
                   [] OTHER -> <<>>
    IN  Declares \o FlattenSeq([i \in DOMAIN table.order |-> of(Sym(table.order[i]))])
=============================================================================
