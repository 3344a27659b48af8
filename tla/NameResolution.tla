---------------------------- MODULE NameResolution ----------------------------
(***************************************************************************)
(* Declarations, scopes and names: the registration of declarations, the   *)
(* linearisation of base contracts, and the resolution of identifiers.     *)
(* A container maps names to the declarations that are visible and to      *)
(* those that are not (yet).  A scope is the chain of the containers that  *)
(* enclose a node, the innermost last.                                     *)
(***************************************************************************)
EXTENDS SolAst, Linearization

DeclarationContainer == [seen |-> <<>>, unseen |-> <<>>]

declarationName(d) ==
    CASE d \in DOMAIN prog.var -> prog.var[d].name
      [] d \in DOMAIN prog.fn -> prog.fn[d].name
      [] d \in DOMAIN prog.mod -> prog.mod[d].name
      [] OTHER -> d

Under(names, n) == IF n \in DOMAIN names THEN names[n] ELSE <<>>

\* A function may be declared again (the type checker compares the signatures),
\* anything else only if it is the one declaration of its name.
conflictingDeclaration(c, d) ==
    LET same == Under(c.seen, declarationName(d)) \o Under(c.unseen, declarationName(d))
    IN  IF d \in DOMAIN prog.fn THEN \E i \in DOMAIN same : same[i] \notin DOMAIN prog.fn
        ELSE same /= <<>> /\ same /= <<d>>

\* The container and whether the declaration conflicts with another.
registerDeclaration(c, d, invisible) ==
    LET n == declarationName(d)
        add(names) == IF d \in ToSet(Under(names, n)) THEN names
                      ELSE (n :> Append(Under(names, n), d)) @@ names
    IN  IF n = "" THEN [ok |-> TRUE, c |-> c]
        ELSE IF conflictingDeclaration(c, d) THEN [ok |-> FALSE, c |-> c]
        ELSE [ok |-> TRUE, c |-> IF invisible THEN [c EXCEPT !.unseen = add(@)] ELSE [c EXCEPT !.seen = add(@)]]

\* Mutant: a variable of a block is visible from the start of the block.
activateVariable_early(c, n) == [seen |-> c.unseen @@ c.seen, unseen |-> <<>>]

activateVariable(c, n) ==
    IF n \notin DOMAIN c.unseen THEN c
    ELSE [seen |-> (n :> c.unseen[n]) @@ c.seen, unseen |-> [m \in DOMAIN c.unseen \ {n} |-> c.unseen[m]]]

\* Declarations of a name, from the innermost container that has any.
resolveName(chain, n) ==
    LET hits == SelectSeq(Reverse(chain), LAMBDA c : Under(c.seen, n) /= <<>>)
    IN  IF hits = <<>> THEN <<>> ELSE Under(hits[1].seen, n)

RegisterAll(ds, invisible) ==
    FoldLeft(LAMBDA acc, d : LET r == registerDeclaration(acc.c, d, invisible)
                             IN  [ok |-> acc.ok /\ r.ok, c |-> r.c],
             [ok |-> TRUE, c |-> DeclarationContainer], ds)

-----------------------------------------------------------------------------
(***************************************************************************)
(* The bases of a contract.                                                *)
(***************************************************************************)

\* lins are the linearisations of the contracts before c, <<>> where there is
\* none.  The bases that are named later come first.
linearizeBaseContracts(c, lins) ==
    LET bases == Reverse([i \in DOMAIN prog.con[c].bases |-> prog.con[c].bases[i].of])
    IN  IF ToSet(bases) \subseteq DOMAIN lins THEN cThreeMerge(LinearizationInput(c, bases, lins)) ELSE <<>>

\* Contracts are resolved in the order of their definitions; the first failure
\* is fatal.
Linearizations ==
    FoldLeft(LAMBDA lins, c : IF \E b \in DOMAIN lins : lins[b] = <<>> THEN lins
                              ELSE (c :> linearizeBaseContracts(c, lins)) @@ lins,
             <<>>, prog.order)

-----------------------------------------------------------------------------
(***************************************************************************)
(* Contract scopes.                                                        *)
(***************************************************************************)
isVisibleInDerivedContracts(d) == d \notin DOMAIN prog.fn \/ ~ isConstructor(d)

Members(c) ==
    LET con == prog.con[c] IN con.vars \o SelectSeq(con.funs, LAMBDA f : ~ isConstructor(f)) \o con.mods

\* Declarations of a base; a variable or a modifier that is declared again is
\* hidden, anything else is an error.
importInheritedScope(scope, base) ==
    FoldLeft(LAMBDA acc, d :
                LET r    == registerDeclaration(acc.c, d, FALSE)
                    old  == Under(acc.c.seen, declarationName(d))
                    both(ds) == d \in DOMAIN ds /\ old[1] \in DOMAIN ds
                IN  [ok |-> acc.ok /\ (r.ok \/ both(prog.var) \/ both(prog.mod)), c |-> r.c],
             scope, SelectSeq(Members(base), isVisibleInDerivedContracts))

ContractScope(c, lin) == FoldLeft(importInheritedScope, RegisterAll(Members(c), FALSE), Tail(lin))

-----------------------------------------------------------------------------
(***************************************************************************)
(* References.                                                             *)
(***************************************************************************)

\* Local variables that belong to the scope of a block or for statement.
RECURSIVE Declared(_)
Declared(n) ==
    FlattenSeq([i \in DOMAIN n.sub |->
        IF n.sub[i].k \in {"block", "for"} THEN <<>>
        ELSE Declared(n.sub[i]) \o (IF n.sub[i].k = "vardecl" THEN <<n.sub[i].decl>> ELSE <<>>)])

\* chain is the scope; refs maps the paths of identifiers of variables to what
\* they refer to, None if to nothing.
RECURSIVE ReferencesResolver(_, _, _)
ReferencesResolver(s, n, path) ==
    LET opens == n.k \in {"block", "for"}
        own   == RegisterAll(Declared(n), TRUE)
        in    == IF opens THEN [s EXCEPT !.chain = Append(@, own.c), !.ok = @ /\ own.ok] ELSE s
        out   == FoldLeft(LAMBDA x, i : ReferencesResolver(x, n.sub[i], Append(path, i)), in, [i \in DOMAIN n.sub |-> i])
        hits  == resolveName(s.chain, declarationName(n.decl))
    IN  CASE n.k = "id" /\ n.decl \in DOMAIN prog.var ->
                [s EXCEPT !.refs = (path :> IF Len(hits) = 1 THEN hits[1] ELSE None) @@ @, !.ok = @ /\ hits /= <<>>]
          [] n.k = "vardecl" ->
                [out EXCEPT !.chain[Len(out.chain)] = activateVariable(@, declarationName(n.decl))]
          [] opens -> [out EXCEPT !.chain = Front(@)]
          [] OTHER -> out

\* Parameters and results are visible in the whole function or modifier.
ResolveCallable(scope, params, rets, body) ==
    LET own == RegisterAll(params \o rets, FALSE)
        s   == [chain |-> <<scope.c, own.c>>, refs |-> <<>>, ok |-> scope.ok /\ own.ok]
    IN  IF body = None THEN s ELSE ReferencesResolver(s, body, <<>>)

\* The names of the functions and modifiers of contract c.
resolveNamesAndTypes(c, lin) ==
    LET scope == ContractScope(c, lin)
        fns   == [f \in ToSet(prog.con[c].funs) |->
                    ResolveCallable(scope, prog.fn[f].params, prog.fn[f].rets, prog.fn[f].body)]
        mods  == [m \in ToSet(prog.con[c].mods) |->
                    ResolveCallable(scope, prog.mod[m].params, <<>>, prog.mod[m].body)]
        all   == fns @@ mods
    IN  [ok |-> scope.ok /\ \A d \in DOMAIN all : all[d].ok, refs |-> [d \in DOMAIN all |-> all[d].refs]]

-----------------------------------------------------------------------------
(***************************************************************************)
(* What names should mean.                                                 *)
(***************************************************************************)

\* All nodes of a tree with their paths.
RECURSIVE Paths(_, _)
Paths(n, path) == {<<path, n>>} \cup UNION {Paths(n.sub[i], Append(path, i)) : i \in DOMAIN n.sub}

Before(p, q) == \E i \in DOMAIN p \cap DOMAIN q : p[i] < q[i] /\ \A j \in 1 .. i - 1 : p[j] = q[j]

\* The scope that a declaration at path p of tree n belongs to: the longest
\* block or for statement around it.
ScopeAt(n, p) ==
    LET around == {x[1] : x \in {x \in Paths(n, <<>>) : x[2].k \in {"block", "for"} /\ IsStrictPrefix(x[1], p)}}
    IN  CHOOSE q \in around : \A r \in around : Len(r) <= Len(q)

\* An identifier means the innermost declaration of its name whose scope
\* contains it and which ends before it; then a parameter or a result, then a
\* state variable of the most derived contract that has one.
Meant(callable, lin, params, rets, body, path, name) ==
    LET locals == {x \in Paths(body, <<>>) : x[2].k = "vardecl" /\ declarationName(x[2].decl) = name
                                             /\ IsPrefix(ScopeAt(body, x[1]), path) /\ Before(x[1], path)}
        inner  == CHOOSE x \in locals : \A y \in locals : Len(ScopeAt(body, y[1])) <= Len(ScopeAt(body, x[1]))
        named(ds) == SelectSeq(ds, LAMBDA d : declarationName(d) = name)
        states == FlattenSeq([i \in DOMAIN lin |-> named(prog.con[lin[i]].vars)])
    IN  IF locals /= {} THEN inner[2].decl
        ELSE IF named(params \o rets) /= <<>> THEN named(params \o rets)[1]
        ELSE IF states /= <<>> THEN states[1] ELSE None

\* The same for all identifiers of the functions of contract c.
MeantBy(c, lin) ==
    [f \in ToSet(prog.con[c].funs) |->
        LET fn  == prog.fn[f]
            ids == {x \in (IF fn.body = None THEN {} ELSE Paths(fn.body, <<>>)) : x[2].k = "id" /\ x[2].decl \in DOMAIN prog.var}
        IN  [p \in {x[1] : x \in ids} |->
                LET id == CHOOSE x \in ids : x[1] = p
                IN  Meant(f, lin, fn.params, fn.rets, fn.body, p, declarationName(id[2].decl))]]
=============================================================================
