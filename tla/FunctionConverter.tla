-------------------------- MODULE FunctionConverter --------------------------
(***************************************************************************)
(* The translation of statements, of the bodies of functions and           *)
(* modifiers, and of the functions and initializers of a model; and what   *)
(* the generated C code declares: the wrappers of primitive types          *)
(* (PrimitiveTypeGenerator), the structures of contracts, of Solidity      *)
(* structures and of mappings (StructureContainer, MapDeflate,             *)
(* TypeAnalyzer, ADTConverter), and the sources of nondeterminism          *)
(* (NondetSourceRegistry).                                                 *)
(***************************************************************************)
EXTENDS Converter

-----------------------------------------------------------------------------
(***************************************************************************)
(* GeneralBlockConverter.  b has the stack, the names, the type of the     *)
(* block, and what differs between functions and modifiers: kind, the      *)
(* return values (rvs), and for modifiers the parameters of the function   *)
(* (params) and the name of what the placeholder calls (next).             *)
(***************************************************************************)
determine_block_type(st, rvs) ==
    IF rvs = <<>> THEN "Action"
    ELSE IF \E e \in st.env.truetypes : e[1] = rvs[1] THEN "Initializer"
    ELSE "Operation"

has_retval(b) == b.type = "Operation"

expand(b, e, ref) == Convert(Context(b.st, b.dc, ref, b.type = "Initializer"), e)

\* The value of a call is added to the balance, once per external call.
add_value_handler ==
    LET field(f) == CMemberAccess(CIdentifier(<<f>>, FALSE), <<"v">>)
        bal      == CMemberAccess(CMemberAccess(Self, balance_member), <<"v">>)
    IN  CIf(CBinaryOp(field("paid"), "==", CIntLiteral(1)),
            CExprStmt(CAssign(bal, CBinaryOp(bal, "+", field("value")))), <<>>)

record_declaration(dc, d) ==
    IF prog.var[d].name = "" THEN dc
    ELSE [dc EXCEPT !.scopes = Append(Front(@), Last(@) \cup {prog.var[d].name})]

enter(dc) == [dc EXCEPT !.scopes = Append(@, {})]

DeclName(dc, d) == resolve_sym(dc, prog.var[d].name)

\* Names for return values and parameters that have none: their positions.
RvName(i, d) == IF prog.var[d].name = "" THEN ToString(i - 1) ELSE prog.var[d].name

ArgName(i, d) == IF prog.var[d].name = "" THEN "var" \o ToString(i - 1) ELSE prog.var[d].name

\* The return value of a modifier.
ModifierRv == rewrite("rv", TRUE, "FUNCTION")

\* A temporary variable of a tuple assignment.
BlockVar(i) == CIdentifier(<<"blockvar", i>>, FALSE)

\* Mutant: a component is assigned before the others are evaluated.
TupleAssignment_direct(b, lhs, rhs) ==
    CBlock([i \in DOMAIN lhs.sub |->
        CExprStmt(CAssign(expand(b, lhs.sub[i], FALSE), expand(b, rhs.sub[i], FALSE)))])

\* expand_tuple_assign_into_stmt: all values are computed before the first is
\* assigned.
TupleAssignment(b, lhs, rhs) ==
    LET rets  == prog.fn[method_decl(rhs)].rets
        cats  == IF rhs.k = "call" THEN [i \in DOMAIN rets |-> prog.var[rets[i]].cat]
                 ELSE [i \in DOMAIN lhs.sub |-> category(lhs.sub[i])]
        decls == [i \in DOMAIN cats |-> CVarDecl(get_simple_ctype(cats[i]), <<"blockvar", i>>, FALSE, <<>>)]
        x     == [Context(b.st, b.dc, FALSE, FALSE) EXCEPT
                     !.aux = [i \in 1 .. Len(cats) - 1 |-> CReference(BlockVar(i + 1))]]
        set(i, c) == CExprStmt(CAssign(CMemberAccess(BlockVar(i), <<"v">>), c))
        vals  == IF rhs.k = "call" THEN <<set(1, Convert(x, rhs))>>
                 ELSE [i \in DOMAIN rhs.sub |-> set(i, expand(b, rhs.sub[i], FALSE))]
    IN  IF rhs.k \notin {"call", "tuple"} THEN CExprStmt(Unsupported)
        ELSE CBlock(decls \o vals \o
                 [i \in DOMAIN lhs.sub |->
                    CExprStmt(CAssign(expand(b, lhs.sub[i], FALSE), CMemberAccess(BlockVar(i), <<"v">>)))])

expand_expr_into_stmt(b, e) ==
    IF e.k = "assign" /\ clean(e.sub[1]).k = "tuple"
    THEN TupleAssignment(b, clean(e.sub[1]), clean(e.sub[2]))
    ELSE CExprStmt(expand(b, e, FALSE))

\* FunctionBlockConverter::visit(Return).  The values of a tuple are assigned
\* from the last to the second; then the first is returned.
FunctionReturn(b, es) ==
    LET vals   == IF Len(b.rvs) = 1 THEN es ELSE clean(es[1]).sub
        val(i) == LET c == wrap(prog.var[b.rvs[i]].cat, expand(b, vals[i], FALSE))
                  IN  IF prog.var[b.rvs[i]].cat = "contract" THEN CReference(c) ELSE c
        others == [i \in 1 .. Len(vals) - 1 |->
                      LET j == Len(vals) + 1 - i
                      IN  CExprStmt(CAssign(CDereference(CIdentifier(rewrite(RvName(j, b.rvs[j]), FALSE, "FUNCTION"), FALSE)), val(j)))]
    IN  CASE b.type = "Action" -> CReturn(<<>>)
          [] b.type = "Operation" -> CBlock(Append(others, CReturn(<<val(1)>>)))
          [] b.type = "Initializer" -> CExprStmt(expand(b, es[1], FALSE))

\* ModifierBlockConverter::endVisit(PlaceholderStatement).
Placeholder(b) ==
    LET shadow(d) == CIdentifier(DeclName(b.shadow, d), FALSE)
        more == IF b.rvs = <<>> THEN <<>> ELSE Tail(b.rvs)
        call == CFuncCall(b.next,
                    <<Self>> \o compute_next_state_for(b.st, FALSE, TRUE, <<>>)
                        \o [i \in DOMAIN more |-> shadow(more[i])]
                        \o [i \in DOMAIN b.params |->
                               CIdentifier(rewrite(ArgName(i, b.params[i]), TRUE, "FUNCTION"), FALSE)]
                        \o (IF b.type = "Initializer" THEN <<CIdentifier(<<"dest">>, TRUE)>> ELSE <<>>),
                    FALSE)
    IN  IF has_retval(b) THEN CExprStmt(CAssign(CIdentifier(ModifierRv, FALSE), call))
        ELSE CExprStmt(call)

\* The statement, and the block after the declarations of the statement.
RECURSIVE ConvertStmt(_, _)
ConvertStmts(b, ss) ==
    FoldLeft(LAMBDA acc, s : LET r == ConvertStmt(acc.b, s)
                             IN  [b |-> r.b, cs |-> Append(acc.cs, r.c)],
             [b |-> b, cs |-> <<>>], ss)

\* visit(ForStatement): the condition is in a scope of its own.
ConvertFor(b, s) ==
    LET in    == [b EXCEPT !.dc = enter(@)]
        i     == SubSeq(s.sub, 1, s.parts[1])
        c     == SubSeq(s.sub, s.parts[1] + 1, s.parts[1] + s.parts[2])
        l     == SubSeq(s.sub, s.parts[1] + s.parts[2] + 1, Len(s.sub) - 1)
        init  == ConvertStmts(in, i)
        loop  == ConvertStmts(init.b, l)
    IN  CForLoop(init.cs, [j \in DOMAIN c |-> expand(init.b, c[j], FALSE)], loop.cs,
                 ConvertStmt(loop.b, Last(s.sub)).c)

\* visit(VariableDeclarationStatement).
ConvertDecl(b, s) ==
    LET d   == s.decl
        ref == decl_is_ref(d)
        val == [i \in DOMAIN s.sub |-> wrap(prog.var[d].cat, expand(b, s.sub[i], ref))]
        dc  == record_declaration(b.dc, d)
    IN  [b |-> [b EXCEPT !.dc = dc],
         c |-> IF prog.var[d].cat = "contract" THEN CExprStmt(Unsupported)
               ELSE CVarDecl(get_simple_ctype(prog.var[d].cat), DeclName(dc, d), ref, val)]

ConvertStmt(b, s) ==
    LET stmt(c) == [b |-> b, c |-> c]
        sub(i)  == ConvertStmt(b, s.sub[i]).c
    IN  CASE s.k = "block" -> stmt(CBlock(ConvertStmts([b EXCEPT !.dc = enter(@)], s.sub).cs))
          [] s.k = "if" -> stmt(CIf(expand(b, s.sub[1], FALSE), sub(2),
                                    IF Len(s.sub) = 3 THEN <<sub(3)>> ELSE <<>>))
          [] s.k = "while" -> stmt(CWhileLoop(sub(2), expand(b, s.sub[1], FALSE), s.do))
          [] s.k = "for" -> stmt(ConvertFor(b, s))
          [] s.k = "emit" ->
                stmt(CBlock(Append([i \in DOMAIN s.sub |-> expand_expr_into_stmt(b, s.sub[i])],
                                   CExprStmt(CFuncCall(<<"sol_emit">>, <<>>, FALSE)))))
          [] s.k = "vardecl" -> ConvertDecl(b, s)
          [] s.k = "continue" -> stmt(CContinue)
          [] s.k = "break" -> stmt(CBreak)
          [] s.k = "return" /\ b.kind = "function" -> stmt(FunctionReturn(b, s.sub))
          [] s.k = "return" -> stmt(CReturn(IF has_retval(b) THEN <<CIdentifier(ModifierRv, FALSE)>> ELSE <<>>))
          [] s.k = "placeholder" -> stmt(Placeholder(b))
          [] s.k \in {"assembly", "throw"} -> stmt(CExprStmt(Unsupported))
          [] OTHER -> stmt(expand_expr_into_stmt(b, clean(s)))

\* visit(Block) for the body: pay tells that it is the entry of a payable
\* function; first and last are what enter and exit add.
TopBlock(b, body, pay, first, last) ==
    CBlock((IF pay THEN <<add_value_handler>> ELSE <<>>) \o first \o ConvertStmts(b, body.sub).cs \o last)

-----------------------------------------------------------------------------
(***************************************************************************)
(* FunctionBlockConverter and ModifierBlockConverter.                      *)
(***************************************************************************)
Scope(ds) == {prog.var[ds[i]].name : i \in DOMAIN ds} \ {""}

\* The first return value is a local variable; the others are parameters, which
\* point to their places.
FunctionBlock(st, f, user) ==
    LET fn    == prog.fn[f]
        named == SelectSeq(fn.rets, LAMBDA d : prog.var[d].name /= "")
        dc    == Resolver("FUNCTION", <<Scope(fn.params), Scope(named)>>, f, user)
        b     == [st |-> st, dc |-> dc, type |-> determine_block_type(st, fn.rets),
                  kind |-> "function", rvs |-> fn.rets]
        name(i) == rewrite(RvName(i, fn.rets[i]), FALSE, "FUNCTION")
        id(i) == CIdentifier(name(i), FALSE)
        init(i) == IF i > 1
                   THEN <<CExprStmt(CAssign(CDereference(id(i)), get_init_val(fn.rets[i])))>>
                   ELSE IF prog.var[fn.rets[1]].name = "" THEN <<>>
                   ELSE <<CVarDecl(prog.var[fn.rets[1]].cat, name(1),
                                   decl_is_ref(fn.rets[1]), <<get_init_val(fn.rets[1])>>)>>
        last  == IF fn.rets /= <<>> /\ prog.var[fn.rets[1]].name /= "" THEN <<CReturn(<<id(1)>>)>> ELSE <<>>
    IN  TopBlock(b, fn.body, fn.mods = <<>> /\ fn.payable,
                 FlattenSeq([i \in DOMAIN fn.rets |-> init(i)]), last)

\* Factory: the modifiers of f, with their invocations.  Calls of base
\* constructors are no modifiers.
Factory(st, f, user) ==
    IF isLibrary(user) THEN <<>>
    ELSE FlattenSeq([i \in DOMAIN prog.fn[f].mods |->
        LET inv == prog.fn[f].mods[i]
            ms  == SelectSeq(st.env.flat[user].modifiers, LAMBDA m : prog.mod[m].name = inv.of)
        IN  [j \in DOMAIN ms |-> [def |-> ms[j], args |-> inv.args]]])

\* Modifier i wraps modifier i + 1, or the function.  Its arguments are
\* evaluated with the names of the function, which are shadowed in its body.
ModifierBlock(st, f, user, i) ==
    LET fn     == prog.fn[f]
        m      == Factory(st, f, user)[i]
        params == prog.mod[m.def].params
        dc     == Resolver("FUNCTION", <<Scope(params), {}>>, f, user)
        shadow == Resolver("SHADOWBLOCK", <<Scope(fn.params) \cup Scope(fn.rets)>>, f, user)
        b      == [st |-> st, dc |-> dc, type |-> determine_block_type(st, fn.rets), kind |-> "modifier",
                   rvs |-> fn.rets, params |-> fn.params, shadow |-> shadow,
                   next |-> SpecName(f, user, i)]
        arg(j) == wrap(prog.var[params[j]].cat,
                       Convert(Context(st, shadow, FALSE, b.type = "Initializer"), m.args[j]))
        decl   == [j \in IF m.args = None THEN {} ELSE DOMAIN m.args |->
                      CVarDecl(prog.var[params[j]].cat, DeclName(dc, params[j]), FALSE, <<arg(j)>>)]
    IN  TopBlock(b, prog.mod[m.def].body, i = 1 /\ fn.payable,
                 (IF has_retval(b) THEN <<CVarDecl(prog.var[fn.rets[1]].cat, ModifierRv, FALSE, <<>>)>> ELSE <<>>)
                     \o decl,
                 IF has_retval(b) THEN <<CReturn(<<CIdentifier(ModifierRv, FALSE)>>)>> ELSE <<>>)

-----------------------------------------------------------------------------
(***************************************************************************)
(* FunctionConverter.  A set of definitions maps names to functions.       *)
(***************************************************************************)
Parameter(name, ptr) == [name |-> name, ptr |-> ptr]

\* scope is the contract, or None for a structure; dest is a sequence of at
\* most one return value that is allocated by the caller.
generate_params(st, rvs, decls, scope, dest, ctx, gen) ==
    LET contract == scope /= None /\ ~ isLibrary(scope)
        fields   == SelectSeq(order(st), LAMBDA f : contract \/ ~ is_contract_only(f))
        more     == IF rvs = <<>> THEN <<>> ELSE Tail(rvs)
    IN  (IF contract THEN <<Parameter(<<"self">>, TRUE)>> ELSE <<>>)
            \o (IF scope = None THEN <<>> ELSE [i \in DOMAIN fields |-> Parameter(<<fields[i]>>, FALSE)])
            \o [i \in DOMAIN more |-> Parameter(rewrite(RvName(i + 1, more[i]), gen, ctx), TRUE)]
            \o [i \in DOMAIN decls |-> Parameter(rewrite(ArgName(i, decls[i]), gen, ctx), decl_is_ref(decls[i]))]
            \o [i \in DOMAIN dest |-> Parameter(<<"dest">>, TRUE)]

Define(name, params, body) == name :> CFuncDef(name, params, body)

\* The function and one function for each of its modifiers.
handle_function(st, f, user) ==
    LET fn   == prog.fn[f]
        n    == Len(Factory(st, f, user))
        dest == IF determine_block_type(st, fn.rets) = "Initializer" THEN <<fn.rets[1]>> ELSE <<>>
        params(gen) == generate_params(st, fn.rets, fn.params, user, dest, "FUNCTION", gen)
    IN  FoldLeft(LAMBDA defs, i : defs @@ Define(SpecName(f, user, i - 1), params(TRUE),
                                                 ModifierBlock(st, f, user, i)),
                 Define(SpecName(f, user, n), params(FALSE), FunctionBlock(st, f, user)),
                 [i \in 1 .. n |-> i])

\* The initial value of a state variable or of a field, as a sequence of at most
\* one statement.
expand_default_init(st, d, self) ==
    LET v   == prog.var[d]
        dc  == Resolver("FUNCTION", <<>>, None, None)
        val == IF v.value = <<>> THEN get_init_val(d)
               ELSE wrap(v.cat, Convert(Context(st, dc, FALSE, FALSE), v.value[1]))
    IN  IF v.cat = "contract" \/ v.loc = "constant" THEN <<>>
        ELSE <<CExprStmt(CAssign(CMemberAccess(self, rewrite(v.name, FALSE, "STRUCT")), val))>>

\* The zero and the member-wise initializer of a structure.
generate_structure(st, fields) ==
    LET tmp   == CIdentifier(<<"tmp">>, FALSE)
        basic == SelectSeq(fields, LAMBDA d : is_simple_type(prog.var[d].cat))
        name(d) == rewrite(prog.var[d].name, FALSE, "STRUCT")
        zero  == FlattenSeq([i \in DOMAIN fields |-> expand_default_init(st, fields[i], tmp)])
        set(d) == CExprStmt(CAssign(CMemberAccess(tmp, name(d)), CIdentifier(name(d), FALSE)))
        decl(v) == CVarDecl("struct", <<"tmp">>, FALSE, v)
        whole == CReturn(<<tmp>>)
    IN  Define(<<"ZeroInit", fields>>, <<>>, CBlock(<<decl(<<>>)>> \o zero \o <<whole>>))
            @@ Define(<<"InitStruct", fields>>, generate_params(st, <<>>, basic, None, <<>>, "STRUCT", FALSE),
                      CBlock(<<decl(<<CFuncCall(<<"ZeroInit", fields>>, <<>>, FALSE)>>)>>
                                 \o [i \in DOMAIN basic |-> set(basic[i])] \o <<whole>>))

\* The order of an initializer: the variables of the contract itself, the
\* bases, and then the constructor.
InitializerBody(own, parents, ctor) == CBlock(own \o parents \o ctor)

\* The initializers for a contract and for its bases, as parts of contract c.
RECURSIVE handle_contract_initializer(_, _, _)
handle_contract_initializer(st, c, tree) ==
    LET ctor    == constructor(tree.raw)
        decls   == IF ctor = None THEN <<>> ELSE prog.fn[ctor].params
        next    == compute_next_state_for(st, FALSE, TRUE, <<>>)
        x       == Context(st, Resolver("INITBLOCK", <<>>, None, c), FALSE, FALSE)
        given(p) == LET ps == IF constructor(p.raw) = None THEN <<>> ELSE prog.fn[constructor(p.raw)].params
                        as == IF p.args = None \/ ps = <<>> THEN <<>> ELSE p.args
                    IN  [i \in DOMAIN as |-> push(x, as[i], FALSE, prog.var[ps[i]].cat)]
        parents == [i \in DOMAIN tree.calls |->
                       CExprStmt(CFuncCall(<<"InitContract", tree.calls[i].raw, c>>,
                                           <<Self>> \o next \o given(tree.calls[i]), FALSE))]
        vars    == prog.con[tree.raw].vars
        balance == CExprStmt(CAssign(CMemberAccess(Self, balance_member), wrap("uint", CIntLiteral(0))))
        own     == (IF tree.raw = c THEN <<balance>> ELSE <<>>)
                       \o FlattenSeq([i \in DOMAIN vars |-> expand_default_init(st, vars[i], Self)])
        call    == IF ctor = None THEN <<>>
                   ELSE <<CExprStmt(CFuncCall(SpecName(ctor, c, 0),
                            <<Self>> \o next \o [i \in DOMAIN decls |->
                                CIdentifier(rewrite(prog.var[decls[i]].name, FALSE, "STRUCT"), FALSE)],
                            FALSE))>>
    IN  FoldLeft(LAMBDA defs, t : defs @@ handle_contract_initializer(st, c, t),
                 Define(<<"InitContract", tree.raw, c>>,
                        generate_params(st, <<>>, decls, c, <<>>, "STRUCT", FALSE),
                        InitializerBody(own, parents, call))
                     @@ (IF ctor = None THEN <<>> ELSE handle_function(st, ctor, c)),
                 tree.calls)

\* Constructors and fallbacks are handled elsewhere.
generate_function(st, f, user) ==
    IF isConstructor(f) \/ isFallback(f) THEN <<>> ELSE handle_function(st, f, user)

\* A method comes with everything that its super calls may reach.
generate_method(st, c, f) ==
    FoldSet(LAMBDA g, defs : defs @@ generate_function(st, g, c), <<>>,
            super_calls(st.env, st.graph, c, f))

\* FunctionConverter::print: the functions of the libraries and the contracts.
PrintFunctions(st) ==
    LET libs  == LibrarySummary(st.graph)
        lib   == UNION {{<<f, l>> : f \in libs[l]} : l \in DOMAIN libs}
        structs == {prog.var[d].of : d \in {d \in DOMAIN prog.var : prog.var[d].cat = "struct"}}
        contract(defs, c) ==
            LET flat == st.env.flat[c]
                ms   == ToSet(flat.interface) \cup internals(st.env, st.graph, c)
            IN  FoldSet(LAMBDA f, acc : acc @@ generate_method(st, c, f),
                        defs @@ handle_contract_initializer(st, c, flat.tree)
                             @@ (IF flat.fallback = None THEN <<>> ELSE handle_function(st, flat.fallback, c)),
                        ms)
    IN  FoldLeft(contract,
                 FoldSet(LAMBDA p, acc : acc @@ generate_function(st, p[1], p[2]), <<>>, lib)
                     @@ FoldSet(LAMBDA s, acc : acc @@ generate_structure(st, s), <<>>, structs),
                 st.env.view)

\* The translator throws if any part of the program has no translation.
Translated(defs) == \A f \in DOMAIN defs : \A n \in ToSet(NodesOf(defs[f].body)) : n.k /= "throw"

-----------------------------------------------------------------------------
(***************************************************************************)
(* The bundle of the model.                                                *)
(***************************************************************************)

\* BundleExtractor: names of libraries and interfaces are missing.
BundleExtractor(names) ==
    LET actor(n) == n \in DOMAIN prog.con /\ ~ isLibrary(n) /\ ~ isInterface(n)
    IN  [contracts |-> SelectSeq(names, actor), missing |-> SelectSeq(names, LAMBDA n : ~ actor(n))]

-----------------------------------------------------------------------------
(***************************************************************************)
(* Structures and mappings.                                                *)
(***************************************************************************)

\* StructureContainer: the structures that a contract and its bases declare,
\* the most basic first.
StructureContainer(c) ==
    LET lin == Reverse(prog.con[c].lin)
    IN  FlattenSeq([i \in DOMAIN lin |-> prog.con[lin[i]].structs])

\* MappingExtractor.
MappingExtractor(ds) == SelectSeq(ds, LAMBDA d : prog.var[d].cat = "mapping")

\* MapDeflate: a mapping is named by the number of mappings before it; the code
\* throws if its values are structures with a mapping.
MapDeflate(ds) ==
    LET maps == MappingExtractor(ds)
        bad(d) == LET v == prog.var[d].of.value
                  IN  prog.var[v].cat = "struct" /\ MappingExtractor(prog.var[v].of) /= <<>>
    IN  [name   |-> [d \in ToSet(maps) |-> <<"Map", CHOOSE i \in DOMAIN maps : maps[i] = d>>],
         throws |-> \E d \in ToSet(maps) : bad(d)]

-----------------------------------------------------------------------------
(***************************************************************************)
(* TypeAnalyzer: the C type of a declaration.                              *)
(***************************************************************************)
get_type(truetypes, d) ==
    LET v == prog.var[d]
    IN  CASE v.cat = "struct" -> <<"Struct", v.of>>
          [] v.cat = "mapping" -> <<"Map", d>>
          [] v.cat = "contract" ->
                <<"Contract", IF specialize(truetypes, d) = None THEN v.of ELSE specialize(truetypes, d)>>
          [] OTHER -> <<"Simple", get_simple_ctype(v.cat)>>

\* The types that must be complete where a structure with these fields is defined.
FieldTypes(truetypes, ds) == {get_type(truetypes, d) : d \in ds}

-----------------------------------------------------------------------------
(***************************************************************************)
(* ADTConverter.  out is the sequence of definitions, each with the types  *)
(* of its fields; built are the types that were handled.                   *)
(***************************************************************************)
Emit(acc, type, fields) == [acc EXCEPT !.out = Append(@, [type |-> type, fields |-> fields])]

Once(acc, type, build(_)) ==
    IF type \in acc.built THEN acc ELSE build([acc EXCEPT !.built = @ \cup {type}])

generate_mapping(tt, acc, d) ==
    Once(acc, <<"Map", d>>, LAMBDA a : Emit(a, <<"Map", d>>, {get_type(tt, prog.var[d].of.value)}))

generate_mappings(tt, acc, ds) ==
    FoldLeft(LAMBDA a, d : generate_mapping(tt, a, d), acc, MappingExtractor(ds))

\* A structure comes after its mappings.
generate_struct(tt, acc, fields) ==
    Once(acc, <<"Struct", fields>>, LAMBDA a :
        Emit(generate_mappings(tt, a, fields), <<"Struct", fields>>, FieldTypes(tt, ToSet(fields))))

\* Mutant: a contract is defined before the contracts it allocates.
generate_contract_early(tt, model, acc, c) ==
    LET vs == SelectSeq(model.flat[c].vars, LAMBDA d : prog.var[d].loc /= "constant")
        in == generate_mappings(tt, FoldLeft(LAMBDA a, s : generate_struct(tt, a, s), acc, StructureContainer(c)), vs)
    IN  FoldLeft(LAMBDA a, call : Emit(a, <<"Contract", call.type>>, {}),
                 Emit(in, <<"Contract", c>>, FieldTypes(tt, ToSet(vs))), model.children[c])

\* A contract comes after the contracts it allocates, its structures and its
\* mappings.  Constants are no fields.
RECURSIVE generate_contract(_, _, _, _)
generate_contract(tt, model, acc, c) ==
    LET vs == SelectSeq(model.flat[c].vars, LAMBDA d : prog.var[d].loc /= "constant")
        kids(a)    == FoldLeft(LAMBDA x, call : generate_contract(tt, model, x, call.type), a, model.children[c])
        structs(a) == FoldLeft(LAMBDA x, s : generate_struct(tt, x, s), kids(a), StructureContainer(c))
    IN  Once(acc, <<"Contract", c>>, LAMBDA a :
            Emit(generate_mappings(tt, structs(a), vs), <<"Contract", c>>, FieldTypes(tt, ToSet(vs))))

\* ADTConverter::print: the structures of the libraries in use come first.
ADTConverter(tt, model, libs) ==
    LET structs == FlattenSeq(SetToSeq({prog.con[l].structs : l \in libs}))
        start   == FoldLeft(LAMBDA a, s : generate_struct(tt, a, s), [out |-> <<>>, built |-> {}], structs)
    IN  FoldLeft(LAMBDA a, c : generate_contract(tt, model, a, c), start, model.view).out

-----------------------------------------------------------------------------
(***************************************************************************)
(* PrimitiveTypeGenerator: the wrappers that are declared.                 *)
(***************************************************************************)

\* Types with a wrapper of their own; arrays of bytes are not recorded.
record_type(cat) == {cat} \cap {"bool", "address", "uint", "byte"}

\* What the visitor records at a node.
record_node(n) ==
    CASE n.k = "cast" -> record_type(n.to)
      [] n.k = "call" /\ n.kind \in {"Assert", "Require"} -> {"bool"}
      [] n.k = "call" /\ n.kind \in {"Send", "Transfer"} -> {"address", "uint"}
      [] OTHER -> {}

\* Mutant: the parameters of calls are not registered.
register_primitives_none(st) == {"address", "uint"}

\* CallState::register_primitives.
register_primitives(st) == {FieldType(order(st)[i]) : i \in DOMAIN order(st)}

\* Everything that is recorded before the declarations are printed.
PrimitiveTypes(st) ==
    LET bodies == {prog.fn[f].body : f \in DOMAIN prog.fn} \cup {prog.mod[m].body : m \in DOMAIN prog.mod}
    IN  {"byte", "uint64"} \cup register_primitives(st)
            \cup UNION {record_type(prog.var[d].cat) : d \in DOMAIN prog.var}
            \cup (IF \E d \in DOMAIN prog.var : prog.var[d].cat = "mapping" THEN {"bool"} ELSE {})
            \cup UNION {UNION {record_node(n) : n \in ToSet(NodesOf(b))} : b \in bodies}

\* The wrappers that the generated functions use.
UsedPrimitives(defs) ==
    UNION {{n.name[2] : n \in {n \in ToSet(NodesOf(defs[f].body)) : n.k = "ccall" /\ n.name[1] = "Init"}} :
              f \in DOMAIN defs}

-----------------------------------------------------------------------------
(***************************************************************************)
(* NondetSourceRegistry: reg is the sequence of the types of the sources.  *)
(* An operation returns the registry and the expression that draws.        *)
(***************************************************************************)

\* The bounds are bytes.  A source is registered also if it is not needed.
range(reg, l, u) ==
    [reg |-> Append(reg, "byte"),
     expr |-> IF (l % 256) + 1 = u % 256 THEN CIntLiteral(l % 256)
              ELSE CFuncCall(<<"GET_ND_RANGE", Len(reg), l % 256, u % 256>>, <<>>, FALSE)]

byte(reg) ==
    [reg |-> Append(reg, "byte"), expr |-> CFuncCall(<<"GET_ND_BYTE", Len(reg)>>, <<>>, FALSE)]

increase(reg, strict) ==
    [reg |-> Append(reg, "uint"), expr |-> CFuncCall(<<"GET_ND_INCREASE", Len(reg), strict>>, <<>>, FALSE)]

\* users is the number of senders, members the size of an enumeration.
raw_val(reg, cat, users, members) ==
    CASE cat = "bool" -> range(reg, 0, 2)
      [] cat = "address" -> range(reg, 0, users)
      [] cat = "enum" -> range(reg, 0, members)
      [] OTHER -> [reg |-> Append(reg, cat), expr |-> CFuncCall(<<"GET_ND_UINT", Len(reg)>>, <<>>, FALSE)]

simple_val(reg, cat, users, members) ==
    LET r == raw_val(reg, cat, users, members) IN [r EXCEPT !.expr = wrap(cat, @)]
=============================================================================
