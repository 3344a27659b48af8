------------------------------ MODULE Converter ------------------------------
(***************************************************************************)
(* The translation of Solidity to C: expressions (ExpressionConverter),    *)
(* bodies of functions and modifiers (the block converters), functions and *)
(* initializers (FunctionConverter), and the names, types and call states  *)
(* that they use.                                                          *)
(*                                                                         *)
(* The parameter st is the AnalysisStack: env of module CallGraphs, the    *)
(* call graph (graph), the numbers of strings (strings), and whether       *)
(* failed requirements are escalated (escalate).                           *)
(***************************************************************************)
EXTENDS CallGraphs, CCode

-----------------------------------------------------------------------------
(***************************************************************************)
(* Types.  A type is its category.  Enumerations are bytes, and strings    *)
(* are numbers of the widest type.                                         *)
(***************************************************************************)
unwrap(cat) == CASE cat = "enum" -> "byte" [] OTHER -> cat

is_wrapped_type(cat) == unwrap(cat) \in {"uint", "byte", "bool", "address", "bytes4", "string"}

is_simple_type(cat) == unwrap(cat) \in {"uint", "byte", "bool", "address", "bytes4", "string"}

\* The name of the wrapper; bytes4 is an unsigned integer of 32 bits.
get_simple_ctype(cat) ==
    CASE unwrap(cat) = "string" -> "uint"
      [] unwrap(cat) = "bytes4" -> "uint32"
      [] OTHER -> unwrap(cat)

\* A reference to storage is a pointer.
decl_is_ref(d) == prog.var[d].loc = "storage"

\* TypeAnalyzer::is_pointer, for an identifier.
id_is_pointer(e) ==
    e.decl \in {"this", "super"} \/ (e.decl \in DOMAIN prog.var /\ decl_is_ref(e.decl))

\* InitFunction::wrap.
wrap(cat, e) ==
    IF is_wrapped_type(cat) THEN CFuncCall(<<"Init", get_simple_ctype(cat)>>, <<e>>, FALSE) ELSE e

\* TypeAnalyzer::get_init_val.  A structure is named by its fields.
get_init_val(d) ==
    IF is_simple_type(prog.var[d].cat) THEN wrap(prog.var[d].cat, CIntLiteral(0))
    ELSE CFuncCall(IF prog.var[d].cat = "mapping" THEN <<"ZeroInitMap", d>> ELSE <<"ZeroInit", prog.var[d].of>>,
                   <<>>, FALSE)

-----------------------------------------------------------------------------
(***************************************************************************)
(* Names.  VariableScopeResolver is a record with the kind of code, the    *)
(* stack of scopes, and the function and the contract it is generated for. *)
(***************************************************************************)
rewrite(sym, gen, ctx) ==
    (IF ctx = "FUNCTION" THEN <<"func">> ELSE <<>>) \o <<IF gen THEN "model" ELSE "user", sym>>

Resolver(type, scopes, fn, user) == [type |-> type, scopes |-> scopes, fn |-> fn, user |-> user]

resolve_sym(dc, sym) ==
    CASE dc.type = "INITBLOCK" -> rewrite(sym, FALSE, "STRUCT")
      [] sym = "" -> <<"">>
      [] sym = "now" -> <<"timestamp">>
      [] sym = "this" -> <<"self">>
      [] \E i \in DOMAIN dc.scopes : sym \in dc.scopes[i] ->
            rewrite(sym, dc.type = "SHADOWBLOCK", "FUNCTION")
      [] OTHER -> <<"self->">> \o rewrite(sym, FALSE, "STRUCT")

NameOf(d) == IF d \in DOMAIN prog.var THEN prog.var[d].name ELSE d

\* FunctionSpecialization::name.  Parameter types are no part of the name.
SpecName(f, user, depth) ==
    <<prog.fn[f].scope, prog.fn[f].kind, depth, user, prog.fn[f].name>>

address_member == rewrite("address", TRUE, "STRUCT")

balance_member == rewrite("balance", TRUE, "STRUCT")

Self == CIdentifier(<<"self">>, TRUE)

-----------------------------------------------------------------------------
(***************************************************************************)
(* CallState: the parameters that describe a transaction.                  *)
(***************************************************************************)
order(st) == <<"sender", "value", "blocknum", "timestamp", "paid", "origin">>
                \o (IF st.escalate THEN <<"reqfail">> ELSE <<>>)

FieldType(f) ==
    CASE f \in {"sender", "origin"} -> "address"
      [] f \in {"paid", "reqfail"} -> "bool"
      [] OTHER -> "uint"

is_contract_only(f) == f /= "reqfail"

\* The arguments of a call for these parameters; value is a sequence of at most
\* one expression.  Calls of the scheduler also give a sender (see RunModel).
compute_next_state_for(st, external, contract, value) ==
    LET next(f) ==
            CASE external /\ f = "sender" -> CMemberAccess(Self, address_member)
              [] external /\ f = "value" ->
                    IF value = <<>> THEN wrap("uint", CIntLiteral(0))
                    ELSE CFuncCall(<<"pay">>, <<CReference(CMemberAccess(Self, balance_member)),
                                                value[1]>>, FALSE)
              [] f = "paid" -> wrap("bool", CIntLiteral(Truth(external)))
              [] OTHER -> CIdentifier(<<f>>, FALSE)
        fields == SelectSeq(order(st), LAMBDA f : contract \/ ~ is_contract_only(f))
    IN  [i \in DOMAIN fields |-> next(fields[i])]

-----------------------------------------------------------------------------
(***************************************************************************)
(* ExpressionConverter.  x has the stack (st), the names (dc), whether a   *)
(* reference is wanted (ref), whether a contract is constructed here       *)
(* (init), the variable it is for (last), whether a literal is converted   *)
(* to an address (addr), and the places of further return values (aux).    *)
(***************************************************************************)
Context(st, dc, ref, init) ==
    [st |-> st, dc |-> dc, ref |-> ref, init |-> init, last |-> None, addr |-> FALSE, aux |-> <<>>]

\* LValueSniffer: the leaf that names the target, if it is of kind k.
RECURSIVE LValueSniffer(_, _)
LValueSniffer(e, k) ==
    CASE e.k = "cond" ->
            IF LValueSniffer(e.sub[2], k) = <<>> THEN LValueSniffer(e.sub[3], k)
            ELSE LValueSniffer(e.sub[2], k)
      [] e.k = "assign" -> LValueSniffer(e.sub[1], k)
      [] e.k \in {"tuple", "unary", "binary"} /\ e.sub /= <<>> -> LValueSniffer(Last(e.sub), k)
      [] OTHER -> IF e.k = k THEN <<e>> ELSE <<>>

\* FlatIndex: the base of a nest of index accesses, and its keys.
RECURSIVE FlatIndex(_)
FlatIndex(e) ==
    LET base == clean(e.sub[1])
    IN  IF base.k = "index"
        THEN [FlatIndex(base) EXCEPT !.indices = Append(@, e.sub[2])]
        ELSE [base |-> e.sub[1], decl |-> expr_to_decl(base), indices |-> <<e.sub[2]>>]

get_initializer_context(x) ==
    IF x.last = None THEN CIdentifier(<<"dest">>, TRUE)
    ELSE CReference(CIdentifier(resolve_sym(x.dc, NameOf(x.last)), FALSE))

Unwrapped(cat, e) == IF is_wrapped_type(cat) THEN CMemberAccess(e, <<"v">>) ELSE e

RECURSIVE Convert(_, _)

\* CFuncCallBuilder::push: an argument is converted by a converter of its own.
push(x, e, ref, cat) == wrap(cat, Convert(Context(x.st, x.dc, ref, FALSE), e))

push_arglist(x, es, ds) ==
    [i \in DOMAIN es |-> push(x, es[i], decl_is_ref(ds[i]), prog.var[ds[i]].cat)]

\* v is a sequence of at most one value, which is written.
generate_mapping_call(x, op, e, v) ==
    LET idx  == FlatIndex(e)
        map  == prog.var[idx.decl].of
        val  == prog.var[map.value].cat
        keys == [i \in DOMAIN idx.indices |-> push(x, idx.indices[i], FALSE, map.keys[i])]
    IN  IF Len(idx.indices) /= Len(map.keys) THEN Unsupported
        ELSE CFuncCall(<<op, idx.decl, get_simple_ctype(val)>>,
                       <<push(x, idx.base, TRUE, "mapping")>> \o keys \o
                           [i \in DOMAIN v |-> wrap(val, v[i])], FALSE)

generate_binary_op(x, l, op, r) ==
    IF op \in {">>", ">>>", "**"} THEN Unsupported ELSE CBinaryOp(Convert(x, l), op, Convert(x, r))

\* The field of a contract that holds a variable keeps its own name.
print_adt_member(x, e, name) == CMemberAccess(Convert(x, e), rewrite(name, FALSE, "STRUCT"))

pass_next_call_state(x, n, external) ==
    LET v == CallData(n).value
    IN  compute_next_state_for(x.st, external, ~ is_in_library(n),
            IF v = None THEN <<>>
            ELSE <<wrap("uint", Convert(Context(x.st, x.dc, FALSE, x.init), v))>>)

\* print_require, and print_property for assertions and requirements.
print_require(x, c) ==
    LET require == CFuncCall(<<"sol_require">>, <<c>>, FALSE)
        escalated == CFuncCall(<<"sol_assert">>, <<c>>, FALSE)
    IN  IF x.st.escalate
        THEN CCond(CMemberAccess(CIdentifier(<<"reqfail">>, FALSE), <<"v">>), escalated, require)
        ELSE require

print_property(x, fail, e) ==
    LET c == Convert(Context(x.st, x.dc, FALSE, FALSE), e)
    IN  IF fail THEN CFuncCall(<<"sol_assert">>, <<c>>, FALSE) ELSE print_require(x, c)

print_contract_ctor(x, n) ==
    LET ctor == constructor(n.of)
    IN  CFuncCall(<<"InitContract", n.of, n.of>>,
                  <<get_initializer_context(x)>> \o pass_next_call_state(x, n, TRUE) \o
                      (IF ctor = None THEN <<>> ELSE push_arglist(x, args(n), prog.fn[ctor].params)),
                  FALSE)

\* The function that a call means, and the contract it is specialised for.
Specialization(x, n) ==
    LET env  == x.st.env
        user == IF CallData(n).context /= None /\ ~ context_is_this(n)
                THEN resolve(env, CallData(n).context, x.dc.user) ELSE x.dc.user
    IN  CASE is_explicit_super(n) -> <<n.fn, x.dc.user>>
          [] is_super(n) -> <<super_call(env.flat, x.dc.user, prog.fn[x.dc.fn].scope, n.fn), x.dc.user>>
          [] is_in_library(n) -> <<n.fn, prog.fn[n.fn].scope>>
          [] OTHER -> <<try_resolve(env.flat[user], n.fn), user>>

\* A context that is no result of a call is passed by reference.
CallContext(x, ctx) ==
    LET c == Convert(x, ctx)
    IN  IF ctx.k = "call" \/ expr_to_decl(ctx) \notin DOMAIN prog.var THEN c ELSE CReference(c)

print_method(x, n) ==
    LET spec   == Specialization(x, n)
        f      == spec[1]
        ctx    == CallData(n).context
        extern == ~ is_super(n) /\ ctx /= None
        lib    == isLibrary(prog.fn[f].scope)
        rets   == prog.fn[f].rets
        params == prog.fn[f].params
        bound  == IF lib /\ ctx /= None THEN <<ctx>> ELSE <<>>
        self   == IF lib THEN <<>> ELSE IF extern THEN <<CallContext(x, ctx)>> ELSE <<Self>>
        call   == CFuncCall(SpecName(f, spec[2], 0),
                      self \o pass_next_call_state(x, n, extern)
                          \o push_arglist(x, bound, params)
                          \o (IF x.init THEN <<get_initializer_context(x)>> ELSE <<>>)
                          \o (IF Len(rets) > 1 THEN x.aux ELSE <<>>)
                          \o push_arglist(x, args(n), SubSeq(params, Len(bound) + 1, Len(params))),
                      rets /= <<>> /\ prog.var[rets[1]].cat = "contract")
    IN  IF is_getter(n) THEN CMemberAccess(print_adt_member(x, ctx, prog.var[n.fn].name), <<"v">>)
        ELSE IF rets = <<>> THEN call ELSE Unwrapped(prog.var[rets[1]].cat, call)

\* send and transfer; see module EtherFlow for what they do.
print_payment(x, n, op) ==
    CFuncCall(<<op>>, compute_next_state_for(x.st, FALSE, TRUE, <<>>)
                \o <<CMemberAccess(Self, address_member),
                     CReference(CMemberAccess(Self, balance_member)),
                     wrap("address", Convert(x, CallData(n).context)),
                     push(x, args(n)[1], FALSE, "uint")>>, FALSE)

print_call(x, n) ==
    LET v == CallData(n).value
    IN  CFuncCall(<<"sol_call">>,
            <<CReference(CMemberAccess(Self, balance_member)),
              wrap("address", Convert(x, CallData(n).context)),
              IF v = None THEN wrap("uint", CIntLiteral(0)) ELSE push(x, v, FALSE, "uint")>>, FALSE)

print_struct_ctor(x, n) ==
    CFuncCall(<<"InitStruct", n.fields>>, push_arglist(x, n.sub, n.fields), FALSE)

print_function(x, n) ==
    CASE CallData(n).low -> print_call(x, n)
      [] classify(n) = "Method" \/ (classify(n) = "Delegate" /\ is_in_library(n)) -> print_method(x, n)
      [] classify(n) = "Constructor" -> print_contract_ctor(x, n)
      [] classify(n) = "Send" -> print_payment(x, n, "sol_send")
      [] classify(n) = "Transfer" -> print_payment(x, n, "sol_transfer")
      [] classify(n) = "Crypto" -> CFuncCall(<<"sol_crypto">>, <<>>, FALSE)
      [] classify(n) = "Revert" -> print_require(x, CIntLiteral(0))
      [] classify(n) \in {"Assert", "Require"} -> print_property(x, classify(n) = "Assert", args(n)[1])
      [] OTHER -> Unsupported

\* Conversions.  Every integer type of the model is unsigned.
print_cast(x, n) ==
    LET e     == n.sub[1]
        from  == category(e)
        c     == Convert([x EXCEPT !.addr = (n.to = "address")], e)
        ints  == {"uint", "byte", "int", "other"}
        field == CMemberAccess(CMemberAccess(c, address_member), <<"v">>)
    IN  CASE from = "address" -> IF n.to = "address" THEN c ELSE Unsupported
          [] from \in ints -> IF n.to \in ints \cup {"address", "enum"} THEN c ELSE Unsupported
          [] from = "bool" -> IF n.to = "bool" THEN c ELSE Unsupported
          [] from = "contract" -> IF n.to = "address" THEN field ELSE Unsupported
          [] from = "enum" -> IF n.to \in ints \cup {"enum"} THEN c ELSE Unsupported
          [] OTHER -> Unsupported

\* visit(MemberAccess).  A reference is wanted for the whole, not for its base.
ConvertMember(x, e) ==
    LET base == e.sub[1]
        y    == [x EXCEPT !.ref = FALSE]
        from == IF base = Identifier("this") THEN "contract" ELSE category(base)
        cast == clean(base)
        c    == CASE from = "address" ->
                        IF e.name = "balance" /\ cast.k = "cast" /\ category(cast.sub[1]) = "contract"
                        THEN CMemberAccess(Convert(y, cast.sub[1]), balance_member)
                        ELSE Unsupported
                  [] from \in {"contract", "struct"} -> print_adt_member(y, base, e.name)
                  [] from = "magic" -> CIdentifier(<<e.name>>, FALSE)
                  [] from = "enumtype" -> CIntLiteral(e.decl)
                  [] OTHER -> Unsupported
        cat  == IF e.decl \in DOMAIN prog.var THEN prog.var[e.decl].cat
                ELSE IF e.name = "sender" THEN "address" ELSE "uint"
    IN  IF x.ref THEN CReference(c)
        ELSE IF from = "enumtype" THEN c ELSE Unwrapped(cat, c)

\* visit(Identifier).  Return values after the first one are pointers.
ConvertId(x, e) ==
    LET d     == e.decl
        ptr   == id_is_pointer(e)
        plain == CIdentifier(resolve_sym(x.dc, NameOf(d)), ptr)
        extra == d \in DOMAIN prog.var /\ isReturnParameter(d) /\ prog.fn[x.dc.fn].rets[1] /= d
        c     == IF extra THEN CDereference(plain) ELSE plain
    IN  IF d \in DOMAIN prog.var /\ prog.var[d].loc = "constant" THEN Convert(x, prog.var[d].value[1])
        ELSE IF x.ref /\ ~ ptr THEN CReference(c)
        ELSE IF d = "now" THEN CMemberAccess(c, <<"v">>)
        ELSE IF d \in DOMAIN prog.var THEN Unwrapped(prog.var[d].cat, c) ELSE c

\* visit(Assignment).  A contract is initialised in place: only the right side
\* is translated, and told which variable it is for.
ConvertAssignment(x, e) ==
    LET id   == LValueSniffer(e.sub[1], "id")
        map  == LValueSniffer(e.sub[1], "index")
        y    == [x EXCEPT !.ref = (id /= <<>> /\ id_is_pointer(id[1]))]
        rhs  == IF e.op = "=" THEN Convert(y, e.sub[2])
                ELSE generate_binary_op(y, e.sub[1], e.op, e.sub[2])
    IN  IF id /= <<>> /\ category(id[1]) = "contract"
        THEN Convert([x EXCEPT !.last = id[1].decl], e.sub[2])
        ELSE IF map /= <<>> THEN generate_mapping_call(x, "Write", map[1], <<rhs>>)
        ELSE CAssign(Convert(x, e.sub[1]), rhs)

Convert(x, e) ==
    CASE e.k = "cond" -> CCond(Convert(x, e.sub[1]), Convert(x, e.sub[2]), Convert(x, e.sub[3]))
      [] e.k = "assign" -> ConvertAssignment(x, e)
      [] e.k = "tuple" -> IF Len(e.sub) = 1 THEN Convert(x, e.sub[1]) ELSE Unsupported
      [] e.k = "unary" ->
            IF e.op = "delete" THEN Unsupported ELSE CUnaryOp(e.op, Convert(x, e.sub[1]), e.prefix)
      [] e.k = "binary" -> generate_binary_op(x, e.sub[1], e.op, e.sub[2])
      [] e.k = "call" -> print_function(x, e)
      [] e.k = "struct" -> print_struct_ctor(x, e)
      [] e.k = "cast" -> print_cast(x, e)
      [] e.k = "member" -> ConvertMember(x, e)
      [] e.k = "index" ->
            IF x.ref THEN Unsupported
            ELSE Unwrapped(prog.var[prog.var[FlatIndex(e).decl].of.value].cat,
                           generate_mapping_call(x, "Read", e, <<>>))
      [] e.k = "id" -> ConvertId(x, e)
      [] e.k = "lit" ->
            IF e.cat = "string" THEN CIntLiteral(x.st.strings[e.val])
            ELSE IF x.addr THEN CIdentifier(<<"literal", e.val>>, FALSE)
            ELSE CIntLiteral(e.val)
      [] OTHER -> Unsupported
=============================================================================
