-------------------------------- MODULE SolAst --------------------------------
(***************************************************************************)
(* Queries on the bundle prog that is being compiled: prog.con, prog.fn,   *)
(* prog.mod and prog.var map the identities of declarations to their data. *)
(***************************************************************************)
EXTENDS SolSyntax

CONSTANT prog

isInterface(c) == prog.con[c].kind = "interface"

isLibrary(c) == prog.con[c].kind = "library"

\* loc is state, constant (a state variable), param, ret, local, storage (a local
\* reference to storage) or field.
isStateVariable(d) == prog.var[d].loc \in {"state", "constant"}

isReturnParameter(d) == prog.var[d].loc = "ret"

isConstructor(f) == prog.fn[f].kind = "constructor"

isFallback(f) == prog.fn[f].kind = "fallback"

\* functionType(false) is null for private and internal functions and for
\* constructors.
inInterface(f) == prog.fn[f].public /\ ~ isConstructor(f)

\* ContractDefinition::constructor, None if it is implicit.
constructor(c) ==
    LET cs == SelectSeq(prog.con[c].funs, isConstructor)
    IN  IF cs = <<>> THEN None ELSE cs[1]

\* Category of the type of an expression that names or makes a value.
category(e) ==
    CASE e.k \in {"id", "member"} ->
            IF e.decl \in DOMAIN prog.var THEN prog.var[e.decl].cat ELSE "other"
      [] e.k = "lit" -> e.cat
      [] e.k = "cast" -> e.to
      [] e.k = "call" -> IF e.of /= None THEN "contract" ELSE "other"
      [] OTHER -> "other"

Sigs(f) == [i \in DOMAIN prog.fn[f].params |-> prog.var[prog.fn[f].params[i]].cat]

\* Two functions collide if their names and their parameter types are equal.
collid(f, g) == prog.fn[f].name = prog.fn[g].name /\ Sigs(f) = Sigs(g)
=============================================================================
