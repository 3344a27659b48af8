------------------------------- MODULE SolSyntax -------------------------------
(***************************************************************************)
(* The annotated syntax tree of the Solidity compiler, as far as the       *)
(* analyses of SmartACE look at it.  A node is a record with its kind, its *)
(* children in the order in which accept() visits them, and the            *)
(* annotations that the analyses read.                                     *)
(***************************************************************************)
EXTENDS Integers, Sequences, FiniteSets, SequencesExt, TLC

CONSTANT None     \* a null pointer to a declaration, a node or a contract

-----------------------------------------------------------------------------
(***************************************************************************)
(* Declarations.                                                           *)
(***************************************************************************)

\* lin is annotation().linearizedBaseContracts, the contract itself first.
\* structs are the structure types it declares, in order.
ContractDefinition(kind, lin, bases, funs, vars, mods, structs) ==
    [kind |-> kind, lin |-> lin, bases |-> bases, funs |-> funs,
     vars |-> vars, mods |-> mods, structs |-> structs]

\* args is None if the base is named without an argument list.
InheritanceSpecifier(base, args) == [of |-> base, args |-> args]

FunctionDefinition(name, kind, public, payable, scope, params, rets, mods, body) ==
    [name |-> name, kind |-> kind, public |-> public, payable |-> payable, scope |-> scope,
     params |-> params, rets |-> rets, mods |-> mods, body |-> body]

\* cat is the category of the type; of is the contract of a contract type, the
\* fields of a structure, or the key and value types of a mapping.  value is
\* the initial value, a sequence of at most one expression.
VariableDeclaration(name, cat, of, loc, public, value) ==
    [name |-> name, cat |-> cat, of |-> of, loc |-> loc, public |-> public, value |-> value]

ModifierDefinition(name, params, body) == [name |-> name, params |-> params, body |-> body]

ModifierInvocation(name, args) == [of |-> name, args |-> args]

-----------------------------------------------------------------------------
(***************************************************************************)
(* Statements and expressions.                                             *)
(***************************************************************************)
Block(ss) == [k |-> "block", sub |-> ss]

\* The false branch is a sequence of at most one statement.
IfStatement(c, t, f) == [k |-> "if", sub |-> <<c, t>> \o f]

WhileStatement(c, b, do) == [k |-> "while", do |-> do, sub |-> <<c, b>>]

\* All parts but the body are optional: sequences of at most one element.
ForStatement(i, c, l, b) ==
    [k |-> "for", parts |-> <<Len(i), Len(c), Len(l)>>, sub |-> i \o c \o l \o <<b>>]

Continue == [k |-> "continue", sub |-> <<>>]

Break == [k |-> "break", sub |-> <<>>]

PlaceholderStatement == [k |-> "placeholder", sub |-> <<>>]

EmitStatement(es) == [k |-> "emit", sub |-> es]

Return(es) == [k |-> "return", sub |-> es]

\* The initial value is a sequence of at most one expression.
VariableDeclarationStatement(d, es) == [k |-> "vardecl", decl |-> d, sub |-> es]

Conditional(c, t, f) == [k |-> "cond", sub |-> <<c, t, f>>]

\* op is the operator of a compound assignment, or "=".
Assignment(l, op, r) == [k |-> "assign", op |-> op, sub |-> <<l, r>>]

TupleExpression(es) == [k |-> "tuple", sub |-> es]

UnaryOperation(op, e, prefix) == [k |-> "unary", op |-> op, prefix |-> prefix, sub |-> <<e>>]

BinaryOperation(op, l, r) == [k |-> "binary", op |-> op, sub |-> <<l, r>>]

\* kind is the kind of the function type, fn its declaration, of the contract
\* type of the result.
FunctionCall(kind, fn, of, callee, args) ==
    [k |-> "call", kind |-> kind, fn |-> fn, of |-> of, sub |-> <<callee>> \o args]

\* The constructor of a structure; a structure type is the sequence of its fields.
StructConstructorCall(fields, as) == [k |-> "struct", fields |-> fields, sub |-> as]

\* A call that is a type conversion.
Conversion(to, of, e) == [k |-> "cast", to |-> to, of |-> of, sub |-> <<e>>]

MemberAccess(e, name, d) == [k |-> "member", name |-> name, decl |-> d, sub |-> <<e>>]

IndexAccess(b, i) == [k |-> "index", sub |-> <<b, i>>]

\* The declaration of "this" and "super" is their name.
Identifier(d) == [k |-> "id", decl |-> d, sub |-> <<>>]

Literal(cat, v) == [k |-> "lit", cat |-> cat, val |-> v, sub |-> <<>>]

-----------------------------------------------------------------------------
(***************************************************************************)
(* Traversal.                                                              *)
(***************************************************************************)

\* All nodes of a tree, in the order in which a visitor leaves them (endVisit).
RECURSIVE NodesOf(_)
NodesOf(n) == FlattenSeq([i \in DOMAIN n.sub |-> NodesOf(n.sub[i])]) \o <<n>>

args(call) == Tail(call.sub)

\* ExpressionCleaner: parentheses are tuples of one component.
RECURSIVE clean(_)
clean(e) == IF e.k = "tuple" /\ Len(e.sub) = 1 THEN clean(e.sub[1]) ELSE e

\* expr_to_decl; the code throws for any other expression.
expr_to_decl(e) ==
    LET c == clean(e) IN IF c.k \in {"member", "id"} THEN c.decl ELSE None

=============================================================================
