---------------------------- MODULE AddressDomain ----------------------------
(***************************************************************************)
(* The finite address domain of a generated model (class PTGBuilder).      *)
(*                                                                         *)
(* Solidity addresses are replaced by 0 .. count-1: the zero address, the  *)
(* contracts of the bundle, room for the other address literals and the    *)
(* auxiliary users ("implicit" addresses), then one representative per     *)
(* role and per client, then, when invariants are checked, one more client *)
(* that stands for everybody else.                                         *)
(***************************************************************************)
EXTENDS Integers

CONSTANTS
    ContractCt,   \* contract instances in the bundle (TightBundleModel::size)
    NumLit,       \* address literals of the program other than 0
    AuxCt,        \* --aux-users
    RoleDefCt,    \* role variables (private ones if some function depends on
                  \* them), counted once per contract definition
    MethodArgs,   \* largest number of address arguments of a public method
    Concrete,     \* --concrete
    Rule          \* --invar-rule

ASSUME DomainAssumption ==
    /\ ContractCt \in Nat \ {0}
    /\ NumLit \in Nat
    /\ AuxCt \in Nat
    /\ RoleDefCt \in Nat
    /\ MethodArgs \in Nat
    /\ Concrete \in BOOLEAN
    /\ Rule \in {"none", "unchecked", "checked"}

\* An extra client is requested exactly when invariants are asserted.
inf_ct == IF Rule = "checked" THEN 1 ELSE 0

\* The sender of a transaction is a client as well as its address arguments.
client_ct == 1 + MethodArgs

\* The literal 0 is always present, so there are NumLit + 1 literals.
implicit_count == ContractCt + (NumLit + 1) + AuxCt

\* Mutant: the roles are forgotten.
interference_count_noroles == IF Concrete THEN 0 ELSE client_ct

interference_count == IF Concrete THEN 0 ELSE RoleDefCt + client_ct

max_sender == implicit_count + interference_count

count == max_sender + inf_ct

\* Beyond 255 addresses the ranges below are truncated (see NdRange).
ASSUME ByteAssumption == max_sender < 256

-----------------------------------------------------------------------------
(***************************************************************************)
(* Regions of the domain.                                                  *)
(***************************************************************************)
Addr == 0 .. (count - 1)

Contracts == 1 .. ContractCt

Implicit == 0 .. (implicit_count - 1)

Representatives == implicit_count .. (max_sender - 1)

\* NondetSourceRegistry::range takes uint8_t bounds, and the value nd_range
\* returns is any of [l, u) once the bounds have been truncated to a byte.
NdRange(l, u) == (l % 256) .. ((u % 256) - 1)

\* update_local skips the zero address and the contracts.
Senders == NdRange(ContractCt + 1, max_sender)

\* Mutant: arguments are drawn from all addresses.
RawAddress_count == NdRange(0, count)

\* raw_val for an address: anybody who may take part in a transaction.
RawAddress == NdRange(0, max_sender)
=============================================================================
