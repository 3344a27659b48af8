----------------------------- MODULE Instructions -----------------------------
(***************************************************************************)
(* The instructions of the EVM as libevmasm knows them: the table of       *)
(* Instruction.cpp, the classification of SemanticInformation.cpp, and the *)
(* arithmetic of machine words.                                            *)
(*                                                                         *)
(* A word has WordBytes bytes of ByteBits bits each (32 and 8 in the code) *)
(* and an address AddressBits bits (160).  The constants of the code that  *)
(* are sizes (256, 255, 31, 0xff, 2^160 - 1) are written in terms of them. *)
(***************************************************************************)
EXTENDS Integers, Sequences, Bitwise

CONSTANTS ByteBits, WordBytes, AddressBits

ASSUME WordAssumption ==
    /\ ByteBits \in Nat \ {0}
    /\ WordBytes \in Nat \ {0}
    /\ AddressBits \in 1 .. ByteBits * WordBytes

WordBits == ByteBits * WordBytes

Modulus == 2 ^ WordBits

Word == 0 .. (Modulus - 1)

MaxWord == Modulus - 1

ByteMask == 2 ^ ByteBits - 1

AddressMask == 2 ^ AddressBits - 1
-----------------------------------------------------------------------------
(***************************************************************************)
(* c_instructionInfo: arguments, results, side effects and price.          *)
(***************************************************************************)
Nullary == {"address", "origin", "caller", "callvalue", "calldatasize", "codesize",
            "gasprice", "returndatasize", "coinbase", "timestamp", "number",
            "difficulty", "gaslimit", "pc", "msize", "gas", "stop", "jumpdest",
            "invalid"}

Unary == {"not", "iszero", "balance", "calldataload", "extcodesize", "extcodehash",
          "blockhash", "pop", "mload", "sload", "jump", "selfdestruct"}

Ternary == {"addmod", "mulmod", "calldatacopy", "codecopy", "returndatacopy",
            "create", "log1"}

NoResult == {"stop", "calldatacopy", "codecopy", "extcodecopy", "returndatacopy",
             "pop", "mstore", "mstore8", "sstore", "jump", "jumpi", "jumpdest",
             "log0", "log1", "log2", "log3", "log4", "return", "revert", "invalid",
             "selfdestruct"}

args(i) ==
    CASE i \in Nullary -> 0
      [] i \in Unary -> 1
      [] i \in Ternary -> 3
      [] i \in {"extcodecopy", "log2", "create2"} -> 4
      [] i = "log3" -> 5
      [] i \in {"log4", "delegatecall", "staticcall"} -> 6
      [] i \in {"call", "callcode"} -> 7
      [] OTHER -> 2

ret(i) == IF i \in NoResult THEN 0 ELSE 1

sideEffects(i) ==
    i \in (NoResult \ {"pop"})
            \cup {"keccak256", "mload", "create", "call", "callcode", "delegatecall",
                  "staticcall", "create2"}

gasPriceTier(i) ==
    CASE i \in {"stop", "return", "revert", "invalid"} -> "zero"
      [] i \in (Nullary \ {"jumpdest", "stop", "invalid"}) \cup {"pop"} -> "base"
      [] i \in {"mul", "div", "sdiv", "mod", "smod", "signextend"} -> "low"
      [] i \in {"addmod", "mulmod", "jump"} -> "mid"
      [] i = "jumpi" -> "high"
      [] i \in {"extcodesize", "extcodecopy", "balance", "extcodehash", "blockhash"} -> "ext"
      [] i \in {"exp", "keccak256", "sload", "sstore", "jumpdest", "log0", "log1", "log2",
                "log3", "log4", "create", "call", "callcode", "delegatecall",
                "staticcall", "create2", "selfdestruct"} -> "special"
      [] OTHER -> "verylow"
-----------------------------------------------------------------------------
(***************************************************************************)
(* SemanticInformation.                                                    *)
(***************************************************************************)
isCommutativeOperation(i) == i \in {"add", "mul", "eq", "and", "or", "xor"}

altersControlFlow(i) ==
    i \in {"jump", "jumpi", "return", "selfdestruct", "stop", "invalid", "revert"}

terminatesControlFlow(i) == i \in {"return", "selfdestruct", "stop", "invalid", "revert"}

isDeterministic(i) ==
    i \notin {"call", "callcode", "delegatecall", "staticcall", "create", "create2",
              "gas", "pc", "msize", "balance", "extcodesize", "extcodehash",
              "returndatacopy", "returndatasize"}

movable(i) ==
    /\ ~ sideEffects(i)
    /\ i \notin {"keccak256", "balance", "extcodesize", "extcodehash", "returndatasize",
                 "sload", "pc", "msize", "gas"}

\* Instructions that merely read memory may be removed.
sideEffectFree(i) == i \in {"keccak256", "mload"} \/ ~ sideEffects(i)

invalidatesMemory(i) ==
    i \in {"calldatacopy", "codecopy", "extcodecopy", "returndatacopy", "mstore",
           "mstore8", "call", "callcode", "delegatecall", "staticcall"}

invalidatesStorage(i) ==
    i \in {"call", "callcode", "delegatecall", "create", "create2", "sstore"}
-----------------------------------------------------------------------------
(***************************************************************************)
(* What the EVM computes.  Tables make the bit operations cheap.           *)
(***************************************************************************)
AndTable == [x \in Word, y \in Word |-> x & y]

OrTable == [x \in Word, y \in Word |-> x | y]

XorTable == [x \in Word, y \in Word |-> x ^^ y]

Truth(b) == IF b THEN 1 ELSE 0

\* u2s and s2u, of Common.h, for the width of a word.
u2s(x) == IF x < Modulus \div 2 THEN x ELSE x - Modulus

s2u(x) == (x + Modulus) % Modulus

\* Division that truncates towards zero.
Quotient(x, y) ==
    LET Abs(n) == IF n < 0 THEN - n ELSE n
        q == Abs(x) \div Abs(y)
    IN  IF (x < 0) = (y < 0) THEN q ELSE - q

Power == [x \in Word |->
    LET f[n \in Word] == IF n = 0 THEN 1 ELSE (f[n - 1] * x) % Modulus IN f]

Shl(n, x) == IF n >= WordBits THEN 0 ELSE (x * 2 ^ n) % Modulus

Shr(n, x) == IF n >= WordBits THEN 0 ELSE x \div 2 ^ n

SignExtend(n, x) ==
    IF n >= WordBytes - 1 THEN x
    ELSE LET low == 2 ^ (ByteBits * (n + 1))
             y == x % low
         IN  IF y >= low \div 2 THEN y + Modulus - low ELSE y

\* The value of a pure instruction, a the values of its arguments.
Compute(i, a) ==
    CASE i = "add" -> (a[1] + a[2]) % Modulus
      [] i = "sub" -> (a[1] + Modulus - a[2]) % Modulus
      [] i = "mul" -> (a[1] * a[2]) % Modulus
      [] i = "div" -> IF a[2] = 0 THEN 0 ELSE a[1] \div a[2]
      [] i = "mod" -> IF a[2] = 0 THEN 0 ELSE a[1] % a[2]
      [] i = "sdiv" -> IF a[2] = 0 THEN 0 ELSE s2u(Quotient(u2s(a[1]), u2s(a[2])))
      [] i = "smod" -> IF a[2] = 0 THEN 0
                       ELSE s2u(u2s(a[1]) - Quotient(u2s(a[1]), u2s(a[2])) * u2s(a[2]))
      [] i = "exp" -> Power[a[1]][a[2]]
      [] i = "not" -> MaxWord - a[1]
      [] i = "lt" -> Truth(a[1] < a[2])
      [] i = "gt" -> Truth(a[1] > a[2])
      [] i = "slt" -> Truth(u2s(a[1]) < u2s(a[2]))
      [] i = "sgt" -> Truth(u2s(a[1]) > u2s(a[2]))
      [] i = "eq" -> Truth(a[1] = a[2])
      [] i = "iszero" -> Truth(a[1] = 0)
      [] i = "and" -> AndTable[a[1], a[2]]
      [] i = "or" -> OrTable[a[1], a[2]]
      [] i = "xor" -> XorTable[a[1], a[2]]
      [] i = "byte" -> IF a[1] >= WordBytes THEN 0
                       ELSE Shr(ByteBits * (WordBytes - 1 - a[1]), a[2]) % (ByteMask + 1)
      [] i = "shl" -> Shl(a[1], a[2])
      [] i = "shr" -> Shr(a[1], a[2])
      [] i = "sar" -> s2u(u2s(a[2]) \div (2 ^ (IF a[1] > WordBits THEN WordBits ELSE a[1])))
      [] i = "addmod" -> IF a[3] = 0 THEN 0 ELSE (a[1] + a[2]) % a[3]
      [] i = "mulmod" -> IF a[3] = 0 THEN 0 ELSE (a[1] * a[2]) % a[3]
      [] i = "signextend" -> SignExtend(a[1], a[2])

Pure == {"add", "sub", "mul", "div", "mod", "sdiv", "smod", "exp", "not", "lt", "gt",
         "slt", "sgt", "eq", "iszero", "and", "or", "xor", "byte", "shl", "shr", "sar",
         "addmod", "mulmod", "signextend"}
=============================================================================
