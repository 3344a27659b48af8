------------------------------- MODULE SolTypes -------------------------------
(***************************************************************************)
(* Types and values of Solidity: the classes of Types.cpp, the part of the *)
(* type checker that is about expressions, and the code that the code      *)
(* generator emits for them, as what it does to words and storage.         *)
(*                                                                         *)
(* The code is lazy: a word on the stack may have dirty bits besides those *)
(* of its type, which are cleaned where they matter.  Small values share a *)
(* slot of the storage.  At the end, what expressions mean on exact        *)
(* values, against which the code is compared.                             *)
(*                                                                         *)
(* A slot has WordBytes bytes (32) of ByteBits bits (8), literals are      *)
(* limited to LiteralBits (4096).  Hashes are taken to have no collisions: *)
(* a slot is a sequence that ends with the number that the code adds to.   *)
(* Not here: fixed point types, function types, memory, and assignments of *)
(* whole arrays and structures.                                            *)
(***************************************************************************)
EXTENDS Instructions, SequencesExt, TLC
INSTANCE StorageLayout

CONSTANTS None,
          typed     \* the state variables in order (vars) and their types (type)

LiteralBits == 2 * WordBits

AddressBytes == AddressBits \div ByteBits

Size(bytes) == 2 ^ (ByteBits * bytes)

-----------------------------------------------------------------------------
(***************************************************************************)
(* Types.                                                                  *)
(***************************************************************************)
NoType == [cat |-> "none"]     \* a null pointer

IntegerType(bytes, signed) == [cat |-> "Integer", bytes |-> bytes, signed |-> signed]

FixedBytesType(bytes) == [cat |-> "FixedBytes", bytes |-> bytes]

BoolType == [cat |-> "Bool"]

AddressType(payable) == [cat |-> "Address", payable |-> payable]

EnumType(name, members) == [cat |-> "Enum", name |-> name, members |-> members]

\* bases is the linearisation, with the contract itself.
ContractType(name, bases, payable) == [cat |-> "Contract", name |-> name, bases |-> bases, payable |-> payable]

\* bytes is the size of m_compatibleBytesType, 0 if there is none.
RationalNumberType(num, den, bytes) == [cat |-> "RationalNumber", num |-> num, den |-> den, bytes |-> bytes]

StringLiteralType(value) == [cat |-> "StringLiteral", value |-> value]

\* In storage; length is None for an array of dynamic size.
ArrayType(base, length) == [cat |-> "Array", base |-> base, length |-> length, isByteArray |-> FALSE]

ByteArray == [ArrayType(FixedBytesType(1), None) EXCEPT !.isByteArray = TRUE]

\* members is a sequence of pairs of a name and a type.
StructType(name, members) == [cat |-> "Struct", name |-> name, members |-> members]

MappingType(key, value) == [cat |-> "Mapping", key |-> key, value |-> value]

emptyTuple == [cat |-> "Tuple"]

uint256 == IntegerType(WordBytes, FALSE)

isValueType(t) == t.cat \in {"Integer", "FixedBytes", "Bool", "Address", "Enum", "Contract"}

RECURSIVE bytesRequired(_)
bytesRequired(n) == IF n = 0 THEN 0 ELSE 1 + bytesRequired(n \div Size(1))

storageBytes(t) ==
    CASE t.cat \in {"Integer", "FixedBytes"} -> t.bytes
      [] t.cat = "Bool" -> 1
      [] t.cat \in {"Address", "Contract"} -> AddressBytes
      [] t.cat = "Enum" -> Greater(1, bytesRequired(t.members - 1))
      [] OTHER -> WordBytes

RECURSIVE storageSize(_)

\* What the layout of a value of type t depends on.
ItemOf(t) == [bytes |-> storageBytes(t), size |-> storageSize(t)]

structOffsets(t) == computeOffsets([i \in DOMAIN t.members |-> ItemOf(t.members[i][2])])

\* An array of dynamic size has its length in its slot.
storageSize(t) ==
    CASE t.cat = "Array" -> IF t.length = None THEN 1 ELSE arrayStorageSize(ItemOf(t.base), t.length)
      [] t.cat = "Struct" -> Greater(1, structOffsets(t).size)
      [] OTHER -> 1

memberIndex(t, name) == CHOOSE i \in DOMAIN t.members : t.members[i][1] = name

storageOffsetsOfMember(t, name) == structOffsets(t).at[memberIndex(t, name)]

stateVariables == computeOffsets([i \in DOMAIN typed.vars |-> ItemOf(typed.type[typed.vars[i]])]).at

-----------------------------------------------------------------------------
(***************************************************************************)
(* Rational numbers.                                                       *)
(***************************************************************************)
minValue(t) == IF t.signed THEN - (Size(t.bytes) \div 2) ELSE 0

maxValue(t) == IF t.signed THEN Size(t.bytes) \div 2 - 1 ELSE Size(t.bytes) - 1

fitsIntegerType(v, t) == minValue(t) <= v /\ v <= maxValue(t)

Magnitude(n) == IF n < 0 THEN - n ELSE n

RECURSIVE mostSignificantBit(_)
mostSignificantBit(n) == IF n <= 1 THEN 0 ELSE 1 + mostSignificantBit(n \div 2)

fitsPrecisionExp(base, e) ==
    \/ base <= 1
    \/ mostSignificantBit(base) <= LiteralBits /\ e * (mostSignificantBit(base) + 1) <= LiteralBits

fitsPrecisionBase2(mantissa, e) == mantissa = 0 \/ mostSignificantBit(mantissa) + e + 1 <= LiteralBits

RECURSIVE Gcd(_, _)
Gcd(a, b) == IF b = 0 THEN a ELSE Gcd(b, a % b)

\* A number in lowest terms; none if it needs too many bits.
rationalNumber(num, den) ==
    LET g == Gcd(Magnitude(num), Magnitude(den)) * (IF den < 0 THEN -1 ELSE 1)
        n == Quotient(num, g)
        d == Quotient(den, g)
    IN  IF n /= 0 /\ Greater(mostSignificantBit(Magnitude(n)), mostSignificantBit(d)) > LiteralBits THEN NoType
        ELSE RationalNumberType(n, d, 0)

isFractional(r) == r.den /= 1

\* The operators on bits, in two's complement.
BitOperation(op, x, y) ==
    LET all == 2 ^ (LiteralBits + 1)
        z   == CASE op = "&" -> (x % all) & (y % all)
                 [] op = "|" -> (x % all) | (y % all)
                 [] op = "^" -> (x % all) ^^ (y % all)
    IN  IF z < all \div 2 THEN z ELSE z - all

rationalExp(a, b) ==
    LET e == Magnitude(b.num)
    IN  CASE isFractional(b) -> NoType
          [] b.num = 0 -> RationalNumberType(1, 1, 0)
          [] b.num /= 0 /\ (a.num = 0 \/ (a.num = 1 /\ a.den = 1)) -> RationalNumberType(a.num, a.den, 0)
          [] OTHER -> IF ~ (fitsPrecisionExp(Magnitude(a.num), e) /\ fitsPrecisionExp(a.den, e)) THEN NoType
                      ELSE IF b.num > 0 THEN rationalNumber(a.num ^ e, a.den ^ e) ELSE rationalNumber(a.den ^ e, a.num ^ e)

\* Rounds towards minus infinity.
rationalShr(n, e) ==
    IF e > mostSignificantBit(Magnitude(n)) THEN IF n < 0 THEN -1 ELSE 0
    ELSE IF n < 0 THEN Quotient(n + 1, 2 ^ e) - 1 ELSE n \div 2 ^ e

\* Numbers are computed by the compiler.
rationalArithmetic(op, a, b) ==
    LET whole == ~ isFractional(a) /\ ~ isFractional(b)
        over  == Quotient(a.num * b.den, a.den * b.num)
    IN  CASE op \in {"&", "|", "^"} /\ whole -> rationalNumber(BitOperation(op, a.num, b.num), 1)
          [] op = "+" -> rationalNumber(a.num * b.den + b.num * a.den, a.den * b.den)
          [] op = "-" -> rationalNumber(a.num * b.den - b.num * a.den, a.den * b.den)
          [] op = "*" -> rationalNumber(a.num * b.num, a.den * b.den)
          [] op = "/" /\ b.num /= 0 -> rationalNumber(a.num * b.den, a.den * b.num)
          [] op = "%" /\ b.num /= 0 -> rationalNumber(a.num * b.den - over * b.num * a.den, a.den * b.den)
          [] op = "**" -> rationalExp(a, b)
          [] op = "<<" /\ whole /\ b.num >= 0 ->
                IF fitsPrecisionBase2(Magnitude(a.num), b.num) THEN rationalNumber(a.num * 2 ^ b.num, 1) ELSE NoType
          [] op = ">>" /\ whole /\ b.num >= 0 -> rationalNumber(rationalShr(a.num, b.num), 1)
          [] OTHER -> NoType

\* The smallest type that holds a whole number.
integerType(r) ==
    LET v == IF r.num < 0 THEN 2 * (- r.num - 1) ELSE r.num
    IN  IF v > MaxWord THEN NoType ELSE IntegerType(Greater(bytesRequired(v), 1), r.num < 0)

mobileType(t) ==
    CASE t.cat = "RationalNumber" -> IF isFractional(t) THEN NoType ELSE integerType(t)
      [] t.cat = "StringLiteral" -> NoType
      [] OTHER -> t

-----------------------------------------------------------------------------
(***************************************************************************)
(* Conversions between types.                                              *)
(***************************************************************************)
integerToImplicit(a, b) ==
    /\ b.cat = "Integer"
    /\ b.bytes >= a.bytes
    /\ IF a.signed THEN b.signed ELSE ~ b.signed \/ b.bytes > a.bytes

\* A number converts to fixed bytes if it is zero, or written with as many digits.
rationalToImplicit(a, b) ==
    CASE b.cat = "Integer" -> ~ isFractional(a) /\ fitsIntegerType(a.num, b)
      [] b.cat = "FixedBytes" -> a.num = 0 \/ a.bytes = b.bytes
      [] OTHER -> FALSE

stringToImplicit(a, b) == b.cat = "FixedBytes" /\ b.bytes >= Len(a.value)

fixedBytesToImplicit(a, b) == b.cat = "FixedBytes" /\ b.bytes >= a.bytes

addressToImplicit(a, b) == b.cat = "Address" /\ (b.payable => a.payable)

contractToImplicit(a, b) == b.cat = "Contract" /\ b.name \in a.bases

isImplicitlyConvertibleTo(a, b) ==
    CASE a.cat = "Integer" -> integerToImplicit(a, b)
      [] a.cat = "RationalNumber" -> rationalToImplicit(a, b)
      [] a.cat = "StringLiteral" -> stringToImplicit(a, b)
      [] a.cat = "FixedBytes" -> fixedBytesToImplicit(a, b)
      [] a.cat = "Address" -> addressToImplicit(a, b)
      [] a.cat = "Contract" -> contractToImplicit(a, b)
      [] OTHER -> a = b /\ isValueType(a)

integerToExplicit(a, b) ==
    \/ b.cat \in {"Integer", "Address", "Contract", "Enum"}
    \/ b.cat = "FixedBytes" /\ a.bytes = b.bytes

fixedBytesToExplicit(a, b) ==
    \/ b.cat = "FixedBytes"
    \/ b.cat = "Integer" /\ a.bytes = b.bytes
    \/ b.cat = "Address" /\ a.bytes = AddressBytes

addressToExplicit(a, b) ==
    \/ b.cat = "Contract" /\ (b.payable => a.payable)
    \/ b.cat = "Integer"
    \/ b.cat = "FixedBytes" /\ b.bytes = AddressBytes
    \/ addressToImplicit(a, b)

contractToExplicit(a, b) == (b.cat = "Address" /\ (b.payable => a.payable)) \/ contractToImplicit(a, b)

enumToExplicit(a, b) == a = b \/ b.cat = "Integer"

rationalToExplicit(a, b) ==
    \/ rationalToImplicit(a, b)
    \/ b.cat /= "FixedBytes" /\ mobileType(a) /= NoType /\ integerToExplicit(mobileType(a), b)

isExplicitlyConvertibleTo(a, b) ==
    CASE a.cat = "Integer" -> integerToExplicit(a, b)
      [] a.cat = "RationalNumber" -> rationalToExplicit(a, b)
      [] a.cat = "FixedBytes" -> fixedBytesToExplicit(a, b)
      [] a.cat = "Address" -> addressToExplicit(a, b)
      [] a.cat = "Contract" -> contractToExplicit(a, b)
      [] a.cat = "Enum" -> enumToExplicit(a, b)
      [] OTHER -> isImplicitlyConvertibleTo(a, b)

commonType(a, b) ==
    CASE mobileType(a) /= NoType /\ isImplicitlyConvertibleTo(b, mobileType(a)) -> mobileType(a)
      [] mobileType(b) /= NoType /\ isImplicitlyConvertibleTo(a, mobileType(b)) -> mobileType(b)
      [] OTHER -> NoType

-----------------------------------------------------------------------------
(***************************************************************************)
(* Operators.                                                              *)
(***************************************************************************)
isCompareOp(op) == op \in {"==", "!=", "<", ">", "<=", ">="}
isShiftOp(op) == op \in {"<<", ">>"}
isBitOp(op) == op \in {"&", "|", "^"}

integerUnary(t, op) == IF op \in {"-", "++", "--", "~"} THEN t ELSE NoType

rationalUnary(t, op) ==
    CASE op = "~" /\ ~ isFractional(t) -> RationalNumberType(- t.num - 1, 1, 0)
      [] op = "-" -> RationalNumberType(- t.num, t.den, 0)
      [] OTHER -> NoType

\* Everything but a literal and a mapping can be deleted.
unaryOperatorResult(t, op) ==
    CASE op = "delete" -> IF isValueType(t) \/ t.cat \in {"Array", "Struct"} THEN emptyTuple ELSE NoType
      [] t.cat = "Integer" /\ op /= "delete" -> integerUnary(t, op)
      [] t.cat = "RationalNumber" /\ op /= "delete" -> rationalUnary(t, op)
      [] t.cat = "FixedBytes" /\ op = "~" -> t
      [] t.cat = "Bool" /\ op = "!" -> t
      [] OTHER -> NoType

isValidShiftAndAmountType(amount) ==
    CASE amount.cat = "Integer" -> TRUE
      [] amount.cat = "RationalNumber" ->
            ~ isFractional(amount) /\ integerType(amount) /= NoType /\ ~ integerType(amount).signed
      [] OTHER -> FALSE

integerBinary(a, op, b) ==
    LET common == commonType(a, b)
    IN  CASE b.cat \notin {"RationalNumber", "Integer"} \/ op \in {"&&", "||"} -> NoType
          [] isShiftOp(op) -> IF isValidShiftAndAmountType(b) THEN a ELSE NoType
          [] OTHER -> IF common /= NoType /\ op = "**" /\ common.signed THEN NoType ELSE common

fixedBytesBinary(a, op, b) ==
    IF isShiftOp(op) THEN IF isValidShiftAndAmountType(b) THEN a ELSE NoType
    ELSE IF commonType(a, b).cat = "FixedBytes" /\ (isCompareOp(op) \/ isBitOp(op)) THEN commonType(a, b) ELSE NoType

boolBinary(a, op, b) == IF b.cat = "Bool" /\ op \in {"==", "!=", "&&", "||"} THEN b ELSE NoType

\* Two numbers are compared at run time, as integers.
rationalBinary(a, op, b) ==
    LET common == commonType(a, b)
        l == mobileType(a)
        r == mobileType(b)
    IN  CASE b.cat = "Integer" -> IF common = NoType THEN NoType ELSE integerBinary(common, op, b)
          [] b.cat = "RationalNumber" ->
                IF ~ isCompareOp(op) THEN rationalArithmetic(op, a, b)
                ELSE IF NoType \in {l, r} THEN NoType ELSE integerBinary(l, op, r)
          [] OTHER -> NoType

\* Addresses, contracts and enumerations are only compared.
binaryOperatorResult(a, op, b) ==
    CASE a.cat = "Integer" -> integerBinary(a, op, b)
      [] a.cat = "RationalNumber" -> rationalBinary(a, op, b)
      [] a.cat = "FixedBytes" -> fixedBytesBinary(a, op, b)
      [] a.cat = "Bool" -> boolBinary(a, op, b)
      [] a.cat \in {"Address", "Contract", "Enum"} -> IF isCompareOp(op) THEN commonType(a, b) ELSE NoType
      [] OTHER -> NoType

-----------------------------------------------------------------------------
(***************************************************************************)
(* TypeChecker.  The type of an expression is NoType if an error is        *)
(* reported for it.                                                        *)
(***************************************************************************)
RECURSIVE typeOf(_)

literalType(e) ==
    CASE e.cat = "bool" -> BoolType
      [] e.cat = "address" -> AddressType(TRUE)
      [] e.cat = "hex" -> RationalNumberType(e.val[1], 1, e.val[2])
      [] e.cat = "string" -> StringLiteralType(e.val)
      [] OTHER -> RationalNumberType(e.val, 1, 0)

\* A literal index is checked by the compiler.
indexType(e) ==
    LET b == typeOf(e.sub[1])
        i == typeOf(e.sub[2])
        inside(n) == i.cat = "RationalNumber" => i.num < n
    IN  CASE b.cat = "Array" ->
                IF isImplicitlyConvertibleTo(i, uint256) /\ (b.length = None \/ inside(b.length)) THEN b.base ELSE NoType
          [] b.cat = "Mapping" -> IF isImplicitlyConvertibleTo(i, b.key) THEN b.value ELSE NoType
          [] b.cat = "FixedBytes" ->
                IF isImplicitlyConvertibleTo(i, uint256) /\ inside(b.bytes) THEN FixedBytesType(1) ELSE NoType
          [] OTHER -> NoType

memberType(e) ==
    LET b == typeOf(e.sub[1])
    IN  CASE b.cat = "Struct" /\ (\E i \in DOMAIN b.members : b.members[i][1] = e.name) -> b.members[memberIndex(b, e.name)][2]
          [] b.cat = "Array" /\ e.name = "length" -> uint256
          [] b.cat = "FixedBytes" /\ e.name = "length" -> IntegerType(1, FALSE)
          [] OTHER -> NoType

isLValue(e) ==
    CASE e.k = "id" -> TRUE
      [] e.k = "index" -> typeOf(e.sub[1]).cat \in {"Array", "Mapping"}
      [] e.k = "member" -> LET b == typeOf(e.sub[1]) IN b.cat = "Struct" \/ (b.cat = "Array" /\ b.length = None)
      [] OTHER -> FALSE

\* A compound assignment must not widen the type.
assignmentType(e) ==
    LET t == typeOf(e.sub[1])
        r == typeOf(e.sub[2])
        ok == IF e.op = "=" THEN isImplicitlyConvertibleTo(r, t) ELSE t /= NoType /\ binaryOperatorResult(t, e.op, r) = t
    IN  IF isLValue(e.sub[1]) /\ isValueType(t) /\ ok THEN t ELSE NoType

unaryType(e) ==
    IF e.op \in {"++", "--", "delete"} /\ ~ isLValue(e.sub[1]) THEN NoType
    ELSE unaryOperatorResult(typeOf(e.sub[1]), e.op)

\* annotation().commonType; a comparison has another type itself.
operandType(e) == binaryOperatorResult(typeOf(e.sub[1]), e.op, typeOf(e.sub[2]))

binaryType(e) == IF operandType(e) /= NoType /\ isCompareOp(e.op) THEN BoolType ELSE operandType(e)

\* The result of a conversion to an address is payable if that is possible.
conversionType(e) ==
    LET a == typeOf(e.sub[1])
    IN  IF ~ isExplicitlyConvertibleTo(a, e.to) THEN NoType
        ELSE IF e.to.cat = "Address" THEN AddressType(isExplicitlyConvertibleTo(a, AddressType(TRUE))) ELSE e.to

conditionalType(e) ==
    LET t == mobileType(typeOf(e.sub[2]))
        f == mobileType(typeOf(e.sub[3]))
    IN  IF typeOf(e.sub[1]) /= BoolType \/ NoType \in {t, f} THEN NoType ELSE commonType(t, f)

\* push and pop of an array.
callType(e) ==
    LET b == typeOf(e.sub[1].sub[1])
    IN  CASE b.cat /= "Array" \/ b.length /= None -> NoType
          [] e.kind = "ArrayPush" -> IF isImplicitlyConvertibleTo(typeOf(e.sub[2]), b.base) THEN uint256 ELSE NoType
          [] OTHER -> emptyTuple

typeOf(e) ==
    CASE e.k = "lit" -> literalType(e)
      [] e.k = "id" -> typed.type[e.decl]
      [] e.k = "index" -> indexType(e)
      [] e.k = "member" -> memberType(e)
      [] e.k = "assign" -> assignmentType(e)
      [] e.k = "unary" -> unaryType(e)
      [] e.k = "binary" -> binaryType(e)
      [] e.k = "cast" -> conversionType(e)
      [] e.k = "cond" -> conditionalType(e)
      [] e.k = "call" -> callType(e)

checkTypes(body) == \A i \in DOMAIN body : typeOf(body[i]) /= NoType

-----------------------------------------------------------------------------
(***************************************************************************)
(* What the code does.  A state has the storage, the word on top of the    *)
(* stack and whether an invalid instruction was met, after which the rest  *)
(* has no effect.                                                          *)
(***************************************************************************)
Push(s, w) == [s EXCEPT !.w = w]

appendConditionalInvalid(s, bad) == IF bad THEN [s EXCEPT !.err = "invalid"] ELSE s

sload(s, slot) == IF slot \in DOMAIN s.sto THEN s.sto[slot] ELSE 0

sstore(s, slot, w) == [s EXCEPT !.sto = slot :> w @@ s.sto]

\* Slot arithmetic, and the slots that a hash of a slot gives.
Plus(slot, n) == [slot EXCEPT ![Len(slot)] = @ + n]
DataOf(slot) == slot \o <<-1, 0>>
EntryOf(slot, key) == slot \o <<key, 0>>

cleanHigherOrderBits(t, w) ==
    CASE t.bytes = WordBytes -> w
      [] t.signed -> Compute("signextend", <<t.bytes - 1, w>>)
      [] OTHER -> Compute("and", <<Size(t.bytes) - 1, w>>)

leftShiftNumberOnStack(bits, w) == Compute("shl", <<bits, w>>)

rightShiftNumberOnStack(bits, w) == Compute("shr", <<bits, w>>)

\* The bits of a word besides the leftmost or rightmost bytes.
Unused(bytes) == ByteBits * (WordBytes - bytes)

enumCheck(t, s) == appendConditionalInvalid(s, s.w > t.members - 1)

\* Fixed bytes are aligned to the left, all other types to the right.
convertFixedBytes(from, to, cleanup, s) ==
    LET bytes == IF from.bytes < to.bytes THEN from.bytes ELSE to.bytes
    IN  IF to.cat = "FixedBytes"
        THEN IF to.bytes > from.bytes \/ cleanup THEN Push(s, Compute("and", <<MaxWord - (2 ^ Unused(bytes) - 1), s.w>>)) ELSE s
        ELSE Push(s, rightShiftNumberOnStack(Unused(from.bytes), s.w))

convertToFixedBytes(from, to, s) ==
    LET clean == IF from.cat = "Integer" /\ to.bytes > from.bytes THEN cleanHigherOrderBits(from, s.w) ELSE s.w
    IN  Push(s, leftShiftNumberOnStack(Unused(to.bytes), clean))

asInteger(t) == IF t.cat = "Integer" THEN t ELSE IntegerType(AddressBytes, FALSE)

\* Widening cleans the source, a forced cleanup the target.
convertIntegers(from, to, cleanup, chopSignBits, s) ==
    LET f == IF from.cat = "RationalNumber" THEN integerType(from) ELSE asInteger(from)
        t == asInteger(to)
        clean == CASE from.cat = "RationalNumber" -> IF t.bytes < f.bytes /\ cleanup THEN cleanHigherOrderBits(t, s.w) ELSE s.w
                   [] OTHER -> IF t.bytes > f.bytes THEN cleanHigherOrderBits(f, s.w)
                               ELSE IF cleanup THEN cleanHigherOrderBits(t, s.w) ELSE s.w
        chop  == chopSignBits /\ to.cat = "Integer" /\ t.signed /\ from.cat /= "RationalNumber"
    IN  Push(s, IF chop THEN Compute("and", <<Size(f.bytes) - 1, clean>>) ELSE clean)

\* The bytes of a string, aligned to the left.
StringWord(value) ==
    FoldLeft(LAMBDA w, i : w + value[i] * Size(WordBytes - i), 0, [i \in DOMAIN value |-> i])

RECURSIVE convertType(_, _, _, _, _)
convertType(from, to, cleanup, chopSignBits, s) ==
    CASE from = to /\ ~ cleanup -> s
      [] from.cat = "FixedBytes" /\ (from /= to \/ cleanup) -> convertFixedBytes(from, to, cleanup, s)
      [] from.cat = "Enum" /\ (from /= to \/ cleanup) -> enumCheck(from, s)
      [] from.cat = "StringLiteral" ->
            Push(s, Compute("and", <<StringWord(from.value), MaxWord - (2 ^ Unused(to.bytes) - 1)>>))
      [] from.cat = "Bool" /\ cleanup -> Push(s, Truth(s.w /= 0))
      [] OTHER ->
            CASE to.cat = "FixedBytes" -> convertToFixedBytes(from, to, s)
              [] to.cat = "Enum" -> enumCheck(to, convertType(from, mobileType(from), TRUE, FALSE, s))
              [] OTHER -> convertIntegers(from, to, cleanup, chopSignBits, s)

literalValue(t) == IF t.num >= 0 THEN t.num ELSE s2u(t.num)

-----------------------------------------------------------------------------
(***************************************************************************)
(* StorageItem.  A place is a slot and the number of a byte in it.         *)
(***************************************************************************)
ShiftTo(off, w) == Compute("mul", <<Size(off), w>>)

retrieveValue(t, at, s) ==
    LET w == Compute("div", <<sload(s, at.slot), Size(at.off)>>)
        n == storageBytes(t)
    IN  CASE n = WordBytes -> Push(s, sload(s, at.slot))
          [] t.cat = "FixedBytes" /\ n < WordBytes -> Push(s, leftShiftNumberOnStack(Unused(n), w))
          [] t.cat = "Integer" /\ n < WordBytes /\ t.signed -> Push(s, Compute("signextend", <<n - 1, w>>))
          [] OTHER -> Push(s, Compute("and", <<Size(n) - 1, w>>))

\* The slot without the value that is in it.
clearedSlot(t, at, s) ==
    Compute("and", <<sload(s, at.slot), MaxWord - ShiftTo(at.off, Size(storageBytes(t)) - 1)>>)

\* The value on the stack as the bits that are put into the slot.
storedBits(source, t, s) ==
    IF t.cat = "FixedBytes" THEN Push(s, rightShiftNumberOnStack(Unused(t.bytes), s.w))
    ELSE convertType(source, t, TRUE, TRUE, s)

\* The value stays on the stack as it was.
storeValue(source, t, at, s) ==
    IF storageBytes(t) = WordBytes
    THEN LET c == convertType(source, t, TRUE, FALSE, s) IN Push(sstore(c, at.slot, c.w), s.w)
    ELSE LET c == storedBits(source, t, s)
         IN  Push(sstore(c, at.slot, Compute("or", <<ShiftTo(at.off, c.w), clearedSlot(t, at, s)>>)), s.w)

RECURSIVE setToZero(_, _, _)

-----------------------------------------------------------------------------
(***************************************************************************)
(* ArrayUtils.  A byte array of less than WordBytes bytes is in its slot,  *)
(* with twice its length in the last byte; the slot of a longer one has    *)
(* twice the length and one.                                               *)
(***************************************************************************)
retrieveLength(t, slot, s) ==
    LET x == sload(s, slot)
    IN  CASE t.length /= None -> t.length
          [] t.isByteArray -> (IF x % 2 = 0 THEN x % Size(1) ELSE x) \div 2
          [] OTHER -> x

\* Where an element is.
accessIndex(t, slot, i, s) ==
    LET data == IF t.length = None THEN DataOf(slot) ELSE slot
        at   == elementPlace(ItemOf(t.base), i)
    IN  IF t.isByteArray /\ sload(s, slot) % 2 = 0 THEN Place(slot, i) ELSE Place(Plus(data, at.slot), at.off)

\* The slots of n elements.
slotsOf(t, n) == convertLengthToSize(ItemOf(t.base), n)

\* Clears the elements of type t in the slots from pos to before end, counted from
\* slot base.
RECURSIVE clearStorageLoop(_, _, _, _, _)
clearStorageLoop(t, base, pos, end, s) ==
    IF pos >= end \/ t.cat = "Mapping" THEN s
    ELSE clearStorageLoop(t, base, pos + storageSize(t), end, setToZero(t, Place(Plus(base, pos), 0), s))

\* Packed elements are cleared by whole slots.
clearedType(t) == IF storageBytes(t.base) < WordBytes THEN uint256 ELSE t.base

clearDynamicArray(t, slot, s) ==
    LET n    == retrieveLength(t, slot, s)
        none == sstore(s, slot, 0)
    IN  IF t.isByteArray /\ n < WordBytes THEN none
        ELSE clearStorageLoop(clearedType(t), DataOf(slot), 0, slotsOf(t, n), none)

clearArray(t, slot, s) ==
    IF t.length = None THEN clearDynamicArray(t, slot, s)
    ELSE clearStorageLoop(clearedType(t), slot, 0, slotsOf(t, t.length), s)

setToZero(t, at, s) ==
    CASE t.cat = "Array" -> clearArray(t, at.slot, s)
      [] t.cat = "Struct" ->
            FoldLeft(LAMBDA z, m : LET o == storageOffsetsOfMember(t, m[1])
                                   IN  IF m[2].cat = "Mapping" THEN z ELSE setToZero(m[2], Place(Plus(at.slot, o.slot), o.off), z),
                     s, t.members)
      [] OTHER -> sstore(s, at.slot, IF storageBytes(t) = WordBytes THEN 0 ELSE clearedSlot(t, at, s))

\* The length of a byte array that keeps or gets its bytes in its slot.
shortBytes(slot, word, n, s) ==
    LET keep == Size(WordBytes - n) IN sstore(s, slot, Compute("or", <<(word \div keep) * keep, 2 * n>>))

shortToLong(slot, n, s) ==
    sstore(sstore(s, DataOf(slot), Compute("and", <<sload(s, slot), MaxWord - ByteMask>>)), slot, 2 * n + 1)

longToShort(slot, old, n, s) ==
    shortBytes(slot, sload(s, DataOf(slot)), n,
               clearStorageLoop(uint256, DataOf(slot), 0, slotsOf(ByteArray, old), s))

\* Only whole slots are cleared if the array gets shorter.
resizeDynamicArray(t, slot, n, s) ==
    LET old == retrieveLength(t, slot, s)
    IN  CASE t.isByteArray /\ old < WordBytes /\ n < WordBytes -> shortBytes(slot, sload(s, slot), n, s)
          [] t.isByteArray /\ old < WordBytes /\ n >= WordBytes -> shortToLong(slot, n, s)
          [] t.isByteArray /\ old >= WordBytes /\ n < WordBytes -> longToShort(slot, old, n, s)
          [] OTHER -> clearStorageLoop(clearedType(t), DataOf(slot), slotsOf(t, n), slotsOf(t, old),
                                       sstore(s, slot, IF t.isByteArray THEN 2 * n + 1 ELSE n))

incrementDynamicArraySize(t, slot, s) ==
    LET data == sload(s, slot)
    IN  CASE ~ t.isByteArray -> sstore(s, slot, (data + 1) % Modulus)
          [] t.isByteArray /\ data % (2 * WordBytes) = 2 * (WordBytes - 1) -> shortToLong(slot, WordBytes, s)
          [] OTHER -> sstore(s, slot, data + 2)

popBytes(slot, s) ==
    LET word == sload(s, slot)
        n    == (IF word % 2 = 0 THEN word % (2 * WordBytes) ELSE word) \div 2
        last == Plus(DataOf(slot), (n - 1) \div WordBytes)
        keep == Size(WordBytes - ((n - 1) % WordBytes))
    IN  CASE n = 0 -> appendConditionalInvalid(s, TRUE)
          [] n = WordBytes /\ word % 2 = 1 ->
                sstore(sstore(s, last, 0), slot,
                       Compute("or", <<Compute("and", <<sload(s, last), MaxWord - ByteMask>>), 2 * (WordBytes - 1)>>))
          [] word % 2 = 0 /\ n > 0 -> shortBytes(slot, word, n - 1, s)
          [] OTHER -> sstore(sstore(s, last, (sload(s, last) \div keep) * keep), slot, word - 2)

popStorageArrayElement(t, slot, s) ==
    LET n == sload(s, slot)
    IN  CASE t.isByteArray -> popBytes(slot, s)
          [] ~ t.isByteArray /\ n = 0 -> appendConditionalInvalid(s, TRUE)
          [] OTHER -> sstore(setToZero(t.base, accessIndex(t, slot, n - 1, s), s), slot, n - 1)

\* The elements of byte arrays are counted from the left.
retrieveByte(at, s) ==
    Push(s, leftShiftNumberOnStack(Unused(1), Compute("byte", <<at.off, sload(s, at.slot)>>)))

storeByte(at, s) ==
    LET place == WordBytes - 1 - at.off
        rest  == Compute("and", <<sload(s, at.slot), MaxWord - ShiftTo(place, ByteMask)>>)
    IN  sstore(s, at.slot, Compute("or", <<rest, ShiftTo(place, rightShiftNumberOnStack(Unused(1), s.w))>>))

deleteByte(at, s) == Push(storeByte(at, Push(s, 0)), s.w)

-----------------------------------------------------------------------------
(***************************************************************************)
(* ExpressionCompiler.                                                     *)
(***************************************************************************)

\* Mutant: dirty bits are left to the operators.
cleanupNeededForOp_never(cat, op) == FALSE

cleanupNeededForOp(cat, op) ==
    isCompareOp(op) \/ isShiftOp(op) \/ (cat = "Integer" /\ op \in {"/", "%", "**"})

isSigned(t) == t.cat = "Integer" /\ t.signed

appendCompareOperatorCode(op, t, l, r) ==
    LET less(x, y) == Compute(IF isSigned(t) THEN "slt" ELSE "lt", <<x, y>>)
    IN  CASE op = "==" -> Compute("eq", <<l, r>>)
          [] op = "!=" -> 1 - Compute("eq", <<l, r>>)
          [] op = "<" -> less(l, r)
          [] op = ">" -> less(r, l)
          [] op = "<=" -> 1 - less(r, l)
          [] op = ">=" -> 1 - less(l, r)

appendBitOperatorCode(op, l, r) == Compute(CASE op = "|" -> "or" [] op = "&" -> "and" [] op = "^" -> "xor", <<l, r>>)

appendArithmeticOperatorCode(op, t, l, r) ==
    Compute(CASE op = "+" -> "add" [] op = "-" -> "sub" [] op = "*" -> "mul" [] op = "**" -> "exp"
              [] op = "/" -> (IF t.signed THEN "sdiv" ELSE "div")
              [] op = "%" -> (IF t.signed THEN "smod" ELSE "mod"), <<l, r>>)

appendShiftOperatorCode(op, t, amount, value) ==
    Compute(CASE op = "<<" -> "shl" [] op = ">>" -> (IF isSigned(t) THEN "sar" ELSE "shr"), <<amount, value>>)

\* The operator on words l and r, converted to t; a shift amount has type rt.
appendOperatorCode(op, t, rt, l, r, s) ==
    CASE isCompareOp(op) -> Push(s, appendCompareOperatorCode(op, t, l, r))
      [] isShiftOp(op) -> Push(appendConditionalInvalid(s, rt.signed /\ u2s(r) < 0), appendShiftOperatorCode(op, t, r, l))
      [] isBitOp(op) -> Push(s, appendBitOperatorCode(op, l, r))
      [] OTHER -> Push(appendConditionalInvalid(s, op \in {"/", "%"} /\ r = 0), appendArithmeticOperatorCode(op, t, l, r))

RECURSIVE compile(_, _), locate(_, _)

variablePlace(d) ==
    LET at == stateVariables[CHOOSE i \in DOMAIN typed.vars : typed.vars[i] = d] IN Place(<<at.slot>>, at.off)

\* The index of an array, and its place.
indexPlace(e, s) ==
    LET b == typeOf(e.sub[1])
        l == locate(e.sub[1], s)
        i == convertType(typeOf(e.sub[2]), IF b.cat = "Mapping" THEN b.key ELSE uint256, TRUE, FALSE, compile(e.sub[2], l.s))
        out == b.cat = "Array" /\ i.w >= retrieveLength(b, l.at.slot, i)
    IN  [s  |-> appendConditionalInvalid(i, out),
         at |-> IF b.cat = "Mapping" THEN Place(EntryOf(l.at.slot, i.w), 0)
                ELSE accessIndex(b, l.at.slot, IF out THEN 0 ELSE i.w, i)]

memberPlace(e, s) ==
    LET b == typeOf(e.sub[1])
        l == locate(e.sub[1], s)
        o == storageOffsetsOfMember(b, e.name)
    IN  IF b.cat = "Array" THEN l ELSE [l EXCEPT !.at = Place(Plus(l.at.slot, o.slot), o.off)]

locate(e, s) ==
    CASE e.k = "id" -> [s |-> s, at |-> variablePlace(e.decl)]
      [] e.k = "index" -> indexPlace(e, s)
      [] e.k = "member" -> memberPlace(e, s)

isLength(e) == e.k = "member" /\ typeOf(e.sub[1]).cat = "Array"

isByte(e) == e.k = "index" /\ typeOf(e.sub[1]).cat = "Array" /\ typeOf(e.sub[1]).isByteArray

retrieve(e, l) ==
    CASE isLength(e) -> Push(l.s, retrieveLength(typeOf(e.sub[1]), l.at.slot, l.s))
      [] isByte(e) -> retrieveByte(l.at, l.s)
      [] OTHER -> retrieveValue(typeOf(e), l.at, l.s)

store(e, l, s) ==
    CASE isLength(e) -> resizeDynamicArray(typeOf(e.sub[1]), l.at.slot, s.w, s)
      [] isByte(e) -> storeByte(l.at, s)
      [] OTHER -> storeValue(typeOf(e), typeOf(e), l.at, s)

clear(e, l) ==
    CASE isLength(e) -> clearDynamicArray(typeOf(e.sub[1]), l.at.slot, l.s)
      [] isByte(e) -> deleteByte(l.at, l.s)
      [] OTHER -> setToZero(typeOf(e), l.at, l.s)

\* The right-hand side comes first.
visitAssignment(e, s) ==
    LET t     == typeOf(e.sub[1])
        clean == e.op /= "=" /\ cleanupNeededForOp(t.cat, e.op)
        rt    == IF isShiftOp(e.op) THEN mobileType(typeOf(e.sub[2])) ELSE t
        r     == convertType(typeOf(e.sub[2]), rt, clean, FALSE, compile(e.sub[2], s))
        l     == locate(e.sub[1], r)
        old   == convertType(t, t, clean, FALSE, retrieve(e.sub[1], l))
    IN  IF e.op = "=" THEN store(e.sub[1], l, Push(l.s, r.w))
        ELSE store(e.sub[1], l, appendOperatorCode(e.op, t, rt, old.w, r.w, old))

visitUnary(e, s) ==
    LET l   == locate(e.sub[1], s)
        old == retrieve(e.sub[1], l)
        new == store(e.sub[1], l, Push(old, Compute(IF e.op = "++" THEN "add" ELSE "sub", <<old.w, 1>>)))
        sub == compile(e.sub[1], s)
    IN  CASE e.op = "!" -> Push(sub, Compute("iszero", <<sub.w>>))
          [] e.op = "~" -> Push(sub, Compute("not", <<sub.w>>))
          [] e.op = "-" -> Push(sub, Compute("sub", <<0, sub.w>>))
          [] e.op = "delete" -> clear(e.sub[1], l)
          [] e.op \in {"++", "--"} -> IF e.prefix THEN new ELSE Push(new, old.w)

appendAndOrOperatorCode(e, s) ==
    LET l == compile(e.sub[1], s)
    IN  IF (e.op = "&&") = (l.w = 0) THEN l ELSE compile(e.sub[2], l)

visitBinary(e, s) ==
    LET t     == operandType(e)
        clean == cleanupNeededForOp(t.cat, e.op)
        rt    == IF isShiftOp(e.op) THEN mobileType(typeOf(e.sub[2])) ELSE t
        r     == convertType(typeOf(e.sub[2]), rt, clean, FALSE, compile(e.sub[2], s))
        l     == convertType(typeOf(e.sub[1]), t, clean, FALSE, compile(e.sub[1], r))
    IN  IF e.op \in {"&&", "||"} THEN appendAndOrOperatorCode(e, s)
        ELSE appendOperatorCode(e.op, t, rt, l.w, r.w, l)

visitConditional(e, s) ==
    LET c == compile(e.sub[1], s)
        b == e.sub[IF c.w /= 0 THEN 2 ELSE 3]
    IN  convertType(typeOf(b), typeOf(e), FALSE, FALSE, compile(b, c))

\* An element of fixed bytes.
visitByteIndex(e, s) ==
    LET b == compile(e.sub[1], s)
        i == convertType(typeOf(e.sub[2]), uint256, TRUE, FALSE, compile(e.sub[2], b))
    IN  Push(appendConditionalInvalid(i, i.w >= typeOf(e.sub[1]).bytes),
             leftShiftNumberOnStack(Unused(1), Compute("byte", <<i.w, b.w>>)))

\* push: the argument is evaluated before the array grows; the result is the length.
visitPush(e, s) ==
    LET t    == typeOf(e.sub[1].sub[1])
        l    == locate(e.sub[1].sub[1], s)
        arg  == compile(e.sub[2], l.s)
        more == incrementDynamicArraySize(t, l.at.slot, arg)
        n    == retrieveLength(t, l.at.slot, more)
        at   == accessIndex(t, l.at.slot, n - 1, more)
        val  == convertType(typeOf(e.sub[2]), t.base, FALSE, FALSE, more)
    IN  Push(IF t.isByteArray THEN storeByte(at, val) ELSE storeValue(t.base, t.base, at, val), n)

visitPop(e, s) ==
    LET l == locate(e.sub[1].sub[1], s) IN popStorageArrayElement(typeOf(e.sub[1].sub[1]), l.at.slot, l.s)

compile(e, s) ==
    LET t == typeOf(e)
        b == IF e.k \in {"index", "member"} THEN typeOf(e.sub[1]) ELSE NoType
    IN  CASE t.cat = "RationalNumber" -> Push(s, literalValue(t))
          [] e.k = "lit" /\ t.cat /= "RationalNumber" -> Push(s, IF t.cat = "StringLiteral" THEN 0 ELSE e.val)
          [] e.k = "index" /\ b.cat = "FixedBytes" -> visitByteIndex(e, s)
          [] e.k = "member" /\ b.cat = "FixedBytes" -> Push(compile(e.sub[1], s), b.bytes)
          [] e.k \in {"id", "index", "member"} /\ b.cat /= "FixedBytes" -> retrieve(e, locate(e, s))
          [] e.k = "cast" /\ t.cat /= "RationalNumber" -> convertType(typeOf(e.sub[1]), t, FALSE, FALSE, compile(e.sub[1], s))
          [] e.k = "cond" -> visitConditional(e, s)
          [] e.k = "unary" /\ t.cat /= "RationalNumber" -> visitUnary(e, s)
          [] e.k = "binary" /\ t.cat /= "RationalNumber" -> visitBinary(e, s)
          [] e.k = "assign" -> visitAssignment(e, s)
          [] e.k = "call" -> IF e.kind = "ArrayPush" THEN visitPush(e, s) ELSE visitPop(e, s)
-----------------------------------------------------------------------------
(***************************************************************************)
(* Meaning.  A memory M has an exact value for each path: a state variable *)
(* and the numbers of the elements and members that lead to a value, -1    *)
(* for the length of an array; what is not there is zero.  Fixed bytes are *)
(* the number that their bytes are the digits of.                          *)
(***************************************************************************)
ValueAt(M, p) == IF p \in DOMAIN M.val THEN M.val[p] ELSE 0

Put(M, p, v) == [M EXCEPT !.val = p :> v @@ M.val]

Give(M, v) == [M EXCEPT !.v = v]

Fail(M, bad) == IF bad THEN [M EXCEPT !.err = "invalid"] ELSE M

Wrapped(t, n) ==
    LET m == n % Size(t.bytes) IN IF t.signed /\ m >= Size(t.bytes) \div 2 THEN m - Size(t.bytes) ELSE m

\* Bytes are added or removed at the end.
Padded(v, from, to) == IF to >= from THEN v * Size(to - from) ELSE v \div Size(from - to)

StringNumber(value) == FoldLeft(LAMBDA n, b : n * Size(1) + b, 0, value)

Converted(from, to, v) ==
    CASE to.cat = "Integer" -> Wrapped(to, v)
      [] to.cat \in {"Address", "Contract"} -> v % Size(AddressBytes)
      [] to.cat = "FixedBytes" -> CASE from.cat = "FixedBytes" -> Padded(v, from.bytes, to.bytes)
                                    [] from.cat = "StringLiteral" -> Padded(v, Len(from.value), to.bytes)
                                    [] OTHER -> v % Size(to.bytes)
      [] OTHER -> v

\* Type t with the value v as the result of an operator.
InType(t, v) == IF t.cat = "Integer" THEN Wrapped(t, v) ELSE v % Size(t.bytes)

Compared(op, l, r) ==
    CASE op = "==" -> l = r [] op = "!=" -> l /= r [] op = "<" -> l < r [] op = ">" -> l > r
      [] op = "<=" -> l <= r [] op = ">=" -> l >= r

\* A power or a shift repeats a multiplication or a division.
Repeated(f(_), n, v) == FoldLeft(LAMBDA x, i : f(x), v, [i \in 1 .. n |-> i])

Calculated(op, t, l, r) ==
    CASE op = "+" -> InType(t, l + r)
      [] op = "-" -> InType(t, l - r)
      [] op = "*" -> InType(t, l * r)
      [] op = "/" -> IF r = 0 THEN 0 ELSE InType(t, Quotient(l, r))
      [] op = "%" -> IF r = 0 THEN 0 ELSE l - r * Quotient(l, r)
      [] op = "**" -> Repeated(LAMBDA x : InType(t, x * l), r, 1)
      [] op = "<<" -> Repeated(LAMBDA x : InType(t, 2 * x), r, l)
      [] op = ">>" -> Repeated(LAMBDA x : x \div 2, r, l)
      [] isBitOp(op) -> InType(t, BitOperation(op, l, r))

\* An operator on values of type t, or of a value and a shift amount.
Operated(op, t, l, r, M) ==
    IF isCompareOp(op) THEN Give(M, Truth(Compared(op, l, r)))
    ELSE Give(Fail(M, (op \in {"/", "%"} /\ r = 0) \/ (isShiftOp(op) /\ r < 0)), Calculated(op, t, l, r))

\* Whether the path q from a value of type t enters a mapping.
RECURSIVE ThroughMapping(_, _)
ThroughMapping(t, q) ==
    /\ q /= <<>>
    /\ CASE t.cat = "Mapping" -> TRUE
         [] t.cat = "Array" -> q[1] /= -1 /\ ThroughMapping(t.base, Tail(q))
         [] t.cat = "Struct" -> ThroughMapping(t.members[q[1]][2], Tail(q))

\* Everything at path p is zero but what is in mappings.
Erased(M, t, p) ==
    LET gone == {q \in DOMAIN M.val : IsPrefix(p, q) /\ ~ ThroughMapping(t, SubSeq(q, Len(p) + 1, Len(q)))}
    IN  [M EXCEPT !.val = [q \in DOMAIN M.val \ gone |-> M.val[q]]]

LengthAt(t, p, M) == IF t.length = None THEN ValueAt(M, Append(p, -1)) ELSE t.length

Resized(M, t, p, n) ==
    Put(FoldLeft(LAMBDA z, i : Erased(z, t.base, Append(p, i)), M, [i \in 1 .. LengthAt(t, p, M) - n |-> n + i - 1]),
        Append(p, -1), n)

RECURSIVE Mean(_, _), MeanPath(_, _)

\* The value of an expression, converted.
MeanAs(e, to, M) ==
    LET r == Mean(e, M)
        t == typeOf(e)
    IN  Give(Fail(r, to.cat = "Enum" /\ t /= to /\ r.v \notin 0 .. to.members - 1), Converted(t, to, r.v))

\* What the names, indices and members of e lead to.
MeanPath(e, M) ==
    LET b == typeOf(e.sub[1])
        l == MeanPath(e.sub[1], M)
        i == MeanAs(e.sub[2], IF b.cat = "Mapping" THEN b.key ELSE uint256, l.M)
    IN  CASE e.k = "id" -> [M |-> M, p |-> <<e.decl>>]
          [] e.k = "index" -> [M |-> Fail(i, b.cat = "Array" /\ i.v >= LengthAt(b, l.p, i)), p |-> Append(l.p, i.v)]
          [] e.k = "member" -> [M |-> l.M, p |-> Append(l.p, IF b.cat = "Array" THEN -1 ELSE memberIndex(b, e.name))]

MeanStore(e, l, M) ==
    IF isLength(e) THEN Resized(M, typeOf(e.sub[1]), Front(l.p), M.v) ELSE Put(M, l.p, M.v)

MeanAssign(e, M) ==
    LET t == typeOf(e.sub[1])
        r == MeanAs(e.sub[2], IF isShiftOp(e.op) THEN mobileType(typeOf(e.sub[2])) ELSE t, M)
        l == MeanPath(e.sub[1], r)
    IN  MeanStore(e.sub[1], l, IF e.op = "=" THEN Give(l.M, r.v) ELSE Operated(e.op, t, ValueAt(l.M, l.p), r.v, l.M))

MeanUnary(e, M) ==
    LET t   == typeOf(e.sub[1])
        l   == MeanPath(e.sub[1], M)
        old == ValueAt(l.M, l.p)
        new == MeanStore(e.sub[1], l, Give(l.M, InType(t, IF e.op = "++" THEN old + 1 ELSE old - 1)))
        sub == Mean(e.sub[1], M)
    IN  CASE e.op = "!" -> Give(sub, 1 - sub.v)
          [] e.op = "~" -> Give(sub, InType(t, - sub.v - 1))
          [] e.op = "-" -> Give(sub, InType(t, - sub.v))
          [] e.op = "delete" -> IF isLength(e.sub[1]) THEN MeanStore(e.sub[1], l, Give(l.M, 0)) ELSE Erased(l.M, t, l.p)
          [] e.op \in {"++", "--"} -> IF e.prefix THEN new ELSE Give(new, old)

MeanBinary(e, M) ==
    LET t == operandType(e)
        l == Mean(e.sub[1], M)
        x == MeanAs(e.sub[1], t, M)
        y == MeanAs(e.sub[2], IF isShiftOp(e.op) THEN mobileType(typeOf(e.sub[2])) ELSE t, x)
    IN  IF e.op \in {"&&", "||"} THEN IF (e.op = "&&") = (l.v = 0) THEN l ELSE Mean(e.sub[2], l)
        ELSE Operated(e.op, t, x.v, y.v, y)

MeanCall(e, M) ==
    LET t == typeOf(e.sub[1].sub[1])
        l == MeanPath(e.sub[1].sub[1], M)
        n == LengthAt(t, l.p, l.M)
        a == MeanAs(e.sub[2], t.base, l.M)
    IN  IF e.kind = "ArrayPush" THEN Give(Put(Put(a, Append(l.p, n), a.v), Append(l.p, -1), n + 1), n + 1)
        ELSE IF n = 0 THEN Fail(l.M, TRUE) ELSE Resized(l.M, t, l.p, n - 1)

Mean(e, M) ==
    LET t == typeOf(e)
        b == IF e.k \in {"index", "member"} THEN typeOf(e.sub[1]) ELSE NoType
        c == Mean(e.sub[1], M)
        i == Mean(e.sub[2], c)
    IN  CASE t.cat = "RationalNumber" -> Give(M, t.num)
          [] e.k = "lit" /\ t.cat /= "RationalNumber" -> Give(M, IF t.cat = "StringLiteral" THEN StringNumber(e.val) ELSE e.val)
          [] e.k = "index" /\ b.cat = "FixedBytes" ->
                IF i.v \in 0 .. b.bytes - 1 THEN Give(i, Padded(c.v, b.bytes, i.v + 1) % Size(1)) ELSE Fail(i, TRUE)
          [] e.k = "member" /\ b.cat = "FixedBytes" -> Give(M, b.bytes)
          [] e.k \in {"id", "index", "member"} /\ b.cat /= "FixedBytes" ->
                LET l == MeanPath(e, M)
                IN  Give(l.M, IF isLength(e) THEN LengthAt(b, Front(l.p), l.M) ELSE ValueAt(l.M, l.p))
          [] e.k = "cast" -> MeanAs(e.sub[1], t, M)
          [] e.k = "cond" -> MeanAs(e.sub[IF c.v /= 0 THEN 2 ELSE 3], t, c)
          [] e.k = "unary" /\ t.cat /= "RationalNumber" -> MeanUnary(e, M)
          [] e.k = "binary" /\ t.cat /= "RationalNumber" -> MeanBinary(e, M)
          [] e.k = "assign" -> MeanAssign(e, M)
          [] e.k = "call" -> MeanCall(e, M)

-----------------------------------------------------------------------------
(***************************************************************************)
(* The storage, read without the code.                                     *)
(***************************************************************************)
BytesOf(s, slot, off, n) == (sload(s, slot) \div Size(off)) % Size(n)

HeldValue(t, at, s) ==
    LET v == BytesOf(s, at.slot, at.off, storageBytes(t)) IN IF t.cat = "Integer" THEN Wrapped(t, v) ELSE v

\* Pairs of a path and the value there, for the arrays and mappings as M has them.
RECURSIVE Held(_, _, _, _, _)
Held(t, p, at, s, M) ==
    LET keys == {q[Len(p) + 1] : q \in {q \in DOMAIN M.val : Len(q) > Len(p) /\ IsPrefix(p, q)}}
        element(i) == accessIndex(t, at.slot, i, s)
        slot(k) == EntryOf(at.slot, IF t.key.cat = "FixedBytes" THEN k * 2 ^ Unused(t.key.bytes) ELSE s2u(k))
    IN  CASE t.cat = "Array" ->
                (IF t.length = None THEN {<<Append(p, -1), retrieveLength(t, at.slot, s)>>} ELSE {})
                \cup UNION {IF t.isByteArray
                            THEN {<<Append(p, i), BytesOf(s, element(i).slot, WordBytes - 1 - element(i).off, 1)>>}
                            ELSE Held(t.base, Append(p, i), element(i), s, M) : i \in 0 .. LengthAt(t, p, M) - 1}
          [] t.cat = "Struct" ->
                UNION {LET o == structOffsets(t).at[i]
                       IN  Held(t.members[i][2], Append(p, i), Place(Plus(at.slot, o.slot), o.off), s, M) : i \in DOMAIN t.members}
          [] t.cat = "Mapping" -> UNION {Held(t.value, Append(p, k), Place(slot(k), 0), s, M) : k \in keys}
          [] OTHER -> {<<p, HeldValue(t, at, s)>>}

\* The expressions of body after those of setup: the code and what it should do.
\* An invalid instruction undoes everything.
TypedTransact(setup, body) ==
    LET code(s, es) == FoldLeft(LAMBDA z, e : compile(e, z), s, es)
        mean(M, es) == FoldLeft(LAMBDA z, e : Mean(e, z), M, es)
        s0 == code([sto |-> <<>>, w |-> 0, err |-> "ok"], setup)
        M0 == mean([val |-> <<>>, v |-> 0, err |-> "ok"], setup)
        s1 == code(s0, body)
        M1 == mean(M0, body)
        s  == IF s1.err = "ok" THEN s1 ELSE s0
        M  == IF M1.err = "ok" THEN M1 ELSE M0
        held == UNION {Held(typed.type[d], <<d>>, variablePlace(d), s, M) : d \in ToSet(typed.vars)}
        paths == {h[1] : h \in held}
    IN  [err |-> s1.err, should |-> M1.err, stray |-> FALSE,
         held |-> held,
         meant |-> [p \in paths |-> ValueAt(M, p)],
         before |-> [p \in paths |-> ValueAt(M0, p)]]
=============================================================================
