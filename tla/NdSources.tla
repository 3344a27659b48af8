------------------------------ MODULE NdSources ------------------------------
(***************************************************************************)
(* What the four backends of libverify return for a nondeterministic       *)
(* choice.  An integer type of Solidity is stored in a raw C type, which   *)
(* Boost makes exactly as wide and <stdint.h> the next wider one, or the   *)
(* widest if there is none.  Widths count bytes.                           *)
(***************************************************************************)
EXTENDS Integers, Sequences, FiniteSets, FiniteSetsExt

CONSTANTS
    BYTE,        \* number of values of a byte
    Containers,  \* widths of the types of <stdint.h>
    Bytes,       \* bytes that an input to the fuzzer may have
    MaxWidth     \* the width of uint256

ASSUME SourcesAssumption ==
    /\ BYTE \in Nat /\ BYTE >= 2 /\ BYTE % 2 = 0
    /\ Containers \subseteq Nat \ {0} /\ Containers /= {} /\ IsFiniteSet(Containers)
    /\ Bytes \subseteq 0 .. (BYTE - 1)
    /\ MaxWidth \in Nat /\ \A c \in Containers : c < MaxWidth

\* The C backends can only be built with the integers of <stdint.h>.
Builds == {<<"libFuzzer", "BOOST">>, <<"libFuzzer", "STDINT">>, <<"interactive", "BOOST">>,
           <<"interactive", "STDINT">>, <<"klee", "STDINT">>, <<"seahorn", "STDINT">>}

Widest == Max(Containers)

StdintWidth(w) == IF w > Widest THEN Widest ELSE Min({c \in Containers : c >= w})

\* The number of values that n bytes have.
Values[n \in Nat] == IF n = 0 THEN 1 ELSE BYTE * Values[n - 1]

\* sol_raw_uint..., sol_raw_int...: the least and the largest value.  Boost
\* keeps the sign apart from the bits of a number, which are as many as those of
\* the unsigned type.
BoostBounds(w, signed) == <<IF signed THEN 1 - Values[w] ELSE 0, Values[w] - 1>>

StdintBounds(w, signed) ==
    LET n == Values[StdintWidth(w)]
    IN  IF signed THEN <<-(n \div 2), n \div 2 - 1>> ELSE <<0, n - 1>>

RawBounds(ints, w, signed) ==
    IF ints = "BOOST" THEN BoostBounds(w, signed) ELSE StdintBounds(w, signed)

Between(bounds) == bounds[1] .. bounds[2]

\* SOL_UINT256_MAX: for Boost, too, the largest number of the widest container.
UINT256_MAX == Values[Widest] - 1

\* The conversion of a number to a raw type of <stdint.h>.
Wrapped(v, w, signed) ==
    LET n == Values[StdintWidth(w)]
        m == v % n
    IN  IF signed /\ m >= n \div 2 THEN m - n ELSE m

\* The first bytes shifted up and the next one added, byte by byte.
Number(bs) ==
    LET shifted[n \in 0 .. Len(bs)] == IF n = 0 THEN 0 ELSE shifted[n - 1] * BYTE + bs[n]
    IN  shifted[Len(bs)]

\* The fuzzer shifts the bytes of a number together.  A type wider than every
\* container loses the leading ones; Boost keeps them and never sets a sign.
FuzzWide(ints, bs, signed) ==
    IF ints = "BOOST"
    THEN Number(bs)
    ELSE Wrapped(Number(SubSeq(bs, Len(bs) - Widest + 1, Len(bs))), Widest, signed)

\* In a container with room to spare, the sign bit is never set either.
FuzzNarrow(ints, bs, signed) ==
    IF ints = "STDINT" /\ signed /\ Len(bs) \in Containers
    THEN Wrapped(Number(bs), Len(bs), TRUE)
    ELSE Number(bs)

FuzzInt(ints, w, signed) ==
    {IF w > Widest THEN FuzzWide(ints, bs, signed) ELSE FuzzNarrow(ints, bs, signed) :
        bs \in [1 .. w -> Bytes]}

\* klee_make_symbolic: every value of the raw type.
KleeInt(w, signed) == Between(StdintBounds(w, signed))

\* The hint is a call to an undefined function of the signed raw type.
SeaInt(w) == Between(StdintBounds(w, TRUE))

SeaUint(w) == {hint \in SeaInt(w) : hint >= 0}

\* A number that the user types.  The digits of a type wider than every
\* container are read to 128 bits, and the result is converted.
TypedInt(ints, w) ==
    IF ints = "STDINT" /\ w > Widest
    THEN {Wrapped(v, w, TRUE) : v \in Between(BoostBounds(w, TRUE))}
    ELSE Between(RawBounds(ints, w, TRUE))

TypedUint(ints, w) ==
    IF ints = "STDINT" /\ w > Widest
    THEN {Wrapped(v, w, FALSE) : v \in Between(BoostBounds(w, FALSE))}
    ELSE Between(RawBounds(ints, w, FALSE))

\* nd_int..._t and nd_uint..._t.
nd_int(backend, ints, w, signed) ==
    CASE backend = "libFuzzer"   -> FuzzInt(ints, w, signed)
      [] backend = "klee"        -> KleeInt(w, signed)
      [] backend = "seahorn"     -> IF signed THEN SeaInt(w) ELSE SeaUint(w)
      [] backend = "interactive" -> IF signed THEN TypedInt(ints, w) ELSE TypedUint(ints, w)

\* nd_byte: SeaHorn's hint is a signed byte.
nd_byte(backend) ==
    CASE backend = "libFuzzer" -> Bytes
      [] backend = "seahorn"   -> 0 .. (BYTE \div 2 - 1)
      [] OTHER                 -> 0 .. (BYTE - 1)

\* Mutant: the upper bound is included.
FuzzRange_inclusive(r) == {(v % (r[2] - r[1] + 1)) + r[1] : v \in Bytes}

FuzzRange(r) == {(v % (r[2] - r[1])) + r[1] : v \in Bytes}

\* nd_range: the other backends draw a byte and drop the path, or end the
\* process, if it is outside the bounds; the empty set stands for that.
nd_range(backend, r) ==
    IF backend = "libFuzzer"
    THEN FuzzRange(r)
    ELSE {v \in nd_byte(backend) : r[1] <= v /\ v < r[2]}

\* nd_increase of the other backends.  SeaHorn compares its signed hint as an
\* unsigned number, so that the negative ones stand for the upper half.
Later(backend, ints, curr, strict) ==
    {v \in IF backend = "seahorn" THEN {Wrapped(h, MaxWidth, FALSE) : h \in SeaInt(MaxWidth)}
           ELSE nd_int(backend, ints, MaxWidth, FALSE) :
        IF strict THEN v > curr ELSE v >= curr}
=============================================================================
