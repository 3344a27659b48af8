---------------------------- MODULE StorageLayout ----------------------------
(***************************************************************************)
(* Where the variables of a contract, the members of a structure and the   *)
(* elements of an array are in storage (StorageOffsets::computeOffsets,    *)
(* ArrayType::storageSize, ArrayUtils), apart from types: an item has the  *)
(* bytes that a value takes in a slot and its size in slots.  A place is a *)
(* slot, counted from the first one of the contract, structure or array,   *)
(* and the number of a byte in it.  Slots are not limited; the code        *)
(* refuses a layout of 2^256 slots or more.                                *)
(***************************************************************************)
EXTENDS Integers, Sequences

CONSTANT WordBytes     \* the bytes of a slot, 32 in the code

\* The items of storable types: only one that takes a whole slot may take several.
Items ==
    {item \in [bytes : 1 .. WordBytes, size : Nat \ {0}] : item.bytes < WordBytes => item.size = 1}

Place(slot, off) == [slot |-> slot, off |-> off]

Greater(a, b) == IF a > b THEN a ELSE b

-----------------------------------------------------------------------------
(***************************************************************************)
(* Variables and members.                                                  *)
(***************************************************************************)

\* Mutant: a value may reach beyond its slot.
placeNext_loose(item, free) == free

\* Where an item is put, if free is the first free byte.
placeNext(item, free) ==
    IF free.off + item.bytes > WordBytes THEN Place(free.slot + 1, 0) ELSE free

\* The first free byte behind an item at this place.
placeAfter(item, at) ==
    IF item.size = 1 /\ at.off + item.bytes <= WordBytes THEN Place(at.slot, at.off + item.bytes)
    ELSE Place(at.slot + item.size, 0)

\* The first free byte behind every number of items.
Frontier(items) ==
    LET free[n \in 0 .. Len(items)] ==
            IF n = 0 THEN Place(0, 0) ELSE placeAfter(items[n], placeNext(items[n], free[n - 1]))
    IN  free

\* The places of the items and the number of slots that they need.
computeOffsets(items) ==
    LET free == Frontier(items)
        end  == free[Len(items)]
    IN  [at   |-> [i \in DOMAIN items |-> placeNext(items[i], free[i - 1])],
         size |-> IF end.off > 0 THEN end.slot + 1 ELSE end.slot]

-----------------------------------------------------------------------------
(***************************************************************************)
(* Elements of an array, which are equal items.                            *)
(***************************************************************************)
itemsPerSlot(base) == WordBytes \div base.bytes

\* The slots that hold n packed elements.
packedSlots(base, n) == (n + itemsPerSlot(base) - 1) \div itemsPerSlot(base)

\* The size of an array of fixed length.
arrayStorageSize(base, length) ==
    Greater(1, IF base.bytes < WordBytes THEN packedSlots(base, length) ELSE length * base.size)

\* Elements of more than half a slot are not packed.
Packed(base) == base.bytes <= WordBytes \div 2

\* Where element i is.
elementPlace(base, i) ==
    IF Packed(base) THEN Place(i \div itemsPerSlot(base), (i % itemsPerSlot(base)) * base.bytes)
    ELSE Place(i * base.size, 0)

\* The slots of n elements.
convertLengthToSize(base, n) ==
    IF base.size > 1 THEN n * base.size ELSE IF Packed(base) THEN packedSlots(base, n) ELSE n

-----------------------------------------------------------------------------
(***************************************************************************)
(* What a layout should be.                                                *)
(***************************************************************************)

\* The first byte of an item at a place, and the first one behind it.
From(at) == at.slot * WordBytes + at.off

Upto(item, at) == From(at) + item.size * item.bytes

\* An item is within one slot, or takes whole slots.
WellPlaced(item, at) ==
    /\ at \in [slot : Nat, off : 0 .. (WordBytes - 1)]
    /\ at.off + item.bytes <= WordBytes

\* Items follow each other without overlap, and none exceeds size slots.
LaidOut(items, at, size) ==
    /\ \A i \in DOMAIN items : WellPlaced(items[i], at[i])
    /\ \A i, j \in DOMAIN items : i < j => Upto(items[i], at[i]) <= From(at[j])
    /\ \A i \in DOMAIN items : Upto(items[i], at[i]) <= size * WordBytes

\* The item of a structure or an array of fixed length, which takes whole slots.
Whole(size) == [bytes |-> WordBytes, size |-> Greater(1, size)]

\* A place within a structure or an array that begins with this slot.
Within(slot, at) == Place(slot + at.slot, at.off)
=============================================================================
