------------------------------ MODULE DataTypes ------------------------------
(***************************************************************************)
(* The integer types of ait/core/dtype.py: bounds, validation, and the     *)
(* bytes a value becomes.  A type is a record of its size in bytes, its    *)
(* sign and its byte order.  Values are integers; strings, floating-point  *)
(* numbers and times are left out.                                         *)
(***************************************************************************)
EXTENDS Integers, Sequences

Byte == 0 .. 255

\* PrimitiveType's attributes, as __init__ takes them from the name.
PrimitiveType(nbytes, signed, endian) == [nbytes |-> nbytes, signed |-> signed, endian |-> endian]
PrimitiveTypes == [nbytes : Nat \ {0}, signed : BOOLEAN, endian : {"none", "MSB", "LSB"}]

U8      == PrimitiveType(1, FALSE, "none")
I8      == PrimitiveType(1, TRUE, "none")
MSB_U16 == PrimitiveType(2, FALSE, "MSB")
LSB_U16 == PrimitiveType(2, FALSE, "LSB")
MSB_I16 == PrimitiveType(2, TRUE, "MSB")
LSB_I16 == PrimitiveType(2, TRUE, "LSB")

\* How many values n bytes have: 2 ^ (8 * n).
Patterns[n \in Nat] == IF n = 0 THEN 1 ELSE 256 * Patterns[n - 1]

\* The bounds that validate() compares with: those of a signed type are off by one.
max(type) == IF type.signed THEN Patterns[type.nbytes] \div 2 ELSE Patterns[type.nbytes] - 1
min(type) == IF type.signed THEN -1 * (max(type) - 1) ELSE 0

IsValidFor(type, value) == min(type) <= value /\ value <= max(type)

\* What struct.pack() takes for the format of the type; it raises for the rest.
Packs(type, value) ==
    LET half == Patterns[type.nbytes] \div 2 IN
    IF type.signed THEN -half <= value /\ value < half
                   ELSE 0 <= value /\ value < Patterns[type.nbytes]

InOrderOf(type, bytes) ==
    IF type.endian = "LSB" THEN [i \in 1 .. Len(bytes) |-> bytes[Len(bytes) + 1 - i]] ELSE bytes

\* The bytes of a number, and the number of the bytes, the most significant first.
BytesOf(n, number) == [i \in 1 .. n |-> (number \div Patterns[n - i]) % 256]
NumberOf(bytes) ==
    LET upTo[i \in 0 .. Len(bytes)] == IF i = 0 THEN 0 ELSE 256 * upTo[i - 1] + bytes[i]
    IN upTo[Len(bytes)]

encode(type, value) ==
    InOrderOf(type, BytesOf(type.nbytes, value % Patterns[type.nbytes]))

\* struct.unpack() raises unless it gets type.nbytes bytes.
Unpacks(type, bytes) == Len(bytes) = type.nbytes

decode(type, bytes) ==
    LET pattern == NumberOf(InOrderOf(type, bytes)) IN
    IF type.signed /\ pattern >= Patterns[type.nbytes] \div 2
    THEN pattern - Patterns[type.nbytes] ELSE pattern

\* The lowest n bits of a number that are set, of a negative one as in two's complement,
\* and the number that has some bits set: & is \cap, | is \cup and & ~ is \ of bits.
Powers[n \in Nat] == IF n = 0 THEN 1 ELSE 2 * Powers[n - 1]
HasBit(number, k) == (number \div Powers[k]) % 2 = 1
Bits(n, number) == {k \in 0 .. n - 1 : HasBit(number, k)}
OfBits(n, bits) ==
    LET upTo[i \in 0 .. n] == IF i = 0 THEN 0
                              ELSE upTo[i - 1] + (IF i - 1 \in bits THEN Powers[i - 1] ELSE 0)
    IN upTo[n]

\* The bytes of the first n of fields that follow each other.
FieldsEnd(fields, n) ==
    LET upTo[i \in 0 .. n] == IF i = 0 THEN 0 ELSE upTo[i - 1] + fields[i].type.nbytes
    IN upTo[n]

\* Sequences of bytes that are added to each other, in their order.
Together(parts) ==
    LET upTo[i \in 0 .. Len(parts)] == IF i = 0 THEN <<>> ELSE upTo[i - 1] \o parts[i]
    IN upTo[Len(parts)]

\* data[start : stop] of a bytearray, start counted from 0, and the assignment to it,
\* which changes the length when the value is not as long as the slice.
Upto(n, m) == IF n < m THEN n ELSE m
Slice(data, start, stop) == SubSeq(data, start + 1, Upto(stop, Len(data)))
SetSlice(data, start, stop, value) ==
    SubSeq(data, 1, Upto(start, Len(data))) \o value
        \o SubSeq(data, Upto(IF stop > start THEN stop ELSE start, Len(data)) + 1, Len(data))
=============================================================================
