------------------------------- MODULE Packets -------------------------------
(***************************************************************************)
(* ait/core/tlm.py: packets of one definition.  Fields lie where the       *)
(* definition puts them, may share bytes under masks, and may be present   *)
(* only when another field says so; the definition keeps a history of some *)
(* fields, which every packet that is made updates.                        *)
(***************************************************************************)
EXTENDS DataTypes, FiniteSets, Functions

CONSTANTS FieldDefinitions,  \* of the packet definition, in order: see PacketsAssumption
          HistoryNames,      \* the fields named in `history', in order
          NoMask,
          AlwaysPresent,     \* `when' of a field that has none
          RawData,           \* what packets are made from
          SetValues,         \* what fields are set to
          MaxPackets,        \* bound: packets made
          MaxSets            \* bound: fields set

\* A field's `bytes' say how it is placed: "next" (not given), "prev" ('@prev'), "byte"
\* (its first) or "span" (its first and last); `when' names a field and the value it
\* must have.
Placements == [how : {"next", "prev"}] \cup [how : {"byte"}, first : Nat]
                  \cup [how : {"span"}, first : Nat, last : Nat]
FieldNumbers == DOMAIN FieldDefinitions
FieldNames == {FieldDefinitions[i].name : i \in FieldNumbers}
TypeOf(i) == FieldDefinitions[i].type

IsField(i) == /\ DOMAIN FieldDefinitions[i] = {"name", "type", "bytes", "mask", "when"}
              /\ TypeOf(i) \in PrimitiveTypes
              /\ FieldDefinitions[i].bytes \in Placements
              /\ FieldDefinitions[i].mask # NoMask => FieldDefinitions[i].mask \in 0 .. Patterns[TypeOf(i).nbytes] - 1
              /\ FieldDefinitions[i].when # AlwaysPresent => FieldDefinitions[i].when \in FieldNames \X Int

ASSUME PacketsAssumption ==
    /\ FieldDefinitions \in Seq({FieldDefinitions[i] : i \in FieldNumbers})
    /\ \A i \in FieldNumbers : IsField(i)
    /\ HistoryNames \in Seq(FieldNames)
    /\ RawData \subseteq Seq(Byte) /\ SetValues \subseteq Int
    /\ MaxPackets \in Nat /\ MaxSets \in Nat

VARIABLES packets,     \* the data of the packets that were made
          fieldHistory,   \* PacketHistory._dict
          setCount,    \* how many fields were set
          asSet,       \* history: what each field of each packet was last set to
          presented    \* history: the values __init__ read, packet after packet

packetVars == <<packets, setCount, fieldHistory, asSet, presented>>

-----------------------------------------------------------------------------
(* FieldDefinition and PacketDefinition                                    *)

\* PacketDefinition._update_bytes and FieldDefinition.slice: where every field lies.
Placed(i, before) ==
    LET bytes == FieldDefinitions[i].bytes
        start == CASE bytes.how = "next" -> before.stop
                   [] bytes.how = "prev" -> before.start
                   [] OTHER              -> bytes.first
    IN [start |-> start,
        stop  |-> IF bytes.how = "span" THEN bytes.last + 1 ELSE start + TypeOf(i).nbytes]
slices == LET at[i \in 0 .. Len(FieldDefinitions)] ==
                  IF i = 0 THEN [start |-> 0, stop |-> 0] ELSE Placed(i, at[i - 1])
          IN [i \in FieldNumbers |-> at[i]]

\* PacketDefinition.nbytes, which takes a first byte for the last.
LastByte(i) == IF FieldDefinitions[i].bytes.how = "byte" THEN slices[i].start ELSE slices[i].stop - 1
packetSize == LET lasts == {LastByte(i) : i \in FieldNumbers} \cup {-1} IN
              1 + CHOOSE n \in lasts : \A m \in lasts : m <= n

\* The bits of a value of the type, and those the mask has.
BitsOf(i, value) == Bits(8 * TypeOf(i).nbytes, value)
MaskOf(i) == BitsOf(i, FieldDefinitions[i].mask)
IsMasked(i) == FieldDefinitions[i].mask # NoMask

\* FieldDefinition.__init__: the zeros below the lowest bit of the mask.
shift(i) == IF ~IsMasked(i) \/ MaskOf(i) = {} THEN 0
            ELSE CHOOSE s \in MaskOf(i) : \A k \in MaskOf(i) : s <= k

Masked(i, value) == IF IsMasked(i) THEN OfBits(8 * TypeOf(i).nbytes, BitsOf(i, value) \cap MaskOf(i))
                    ELSE value

FieldBytes(i, data) == Slice(data, slices[i].start, slices[i].stop)
Readable(i, data) == Unpacks(TypeOf(i), FieldBytes(i, data))

\* FieldDefinition.decode and encode
DecodeField(i, data) == Masked(i, decode(TypeOf(i), FieldBytes(i, data))) \div Powers[shift(i)]
FieldValue(i, value) == Masked(i, value * Powers[shift(i)])

\* PacketDefinition.fieldmap: of fields of one name it has the last.
IsNumberOf(name, i) == FieldDefinitions[i].name = name
                       /\ \A j \in FieldNumbers : FieldDefinitions[j].name = name => j <= i
Number(name) == CHOOSE i \in FieldNumbers : IsNumberOf(name, i)

\* Packet._getattr: None when the field is not present.
Present(i, data) == LET when == FieldDefinitions[i].when IN
                    when = AlwaysPresent \/ DecodeField(Number(when[1]), data) = when[2]
GuardReadable(i, data) == LET when == FieldDefinitions[i].when IN
                          when = AlwaysPresent \/ Readable(Number(when[1]), data)

-----------------------------------------------------------------------------
PacketsInit == /\ packets = <<>>
               /\ setCount = 0
               /\ fieldHistory = [n \in Range(HistoryNames) |-> 0]
               /\ asSet = <<>>
               /\ presented = <<>>

\* PacketHistory.add reads the fields in order, and keeps those it has read when the
\* data is too short for the next and the packet is not made.
Read(data, n) == LET i == Number(HistoryNames[n]) IN
                 GuardReadable(i, data) /\ (Present(i, data) => Readable(i, data))
ReadUntil(data) == CHOOSE k \in 0 .. Len(HistoryNames) :
                      /\ \A n \in 1 .. k : Read(data, n)
                      /\ k < Len(HistoryNames) => ~Read(data, k + 1)
Kept(data) == {HistoryNames[n] : n \in {m \in 1 .. ReadUntil(data) : Present(Number(HistoryNames[m]), data)}}

\* mutated: a field that is not present counts as zero
AddWithAbsent(data) ==
    [name \in DOMAIN fieldHistory |->
        IF \E n \in 1 .. ReadUntil(data) : HistoryNames[n] = name
        THEN LET i == Number(name) IN IF Present(i, data) THEN DecodeField(i, data) ELSE 0
        ELSE fieldHistory[name]]

Add(data) == [name \in DOMAIN fieldHistory |->
                 IF name \in Kept(data) THEN DecodeField(Number(name), data) ELSE fieldHistory[name]]

\* Packet.__init__ with data, and with the zeros of its size when there is none.
MakePacket(data) ==
    /\ Len(presented) < MaxPackets
    /\ fieldHistory' = Add(data)
    /\ presented' = Append(presented, [name \in Kept(data) |-> DecodeField(Number(name), data)])
    /\ IF ReadUntil(data) = Len(HistoryNames)
       THEN /\ packets' = Append(packets, data)
            /\ asSet' = Append(asSet, IF \A i \in FieldNumbers : Readable(i, data)
                                      THEN [i \in FieldNumbers |-> DecodeField(i, data)] ELSE <<>>)
       ELSE UNCHANGED <<packets, asSet>>
    /\ UNCHANGED setCount

\* Packet.__setattr__ with the bits a byte keeps: `cleared' of its old ones go.
Integrated(i, data, value, cleared) ==
    LET new == encode(TypeOf(i), FieldValue(i, value))
        old == FieldBytes(i, data)
    IN [b \in 1 .. Len(new) |->
           IF IsMasked(i) /\ b <= Len(old)
           THEN OfBits(8, Bits(8, new[b]) \cup (Bits(8, old[b]) \ Bits(8, cleared[b])))
           ELSE new[b]]
MaskBytes(i) == encode(TypeOf(i), FieldDefinitions[i].mask)

\* mutated: the bits of the field are not cleared first
SettingOnto(i, data, value) ==
    SetSlice(data, slices[i].start, slices[i].stop,
             Integrated(i, data, value, [b \in 1 .. TypeOf(i).nbytes |-> 0]))

\* The data after Packet.__setattr__: under a mask, only its bits change.
Setting(i, data, value) ==
    SetSlice(data, slices[i].start, slices[i].stop, Integrated(i, data, value, MaskBytes(i)))

\* struct.error: the value does not fit, or not the mask of a signed type; IndexError:
\* the slice is longer than the value.
Settable(i, data, value) ==
    /\ Packs(TypeOf(i), FieldValue(i, value))
    /\ IsMasked(i) => /\ Packs(TypeOf(i), FieldDefinitions[i].mask)
                      /\ Len(FieldBytes(i, data)) <= TypeOf(i).nbytes

SetField(p, i, value) ==
    /\ Settable(i, packets[p], value)
    /\ setCount < MaxSets
    /\ setCount' = setCount + 1
    /\ packets' = [packets EXCEPT ![p] = Setting(i, @, value)]
    /\ asSet' = [asSet EXCEPT ![p] = [j \in DOMAIN @ |->
                     IF j = i THEN FieldValue(i, value) \div Powers[shift(i)] ELSE @[j]]]
    /\ UNCHANGED <<fieldHistory, presented>>

PacketsNext == \/ \E data \in RawData \cup {[b \in 1 .. packetSize |-> 0]} : MakePacket(data)
               \/ \E p \in DOMAIN packets, name \in FieldNames, v \in SetValues :
                      SetField(p, Number(name), v)

PacketsSpec == PacketsInit /\ [][PacketsNext]_packetVars

-----------------------------------------------------------------------------
PacketsTypes == /\ packets \in Seq(Seq(Byte))
                /\ fieldHistory \in [Range(HistoryNames) -> Int]
                /\ Len(asSet) = Len(packets)
                /\ setCount \in 0 .. MaxSets
                /\ Len(presented) \in 0 .. MaxPackets

\* Two fields overlap when a bit belongs to both.
BytesWithin(i) == slices[i].start .. slices[i].stop - 1
BitsAt(i, b) == IF IsMasked(i) THEN Bits(8, MaskBytes(i)[b - slices[i].start + 1]) ELSE 0 .. 7
Overlap(i, j) == \E b \in BytesWithin(i) \cap BytesWithin(j) : BitsAt(i, b) \cap BitsAt(j, b) # {}

Separate == {i \in FieldNumbers : \A j \in FieldNumbers \ {i} : ~Overlap(i, j)}

\* Whatever fields of a packet that has all its bytes are set, in any order and to values
\* that are too large for their masks, a field that shares no bit with another reads back
\* what it was last set to, or what the packet was made with (tlm.py 313-369, 424-455).
FieldsKeepApart ==
    \A p \in DOMAIN packets : \A i \in DOMAIN asSet[p] \cap Separate :
        /\ Readable(i, packets[p])
        /\ DecodeField(i, packets[p]) = asSet[p][i]

\* The history has, for each of its fields, the value of the newest data in which the
\* field was present, whether or not a packet came of that data (tlm.py 401-415,
\* 464-496, 937-942).
HistoryIsNewest ==
    \A name \in DOMAIN fieldHistory :
        LET having == {k \in DOMAIN presented : name \in DOMAIN presented[k]} IN
        fieldHistory[name] =
            IF having = {} THEN 0
            ELSE presented[CHOOSE k \in having : \A h \in having : h <= k][name]
=============================================================================
