----------------------------- MODULE CaptureFile -----------------------------
(***************************************************************************)
(* ait/core/pcap.py, PCapStream: a file of packets that is appended to and *)
(* read back.  A file is a sequence of blocks: a global header, the two    *)
(* halves of a packet's header, the blocks of its data.  What is written   *)
(* stays in Python's buffer until flush(), or until the buffer has no room *)
(* for it; a writer that is killed loses what is there.                    *)
(***************************************************************************)
EXTENDS Integers, Sequences

CONSTANTS DataLengths,     \* lengths of packets, in blocks
          SnapLength,      \* maxlen of a packet's header
          BufferSize,      \* blocks the buffer has room for
          MaxWritten,      \* bound: packets
          MaxOpened        \* bound: times the file is opened

ASSUME CaptureFileAssumption ==
    /\ DataLengths \subseteq Nat
    /\ {SnapLength, BufferSize, MaxWritten, MaxOpened} \subseteq Nat
    /\ BufferSize >= 3     \* the headers have room

VARIABLES stored,          \* the file
          buffer,          \* what has not reached it
          writer,          \* "closed", "open", or in write(): "header" written, "spilled"
          lengths,         \* history: the lengths of the packets given to write()
          flushed,         \* history: the packets for which write() came back
          opened           \* how often the file was opened

captureVars == <<stored, buffer, writer, lengths, flushed, opened>>

CaptureFileInit == /\ stored = <<>>
                   /\ buffer = <<>>
                   /\ writer = "closed"
                   /\ lengths = <<>>
                   /\ flushed = <<>>
                   /\ opened = 0

-----------------------------------------------------------------------------
GlobalHeader == [part |-> "global"]

Included(length) == IF length <= SnapLength THEN length ELSE SnapLength

Header(p, length) == [h \in {1, 2} |-> [part |-> "header", packet |-> p, half |-> h,
                                        incl_len |-> Included(length)]]

\* mutated: the whole packet is written
DataWhole(p, length) == [i \in 1 .. length |-> [part |-> "data", packet |-> p, at |-> i]]

Data(p, length) == [i \in 1 .. Included(length) |-> [part |-> "data", packet |-> p, at |-> i]]

\* mutated: every opening writes a global header
OpenAnew == /\ writer = "closed"
            /\ opened < MaxOpened
            /\ opened' = opened + 1
            /\ writer' = "open"
            /\ buffer' = <<GlobalHeader>>
            /\ UNCHANGED <<stored, lengths, flushed>>

\* Mode "a": only an empty file gets a global header.
OpenToAppend == /\ writer = "closed"
                /\ opened < MaxOpened
                /\ opened' = opened + 1
                /\ writer' = "open"
                /\ buffer' = IF stored = <<>> THEN <<GlobalHeader>> ELSE <<>>
                /\ UNCHANGED <<stored, lengths, flushed>>

WriteHeader(length) == /\ writer = "open"
                       /\ Len(lengths) < MaxWritten
                       /\ lengths' = Append(lengths, length)
                       /\ buffer' = buffer \o Header(Len(lengths'), length)
                       /\ writer' = "header"
                       /\ UNCHANGED <<stored, flushed, opened>>

DataInHand == Data(Len(lengths), lengths[Len(lengths)])

\* The packet does not fit behind its header: the buffer goes first.
Spill == /\ writer = "header"
         /\ Len(buffer) + Len(DataInHand) > BufferSize
         /\ stored' = stored \o buffer
         /\ buffer' = <<>>
         /\ writer' = "spilled"
         /\ UNCHANGED <<lengths, flushed, opened>>

WriteDataAndFlush == /\ \/ writer = "spilled"
                        \/ writer = "header" /\ Len(buffer) + Len(DataInHand) <= BufferSize
                     /\ stored' = stored \o buffer \o DataInHand
                     /\ buffer' = <<>>
                     /\ flushed' = Append(flushed, Len(lengths))
                     /\ writer' = "open"
                     /\ UNCHANGED <<lengths, opened>>

CloseFile == /\ writer = "open"
             /\ stored' = stored \o buffer
             /\ buffer' = <<>>
             /\ writer' = "closed"
             /\ UNCHANGED <<lengths, flushed, opened>>

WriterKilled == /\ writer # "closed"
                /\ buffer' = <<>>
                /\ writer' = "closed"
                /\ UNCHANGED <<stored, lengths, flushed, opened>>

CaptureFileNext == \/ OpenToAppend
                   \/ \E length \in DataLengths : WriteHeader(length)
                   \/ Spill
                   \/ WriteDataAndFlush
                   \/ CloseFile
                   \/ WriterKilled

CaptureFileSpec == CaptureFileInit /\ [][CaptureFileNext]_captureVars

-----------------------------------------------------------------------------
(* Reading: the packets of a file from its beginning, as long as headers   *)
(* are where they are looked for.  Beyond that the code takes any blocks   *)
(* for a header and this says nothing.  The last packet may be cut short.  *)

IsHeader(file, i) == /\ i < Len(file)
                     /\ file[i].part = "header" /\ file[i].half = 1
                     /\ file[i + 1].part = "header" /\ file[i + 1].half = 2

PacketsOf(file) ==
    LET End(i) == IF i + 1 + file[i].incl_len <= Len(file) THEN i + 1 + file[i].incl_len
                  ELSE Len(file)
        from[i \in 1 .. Len(file) + 1] ==
            IF ~IsHeader(file, i) THEN <<>>
            ELSE <<SubSeq(file, i + 2, End(i))>> \o from[End(i) + 1]
    IN  IF file = <<>> THEN <<>> ELSE from[2]

-----------------------------------------------------------------------------
Blocks == {GlobalHeader}
          \cup [part : {"header"}, packet : 1 .. MaxWritten, half : {1, 2}, incl_len : 0 .. SnapLength]
          \cup [part : {"data"}, packet : 1 .. MaxWritten, at : 1 .. SnapLength]

CaptureFileTypes ==
    /\ stored \in Seq(Blocks)
    /\ buffer \in Seq(Blocks)
    /\ Len(buffer) <= BufferSize
    /\ writer \in {"closed", "open", "header", "spilled"}
    /\ lengths \in Seq(DataLengths)
    /\ flushed \in Seq(1 .. MaxWritten)
    /\ opened \in 0 .. MaxOpened

\* Packets whose header is in the file, but whose data the writer never wrote.
TornPackets == {stored[i].packet : i \in {j \in DOMAIN stored : stored[j].part = "header"}}
               \ {flushed[k] : k \in DOMAIN flushed}

\* However often the writer is killed and the file opened again, what was
\* flushed before the first packet that was torn is read back, in order and up
\* to its snap length; without one, nothing else is read (pcap.py 355-425).
LogReadsBack ==
    LET read == PacketsOf(stored) IN
    /\ \A k \in DOMAIN flushed :
          (\A t \in TornPackets : flushed[k] < t)
             => k <= Len(read) /\ read[k] = Data(flushed[k], lengths[flushed[k]])
    /\ TornPackets = {} => Len(read) = Len(flushed)
=============================================================================
