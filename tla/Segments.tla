------------------------------ MODULE Segments ------------------------------
(***************************************************************************)
(* ait/core/pcap.py, PCapRolloverStream: packets are written to files that *)
(* are named after the second at which they begin, and a file is closed    *)
(* once it has so many bytes, packets or seconds.  segment() copies        *)
(* capture files that way; times() lists the ranges of time in a file.     *)
(***************************************************************************)
EXTENDS Integers, Sequences, FiniteSets

CONSTANTS NoLimit,         \* a threshold that is not given
          NoFile,
          Thresholds,      \* the thresholds segment() may be called with
          PacketLengths,
          Tolerance,       \* of times(), in half seconds
          MaxTime,         \* bound: the last time stamp, in half seconds
          MaxGiven         \* bound: packets

Limit == Nat \cup {NoLimit}

ASSUME SegmentsAssumption ==
    /\ Thresholds \subseteq [nbytes : Limit, npackets : Limit, nseconds : Limit \ {0}]
    /\ NoLimit \notin Nat
    /\ NoFile \notin Int
    /\ PacketLengths \subseteq Nat
    /\ Tolerance \in Nat
    /\ MaxTime \in Nat
    /\ MaxGiven \in Nat

VARIABLES threshold,   \* _threshold
          given,       \* the packets given to write()
          files,       \* the contents of each file, as numbers of packets
          current,     \* the name of the open file
          total,       \* _total
          segmenting   \* segment() has not closed the stream

segmentVars == <<threshold, given, files, current, total, segmenting>>

GlobalHeaderSize == 24
PacketHeaderSize == 16

Nothing == [nbytes |-> 0, npackets |-> 0, ticks |-> 0]

\* A file is named after a second.
FileNames == 0 .. MaxTime \div 2

SegmentsInit == /\ threshold \in Thresholds
                /\ given = <<>>
                /\ files = [f \in FileNames |-> <<>>]
                /\ current = NoFile
                /\ total = Nothing
                /\ segmenting = TRUE

-----------------------------------------------------------------------------
Reached(value, limit) == limit # NoLimit /\ value >= limit

\* Half seconds are rounded up to seconds.
rollover(t) == \/ Reached(t.nbytes, threshold.nbytes)
               \/ Reached(t.npackets, threshold.npackets)
               \/ Reached((t.ticks + 1) \div 2, threshold.nseconds)

\* The second of the first packet, rounded down to a multiple of nseconds.
startTime(ts) == IF threshold.nseconds = NoLimit
                 THEN ts \div 2
                 ELSE ts \div 2 - (ts % (2 * threshold.nseconds)) \div 2

\* mutated: close() keeps the totals
WriteOntoTotals(ts, len) ==
    /\ segmenting
    /\ Len(given) < MaxGiven
    /\ LET opens == current = NoFile
           name == IF opens THEN startTime(ts) ELSE current
           before == [total EXCEPT !.nbytes = IF opens THEN @ + GlobalHeaderSize ELSE @]
           after == [nbytes |-> before.nbytes + PacketHeaderSize + len,
                     npackets |-> before.npackets + 1,
                     ticks |-> ts - 2 * name] IN
       /\ given' = Append(given, [ts |-> ts, len |-> len])
       /\ files' = [files EXCEPT ![name] = Append(IF opens THEN <<>> ELSE @, Len(given'))]
       /\ total' = after
       /\ current' = IF rollover(after) THEN NoFile ELSE name
    /\ UNCHANGED <<threshold, segmenting>>

\* A file is opened if there is none, whatever is there of that name is lost;
\* the packet is written, then the file is closed if it has reached a threshold.
WritePacket(ts, len) ==
    /\ segmenting
    /\ Len(given) < MaxGiven
    /\ LET opens == current = NoFile
           name == IF opens THEN startTime(ts) ELSE current
           before == [total EXCEPT !.nbytes = IF opens THEN @ + GlobalHeaderSize ELSE @]
           after == [nbytes |-> before.nbytes + PacketHeaderSize + len,
                     npackets |-> before.npackets + 1,
                     ticks |-> ts - 2 * name] IN
       /\ given' = Append(given, [ts |-> ts, len |-> len])
       /\ files' = [files EXCEPT ![name] = Append(IF opens THEN <<>> ELSE @, Len(given'))]
       /\ total' = IF rollover(after) THEN Nothing ELSE after
       /\ current' = IF rollover(after) THEN NoFile ELSE name
    /\ UNCHANGED <<threshold, segmenting>>

\* segment() is through.
CloseStream == /\ segmenting
               /\ segmenting' = FALSE
               /\ current' = NoFile
               /\ total' = Nothing
               /\ UNCHANGED <<threshold, given, files>>

SegmentsNext == \/ \E ts \in 0 .. MaxTime, len \in PacketLengths : WritePacket(ts, len)
                \/ CloseStream

SegmentsSpec == SegmentsInit /\ [][SegmentsNext]_segmentVars

-----------------------------------------------------------------------------
(* times() of one file, from the time stamps of its packets.               *)

\* The ranges that are done and the one that x is in, or begins.
Prolonged(range, x) ==
    IF x - range.stop > Tolerance
    THEN [done |-> Append(range.done, <<range.start, range.stop>>), start |-> x, stop |-> x]
    ELSE [range EXCEPT !.stop = x]

Ranges(q) ==
    LET range[i \in 1 .. Len(q)] == IF i = 1 THEN [done |-> <<>>, start |-> q[1], stop |-> q[1]]
                                    ELSE Prolonged(range[i - 1], q[i])
    IN  range

\* mutated: a range is open until a gap closes it
RangesUnclosed(q) == Ranges(q)[Len(q)].done

times(q) == LET last == Ranges(q)[Len(q)] IN Append(last.done, <<last.start, last.stop>>)

-----------------------------------------------------------------------------
SegmentsTypes == /\ threshold \in Thresholds
                 /\ given \in Seq([ts : 0 .. MaxTime, len : PacketLengths])
                 /\ files \in [FileNames -> Seq(1 .. MaxGiven)]
                 /\ current \in FileNames \cup {NoFile}
                 /\ total.nbytes \in Nat /\ total.npackets \in Nat /\ total.ticks \in Int
                 /\ segmenting \in BOOLEAN

\* What the first k packets of file f come to.
Extent(f, k) ==
    LET bytes[i \in 0 .. k] == IF i = 0 THEN GlobalHeaderSize
                               ELSE bytes[i - 1] + PacketHeaderSize + given[files[f][i]].len
    IN  [nbytes |-> bytes[k], npackets |-> k, ticks |-> given[files[f][k]].ts - 2 * f]

\* A file holds consecutive packets; all but the last of them do not reach a
\* threshold, and a file that is left for another one has reached one.  If no
\* two packets could begin a file of the same name, every packet is in a file
\* (pcap.py 258-340).  The packet that reaches a threshold is thus the last of
\* its file, as the parameters say ("Rollover after", 242-245) and the code does,
\* which writes it (306-309) before it closes (313-314); by the text above them
\* (216-220, 239-240) it would be the first of the next file.
SegmentsAsAsked ==
    /\ \A f \in FileNames :
          LET n == Len(files[f]) IN
          n > 0 =>
             /\ \A i \in 1 .. n - 1 : /\ files[f][i + 1] = files[f][i] + 1
                                      /\ ~rollover(Extent(f, i))
             /\ files[f][n] < Len(given) => rollover(Extent(f, n))
    /\ (\A i, j \in DOMAIN given : i # j => startTime(given[i].ts) # startTime(given[j].ts))
          => DOMAIN given = UNION {{files[f][k] : k \in DOMAIN files[f]} : f \in FileNames}

StampsOf(f) == [i \in DOMAIN files[f] |-> given[files[f][i]].ts]

\* Where ranges are to begin, how many have until i, and that one is from i to j.
RangeStarts(q) == {i \in DOMAIN q : i = 1 \/ q[i] - q[i - 1] > Tolerance}
BegunUntil(q, i) == Cardinality({b \in RangeStarts(q) : b <= i})
IsRange(q, i, j) == /\ i \in RangeStarts(q)
                    /\ \A k \in i + 1 .. j : k \notin RangeStarts(q)
                    /\ j = Len(q) \/ j + 1 \in RangeStarts(q)

\* times() reports a new range where the time stamps leave a gap that exceeds
\* the tolerance and nowhere else, in order (530-559).
TimesTellGaps ==
    \A f \in FileNames :
       LET q == StampsOf(f) IN
       q # <<>> => /\ Len(times(q)) = BegunUntil(q, Len(q))
                   /\ \A i \in DOMAIN q : \A j \in i .. Len(q) :
                         IsRange(q, i, j) => times(q)[BegunUntil(q, i)] = <<q[i], q[j]>>
=============================================================================
