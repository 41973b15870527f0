----------------------------- MODULE FileProofs -----------------------------
(***************************************************************************)
(* Theorems about what is kept in files: sequences of commands, the table  *)
(* of leap seconds, captured packets, the packet archive, and tables.      *)
(***************************************************************************)
EXTENDS SequenceFile, LeapSeconds, Segments, CaptureFile, PacketArchive, Tables, Lemmas,
        SequenceTheorems, FiniteSetTheorems, TLAPS

-----------------------------------------------------------------------------
(* Sequences of commands.                                                  *)

LineSet == [command : CommandNames, delay : Nat, whole : BOOLEAN]
BinarySet == [header : BOOLEAN, ncmds : Nat, commands : Seq(LineSet), crc : {"zero", "right"}]

SequenceSorts == /\ lines \in Seq(LineSet)
                 /\ output \in Seq(LineSet)
                 /\ txt \in Seq(LineSet)
                 /\ begun \in Seq(LineSet)
                 /\ bin \in BinarySet

\* The delays in the files are what their formats can hold.
InMilliseconds(q) == \A i \in DOMAIN q : q[i].delay % Millisecond = 0
InFractions(q) == \A i \in DOMAIN q : q[i].delay % Fraction = 0

\* The first n lines of q convey those of s: a delay loses at most a fraction.
Conveys(q, s, n) == \A i \in 1 .. n : /\ q[i].command = s[i].command
                                      /\ s[i].delay - q[i].delay \in 0 .. Fraction

\* A file with a header has some of the commands the last write was given, and one with a
\* checksum has them all.
Holds(file, s) == /\ file.header => /\ file.ncmds = Len(s)
                                   /\ Len(file.commands) <= Len(s)
                                   /\ Conveys(file.commands, s, Len(file.commands))
                  /\ file.crc = "right" => file.header /\ Len(file.commands) = Len(s)

\* What is in the file, by how far write_binary() has come.
WriteInv == /\ tool \in {"writing", "checking"} => begun = lines /\ Conveys(output, lines, Len(output))
            /\ tool = "writing" => bin = NoBinary
            /\ tool = "checking" => bin = Written /\ Len(output) = Len(lines)
            /\ Holds(bin, begun)

NothingOpen == tool = "none" => lines = <<>> /\ output = <<>>

SequenceInv == /\ SequenceSorts
               /\ SequenceTypes
               /\ InFractions(output)
               /\ NothingOpen
               /\ WriteInv

LEMMA LineType ==
    ASSUME NEW c \in CommandNames, NEW d \in Nat, NEW w \in BOOLEAN
    PROVE  /\ Line(c, d, w) \in LineSet
           /\ Line(c, d, w).command = c
           /\ Line(c, d, w).delay = d
           /\ Line(c, d, w).whole = w
  BY DEF Line, LineSet

LEMMA TextLineType ==
    /\ TextLines \subseteq LineSet
    /\ \A line \in TextLines : line.delay % Millisecond = 0
  <1>1. ASSUME NEW c \in CommandNames, NEW t \in Milliseconds
        PROVE  /\ Line(c, t * Millisecond, TRUE) \in LineSet
               /\ Line(c, t * Millisecond, TRUE).delay % Millisecond = 0
    <2>1. t \in Nat
      BY SequenceFileAssumption
    <2>2. t * Millisecond \in Nat /\ (t * Millisecond) % Millisecond = 0
      BY <2>1 DEF Millisecond
    <2> QED
      BY <2>2, LineType
  <1>2. ASSUME NEW line \in TextLines
        PROVE  line \in LineSet /\ line.delay % Millisecond = 0
    <2>1. PICK c \in CommandNames, t \in Milliseconds : line = Line(c, t * Millisecond, TRUE)
      BY DEF TextLines, Line
    <2> QED
      BY <1>1, <2>1
  <1> QED
    BY <1>2

\* Rounded down, or to the fraction below when it was one.
LEMMA EncodingLoses ==
    ASSUME NEW delay \in Nat, NEW d \in Encodings(delay)
    PROVE  /\ d \in Nat
           /\ d % Fraction = 0
           /\ delay - d \in 0 .. Fraction
  <1> DEFINE q == delay \div Fraction
  <1>1. q \in Nat /\ delay - q * 200 \in 0 .. 199
    BY DEF Fraction
  <1>2. (q * 200) % 200 = 0 /\ (q > 0 => (q * 200 - 200) % 200 = 0)
    BY <1>1
  <1>3. delay % Second # 0 => delay # 0
    BY DEF Second, Fraction
  <1>4. CASE d = q * 200
    BY <1>1, <1>2, <1>4 DEF Fraction
  <1>5. CASE d = q * 200 - 200 /\ q * 200 = delay /\ delay # 0
    <2>1. q > 0
      BY <1>1, <1>5
    <2> QED
      BY <1>1, <1>2, <1>5, <2>1 DEF Fraction
  <1>6. d = q * 200 \/ (d = q * 200 - 200 /\ q * 200 = delay /\ delay # 0)
    BY <1>3 DEF Encodings, Fraction
  <1> QED
    BY <1>4, <1>5, <1>6

LEMMA InTextType ==
    ASSUME NEW line \in LineSet
    PROVE  InText(line) \in LineSet /\ InText(line).delay % Millisecond = 0
  <1> DEFINE n == (line.delay + Millisecond \div 2) \div Millisecond
  <1>1. n \in Nat
    BY DEF LineSet, Millisecond
  <1>2. n * Millisecond \in Nat /\ (n * Millisecond) % Millisecond = 0
    BY <1>1 DEF Millisecond
  <1>3. InText(line) = [line EXCEPT !.delay = n * Millisecond]
    BY DEF InText
  <1> HIDE DEF n
  <1> QED
    BY <1>2, <1>3 DEF LineSet

LEMMA ConcatHas ==
    ASSUME NEW S, NEW p \in Seq(S), NEW q \in Seq(S)
    PROVE  /\ p \o q \in Seq(S)
           /\ Len(p \o q) = Len(p) + Len(q)
  BY ConcatProperties

LEMMA PrefixHas ==
    ASSUME NEW S, NEW q \in Seq(S), NEW n \in 0 .. Len(q)
    PROVE  /\ SubSeq(q, 1, n) \in Seq(S)
           /\ Len(SubSeq(q, 1, n)) = n
           /\ \A i \in 1 .. n : SubSeq(q, 1, n)[i] = q[i]
  <1>1. Len(q) \in Nat /\ DOMAIN q = 1 .. Len(q)
    BY LenProperties
  <1> QED
    BY <1>1, SubSeqProperties
LEMMA AsTextType ==
    ASSUME SequenceSorts
    PROVE  AsText \in Seq(LineSet) /\ InMilliseconds(AsText)
  <1>1. Len(lines) \in Nat /\ DOMAIN lines = 1 .. Len(lines)
        /\ \A i \in DOMAIN lines : lines[i] \in LineSet
    BY ElementOfSeq, LenProperties DEF SequenceSorts
  <1>2. \A i \in DOMAIN lines : /\ InText(lines[i]) \in LineSet
                                /\ InText(lines[i]).delay % Millisecond = 0
    BY <1>1, InTextType
  <1>3. AsText \in [1 .. Len(lines) -> LineSet]
    BY <1>1, <1>2 DEF AsText
  <1>4. AsText \in Seq(LineSet)
    BY <1>1, <1>3, IsASeq
  <1> QED
    BY <1>1, <1>2, <1>4 DEF AsText, InMilliseconds

LEMMA SequenceStarts == SequenceInit => SequenceInv
  <1> SUFFICES ASSUME SequenceInit PROVE SequenceInv
    OBVIOUS
  <1>1. txt \in Seq(LineSet) /\ InMilliseconds(txt)
    <2>1. PICK m \in 0 .. MaxLines : txt \in [1 .. m -> TextLines]
      BY DEF SequenceInit, SeqOf
    <2>2. txt \in Seq(LineSet) /\ DOMAIN txt = 1 .. m
      BY <2>1, TextLineType, IsASeq
    <2> QED
      BY <2>1, <2>2, TextLineType DEF InMilliseconds
  <1>2. <<>> \in Seq(LineSet) /\ Len(<<>>) = 0
    BY EmptySeq
  <1>3. NoBinary \in BinarySet
    BY <1>2 DEF NoBinary, BinarySet
  <1>4. bin = NoBinary /\ bin.commands = <<>> /\ ~bin.header /\ bin.crc = "zero"
    BY DEF SequenceInit, NoBinary
  <1>5. SequenceSorts
    BY <1>1, <1>2, <1>3 DEF SequenceInit, SequenceSorts
  <1>6. SequenceTypes
    BY <1>1, <1>2, <1>4, SequenceFileAssumption DEF SequenceInit, SequenceTypes, InMilliseconds
  <1>7. WriteInv
    BY <1>4 DEF SequenceInit, WriteInv, Holds
  <1>8. InFractions(output)
    BY <1>2 DEF SequenceInit, InFractions
  <1> QED
    BY <1>5, <1>6, <1>7, <1>8 DEF SequenceInv, SequenceInit, NothingOpen

\* Only the steps of write_binary() and a crash touch the binary file.
LEMMA OthersKeepSequenceInv ==
    ASSUME SequenceInv, UNCHANGED <<bin, output, begun, writes>>,
           lines' \in Seq(LineSet), Len(output) <= Len(lines'), Len(lines') <= MaxLines,
           txt' \in Seq(LineSet), InMilliseconds(txt'),
           crc32' \in {"None", "zero", "right"}, tool' = "idle"
    PROVE  SequenceInv'
  <1>1. SequenceSorts'
    BY DEF SequenceInv, SequenceSorts
  <1>2. SequenceTypes'
    BY DEF SequenceInv, SequenceTypes, InMilliseconds
  <1>3. WriteInv'
    BY DEF SequenceInv, WriteInv
  <1>4. InFractions(output)'
    BY DEF SequenceInv, InFractions
  <1> QED
    BY <1>1, <1>2, <1>3, <1>4 DEF SequenceInv, NothingOpen

\* What comes out of the slots are lines.
LEMMA ReadingType ==
    ASSUME SequenceSorts, NEW n \in Nat, NEW read \in Readings(bin, n)
    PROVE  read \in Seq(LineSet) /\ Len(read) = n
  <1>1. bin.commands \in Seq(LineSet)
    BY DEF SequenceSorts, BinarySet
  <1>2. Range(bin.commands) \subseteq LineSet
    BY <1>1, ElementOfSeq, LenProperties DEF Range
  <1>3. Strays \subseteq LineSet
    <2>1. ASSUME NEW c \in CommandsKnown, NEW f \in StrayFractions
          PROVE  Line(c, f * Fraction, TRUE) \in LineSet
      <3>1. c \in CommandNames /\ f \in Nat /\ f * Fraction \in Nat
        BY SequenceFileAssumption DEF Fraction
      <3> QED
        BY <3>1, LineType
    <2>2. ASSUME NEW line \in Strays PROVE line \in LineSet
      <3>1. PICK s \in CommandsKnown \X StrayFractions : line = Line(s[1], s[2] * Fraction, TRUE)
        BY Zenon DEF Strays
      <3>2. s[1] \in CommandsKnown /\ s[2] \in StrayFractions
        OBVIOUS
      <3> QED
        BY <2>1, <3>1, <3>2, Zenon
    <2> QED
      BY <2>2
  <1>4. read \in [1 .. n -> Range(bin.commands) \cup Strays]
    BY DEF Readings
  <1>5. read \in [1 .. n -> LineSet]
    BY <1>2, <1>3, <1>4
  <1>6. read \in Seq(LineSet) /\ DOMAIN read = 1 .. n
    BY <1>5, IsASeq
  <1> QED
    BY <1>6, LenProperties

LEMMA ReadKeepsSequenceInv ==
    SequenceInv /\ (ReadText \/ ReadBinary \/ ReadRaises) => SequenceInv'
  <1> SUFFICES ASSUME SequenceInv, ReadText \/ ReadBinary \/ ReadRaises
               PROVE  SequenceInv'
    OBVIOUS
  <1>1. /\ SequenceSorts
        /\ Len(output) \in Nat /\ Len(lines) \in Nat
        /\ Len(output) <= Len(lines)
        /\ crc32 \in {"None", "zero", "right"}
        /\ bin.crc \in {"None", "zero", "right"}
        /\ bin.commands \in Seq(LineSet)
        /\ InMilliseconds(txt)
        /\ MaxLines \in Nat
    BY LenProperties, SequenceFileAssumption
       DEF SequenceInv, SequenceSorts, SequenceTypes, BinarySet, InMilliseconds
  <1>2. ASSUME NEW q \in Seq(LineSet), Between, tool' = "idle",
               Len(Before \o q) <= MaxLines, lines' = Before \o q,
               UNCHANGED <<bin, output, begun, writes, txt>>,
               crc32' \in {"None", "zero", "right"}
        PROVE  SequenceInv'
    <2>1. CASE tool = "idle"
      <3>1. Before = lines
        BY <2>1 DEF Before
      <3>2. /\ lines \o q \in Seq(LineSet)
            /\ Len(lines \o q) = Len(lines) + Len(q) /\ Len(q) \in Nat
        BY <1>1, ConcatHas, LenProperties DEF SequenceSorts
      <3>3. Len(output) <= Len(lines')
        BY <1>1, <1>2, <3>1, <3>2
      <3> QED
        BY <1>1, <1>2, <3>1, <3>2, <3>3, OthersKeepSequenceInv DEF SequenceSorts
    <2>2. CASE tool = "none"
      <3>1. Before = <<>>
        BY <2>2 DEF Before
      <3>2. <<>> \o q = q
        BY ConcatEmptySeq
      <3>3. Len(output) = 0
        BY <2>2 DEF SequenceInv, NothingOpen
      <3>4. Len(q) \in Nat
        BY LenProperties
      <3> QED
        BY <1>1, <1>2, <3>1, <3>2, <3>3, <3>4, OthersKeepSequenceInv DEF SequenceSorts
    <2> QED
      BY <1>2, <2>1, <2>2 DEF Between
  <1>3. CASE ReadText
    BY <1>1, <1>2, <1>3 DEF ReadText, SequenceSorts
  <1>4. CASE ReadBinary
    <2>1. bin.ncmds \in Nat
      BY <1>1 DEF SequenceSorts, BinarySet
    <2>2. PICK read \in Readings(bin, bin.ncmds) : /\ Len(Before \o read) <= MaxLines
                                                  /\ lines' = Before \o read
      BY <1>4 DEF ReadBinary
    <2>3. read \in Seq(LineSet)
      BY <1>1, <2>1, ReadingType
    <2> QED
      BY <1>1, <1>2, <1>4, <2>2, <2>3 DEF ReadBinary
  <1>5. CASE ReadRaises
    <2>1. /\ tool = "idle" /\ tool' = "idle" /\ Between /\ Before = lines
          /\ UNCHANGED <<bin, output, begun, writes, txt>>
      BY <1>5 DEF ReadRaises, Between, Before
    <2>2. ASSUME NEW n \in 0 .. bin.ncmds - 1, NEW read \in Readings(bin, n),
                 Len(lines \o read) <= MaxLines,
                 lines' = lines \o read,
                 crc32' = bin.crc
          PROVE  SequenceInv'
      <3>1. n \in Nat
        BY <1>1 DEF SequenceSorts, BinarySet
      <3>2. read \in Seq(LineSet)
        BY <1>1, <3>1, ReadingType
      <3> QED
        BY <1>1, <1>2, <2>1, <2>2, <3>2
    <2>3. ASSUME NEW n \in DOMAIN txt,
                 Len(lines) + n <= MaxLines,
                 lines' = lines \o SubSeq(txt, 1, n - 1),
                 UNCHANGED crc32
          PROVE  SequenceInv'
      <3>1. n \in 1 .. Len(txt) /\ Len(txt) \in Nat /\ n - 1 \in 0 .. Len(txt)
        BY <1>1, LenProperties DEF SequenceSorts
      <3>2. /\ SubSeq(txt, 1, n - 1) \in Seq(LineSet)
            /\ Len(SubSeq(txt, 1, n - 1)) = n - 1
        BY <1>1, <3>1, PrefixHas DEF SequenceSorts
      <3>3. Len(lines \o SubSeq(txt, 1, n - 1)) = Len(lines) + (n - 1)
        BY <1>1, <3>2, ConcatHas DEF SequenceSorts
      <3>4. Len(lines \o SubSeq(txt, 1, n - 1)) <= MaxLines
        BY <1>1, <2>3, <3>1, <3>3
      <3> QED
        BY <1>1, <1>2, <2>1, <2>3, <3>2, <3>4
    <2> QED
      BY <1>5, <2>2, <2>3 DEF ReadRaises
  <1> QED
    BY <1>3, <1>4, <1>5

LEMMA AppendKeepsSequenceInv ==
    ASSUME SequenceInv, NEW line \in TextLines, NEW w \in BOOLEAN,
           AppendLine(line.command, line.delay, w)
    PROVE  SequenceInv'
  <1>1. Line(line.command, line.delay, w) \in LineSet
    BY TextLineType, LineType DEF LineSet
  <1>2. lines \in Seq(LineSet) /\ Len(lines) \in Nat /\ Len(output) \in Nat /\ MaxLines \in Nat
    BY LenProperties, SequenceFileAssumption DEF SequenceInv, SequenceSorts
  <1>3. lines' \in Seq(LineSet) /\ Len(lines') = Len(lines) + 1
    BY <1>1, <1>2, AppendProperties DEF AppendLine
  <1>4. Len(output) <= Len(lines') /\ Len(lines') <= MaxLines
    BY <1>2, <1>3 DEF AppendLine, SequenceInv, SequenceTypes
  <1> QED
    BY <1>3, <1>4, OthersKeepSequenceInv
       DEF AppendLine, SequenceInv, SequenceSorts, SequenceTypes, InMilliseconds

LEMMA TextKeepsSequenceInv ==
    SequenceInv /\ (WriteText \/ WriteTextRaises) => SequenceInv'
  <1> SUFFICES ASSUME SequenceInv, WriteText \/ WriteTextRaises PROVE SequenceInv'
    OBVIOUS
  <1>1. txt' \in Seq(LineSet) /\ InMilliseconds(txt')
    <2>1. CASE WriteText
      BY <2>1, AsTextType DEF WriteText, SequenceInv
    <2>2. CASE WriteTextRaises
      BY <2>2, EmptySeq DEF WriteTextRaises, InMilliseconds
    <2> QED
      BY <2>1, <2>2
  <1> QED
    BY <1>1, OthersKeepSequenceInv
       DEF WriteText, WriteTextRaises, SequenceInv, SequenceSorts, SequenceTypes
LEMMA WriteBeginsKeepsSequenceInv == SequenceInv /\ WriteBinary => SequenceInv'
  <1> SUFFICES ASSUME SequenceInv, WriteBinary PROVE SequenceInv'
    OBVIOUS
  <1>1. /\ begun' = lines /\ output' = <<>> /\ bin' = NoBinary /\ tool' = "writing"
        /\ writes' \in 0 .. MaxWrites
        /\ UNCHANGED <<lines, crc32, txt>>
    BY SequenceFileAssumption DEF WriteBinary, SequenceInv, SequenceTypes
  <1>2. <<>> \in Seq(LineSet) /\ Len(<<>>) = 0
    BY EmptySeq
  <1>3. /\ NoBinary \in BinarySet /\ NoBinary.commands = <<>> /\ NoBinary.crc = "zero"
        /\ ~NoBinary.header
    BY <1>2 DEF NoBinary, BinarySet
  <1>4. SequenceSorts'
    BY <1>1, <1>2, <1>3 DEF SequenceInv, SequenceSorts
  <1>5. SequenceTypes'
    BY <1>1, <1>2, <1>3, LenProperties DEF SequenceInv, SequenceSorts, SequenceTypes
  <1>6. InFractions(output')
    BY <1>1 DEF InFractions
  <1>7. WriteInv'
    BY <1>1, <1>2, <1>3 DEF WriteInv, Conveys, Holds
  <1> QED
    BY <1>1, <1>4, <1>5, <1>6, <1>7 DEF SequenceInv, NothingOpen

LEMMA EncodeKeepsSequenceInv == SequenceInv /\ EncodeLine => SequenceInv'
  <1> SUFFICES ASSUME SequenceInv, EncodeLine PROVE SequenceInv'
    OBVIOUS
  <1> DEFINE n == Len(output)
             line == lines[n + 1]
  <1>1. /\ tool = "writing" /\ n < Len(lines)
        /\ UNCHANGED <<lines, crc32, tool, bin, txt, writes, begun>>
        /\ output \in Seq(LineSet) /\ lines \in Seq(LineSet)
    BY DEF EncodeLine, SequenceInv, SequenceSorts
  <1>2. n \in Nat /\ Len(lines) \in Nat /\ n + 1 \in 1 .. Len(lines) /\ line \in LineSet
    BY <1>1, LenProperties, ElementOfSeq
  <1>3. PICK d \in Encodings(line.delay) : output' = Append(output, Line(line.command, d, TRUE))
    BY DEF EncodeLine
  <1>4. d \in Nat /\ d % Fraction = 0 /\ line.delay - d \in 0 .. Fraction
    BY <1>2, <1>3, EncodingLoses DEF LineSet
  <1> DEFINE new == Line(line.command, d, TRUE)
  <1>5. /\ new \in LineSet /\ new.command = line.command /\ new.delay = d
    BY ZenonT(60), <1>2, <1>4, LineType DEF LineSet
  <1> HIDE DEF new
  <1>6. /\ output' \in Seq(LineSet) /\ Len(output') = n + 1
        /\ \A i \in 1 .. n : output'[i] = output[i]
        /\ output'[n + 1] = new
    <2>1. output' = Append(output, new)
      BY <1>3 DEF new
    <2> QED
      BY <1>1, <1>5, <2>1, AppendProperties
  <1> HIDE DEF line
  <1>7. SequenceSorts'
    BY <1>1, <1>6 DEF SequenceInv, SequenceSorts
  <1>8. SequenceTypes'
    BY <1>1, <1>2, <1>6 DEF SequenceInv, SequenceTypes
  <1>9. InFractions(output')
    <2>1. DOMAIN output' = 1 .. n + 1 /\ DOMAIN output = 1 .. n
      BY <1>1, <1>6, LenProperties
    <2>2. ASSUME NEW i \in 1 .. n + 1 PROVE output'[i].delay % Fraction = 0
      <3>1. CASE i = n + 1
        BY <1>4, <1>5, <1>6, <3>1
      <3>2. CASE i # n + 1
        BY <1>2, <1>6, <2>1, <3>2 DEF SequenceInv, InFractions
      <3> QED
        BY <3>1, <3>2
    <2> QED
      BY <2>1, <2>2 DEF InFractions
  <1>10. Conveys(output', lines, n + 1)
    <2>1. ASSUME NEW i \in 1 .. n + 1
          PROVE  /\ output'[i].command = lines[i].command
                 /\ lines[i].delay - output'[i].delay \in 0 .. Fraction
      <3>1. CASE i = n + 1
        BY <1>4, <1>5, <1>6, <3>1 DEF line
      <3>2. CASE i # n + 1
        <4>1. i \in 1 .. n
          BY <1>2, <3>2
        <4>2. Conveys(output, lines, n)
          BY <1>1 DEF SequenceInv, WriteInv
        <4> QED
          BY <1>6, <4>1, <4>2 DEF Conveys
      <3> QED
        BY <3>1, <3>2
    <2> QED
      BY <2>1 DEF Conveys
  <1>11. WriteInv'
    BY <1>1, <1>6, <1>10 DEF SequenceInv, WriteInv
  <1> QED
    BY <1>1, <1>7, <1>8, <1>9, <1>11 DEF SequenceInv, NothingOpen

\* What write_binary() leaves in the file is what it has written.
LEMMA WrittenHas ==
    ASSUME SequenceInv
    PROVE  /\ Written \in BinarySet
           /\ Written.crc = "zero"
           /\ Written.commands = output
           /\ Written.header
           /\ Written.ncmds = Len(lines)
  BY LenProperties DEF SequenceInv, SequenceSorts, Written, BinarySet

LEMMA CloseKeepsSequenceInv ==
    SequenceInv /\ (LineRaises \/ CloseBinary) => SequenceInv'
  <1> SUFFICES ASSUME SequenceInv, LineRaises \/ CloseBinary PROVE SequenceInv'
    OBVIOUS
  <1>1. /\ tool = "writing" /\ bin' = Written
        /\ UNCHANGED <<lines, crc32, output, txt, writes, begun>>
        /\ tool' \in {"idle", "checking"}
        /\ tool' = "checking" => Len(output) = Len(lines)
    BY DEF LineRaises, CloseBinary
  <1>2. /\ Written \in BinarySet /\ Written.crc = "zero" /\ Written.commands = output
        /\ Written.header /\ Written.ncmds = Len(lines)
    BY WrittenHas
  <1>3. begun = lines /\ Conveys(output, lines, Len(output))
    BY <1>1 DEF SequenceInv, WriteInv
  <1>4. Written' = Written
    BY <1>1 DEF Written
  <1>5. WriteInv'
    <2>1. Len(output) <= Len(lines)
      BY DEF SequenceInv, SequenceTypes
    <2>2. Holds(bin, begun)'
      BY <1>1, <1>2, <1>3, <2>1 DEF Holds
    <2> QED
      BY <1>1, <1>2, <1>3, <1>4, <2>2 DEF WriteInv
  <1>6. SequenceTypes'
    BY <1>1, <1>2 DEF SequenceInv, SequenceTypes, InFractions
  <1>7. SequenceSorts'
    BY <1>1, <1>2 DEF SequenceInv, SequenceSorts
  <1> QED
    BY <1>1, <1>5, <1>6, <1>7 DEF SequenceInv, InFractions, NothingOpen

LEMMA FillKeepsSequenceInv == SequenceInv /\ FillChecksum => SequenceInv'
  <1> SUFFICES ASSUME SequenceInv, FillChecksum PROVE SequenceInv'
    OBVIOUS
  <1>1. /\ tool = "checking" /\ tool' = "idle" /\ crc32' = "right"
        /\ bin' = [bin EXCEPT !.crc = "right"]
        /\ UNCHANGED <<lines, output, txt, writes, begun>>
    BY DEF FillChecksum
  <1>2. /\ bin = Written /\ Len(output) = Len(lines)
        /\ bin.header /\ begun = lines /\ bin.commands = output
        /\ Holds(bin, begun)
    BY <1>1, WrittenHas DEF SequenceInv, WriteInv
  <1>3. /\ bin' \in BinarySet /\ bin'.crc = "right" /\ bin'.commands = bin.commands
        /\ bin'.header /\ bin'.ncmds = bin.ncmds
    BY <1>1, <1>2 DEF SequenceInv, SequenceSorts, BinarySet
  <1>4. SequenceTypes'
    BY <1>1, <1>3 DEF SequenceInv, SequenceTypes
  <1>5. WriteInv'
    BY <1>1, <1>2, <1>3 DEF SequenceInv, WriteInv, Holds
  <1> QED
    BY <1>1, <1>3, <1>4, <1>5 DEF SequenceInv, SequenceSorts, InFractions, NothingOpen

\* Killed while it writes, the file has the first of the commands.
LEMMA EndsKeepsSequenceInv == SequenceInv /\ ToolEnds => SequenceInv'
  <1> SUFFICES ASSUME SequenceInv, ToolEnds PROVE SequenceInv'
    OBVIOUS
  <1>1. /\ tool' = "none" /\ lines' = <<>> /\ crc32' = "None" /\ output' = <<>>
        /\ UNCHANGED <<writes, begun>>
    BY DEF ToolEnds
  <1>2. /\ <<>> \in Seq(LineSet) /\ Len(<<>>) = 0
        /\ output \in Seq(LineSet) /\ lines \in Seq(LineSet)
        /\ Len(output) \in Nat /\ Len(lines) \in Nat /\ MaxLines \in Nat
        /\ DOMAIN output = 1 .. Len(output)
    BY EmptySeq, LenProperties, SequenceFileAssumption DEF SequenceInv, SequenceSorts
  <1>3. txt' \in Seq(LineSet) /\ InMilliseconds(txt')
    <2>1. CASE UNCHANGED txt
      BY <2>1 DEF SequenceInv, SequenceSorts, SequenceTypes, InMilliseconds
    <2>2. ASSUME NEW n \in 0 .. Len(lines), txt' = SubSeq(AsText, 1, n)
          PROVE  txt' \in Seq(LineSet) /\ InMilliseconds(txt')
      <3>1. AsText \in Seq(LineSet) /\ InMilliseconds(AsText)
        BY AsTextType DEF SequenceInv
      <3>2. Len(AsText) = Len(lines) /\ DOMAIN AsText = 1 .. Len(lines)
        BY <1>2, <3>1, LenProperties DEF AsText
      <3>3. /\ txt' \in Seq(LineSet) /\ Len(txt') = n
            /\ \A i \in 1 .. n : txt'[i] = AsText[i]
        BY <2>2, <3>1, <3>2, PrefixHas
      <3>4. DOMAIN txt' = 1 .. n /\ 1 .. n \subseteq 1 .. Len(lines)
        BY <1>2, <3>3, LenProperties
      <3> QED
        BY <3>1, <3>2, <3>3, <3>4 DEF InMilliseconds
    <2> QED
      BY <2>1, <2>2 DEF ToolEnds
  <1>4. /\ bin' \in BinarySet
        /\ InFractions(bin'.commands)
        /\ Holds(bin', begun)
    <2>1. CASE UNCHANGED bin
      BY <2>1 DEF SequenceInv, SequenceSorts, SequenceTypes, WriteInv, InFractions
    <2>2. ASSUME tool = "writing", NEW h \in BOOLEAN,
                 NEW n \in 0 .. Len(output), bin' = Flushed(h, n)
          PROVE  /\ bin' \in BinarySet
                 /\ InFractions(bin'.commands)
                 /\ Holds(bin', begun)
      <3>2. /\ SubSeq(output, 1, n) \in Seq(LineSet)
            /\ Len(SubSeq(output, 1, n)) = n
            /\ \A i \in 1 .. n : SubSeq(output, 1, n)[i] = output[i]
        BY <1>2, PrefixHas
      <3> DEFINE part == SubSeq(output, 1, n)
      <3> HIDE DEF part
      <3>3. bin' = [header |-> h, ncmds |-> Len(lines), commands |-> part, crc |-> "zero"]
        BY <2>2 DEF Flushed, Written, part
      <3>4. /\ bin' \in BinarySet /\ bin'.commands = part /\ bin'.crc = "zero"
            /\ bin'.ncmds = Len(lines)
        BY <1>2, <3>2, <3>3 DEF BinarySet, part
      <3>6. InFractions(part)
        <4>1. DOMAIN part = 1 .. n
          BY <3>2, LenProperties DEF part
        <4>2. \A i \in 1 .. n : i \in 1 .. Len(output) /\ part[i] = output[i]
          BY <1>2, <3>2 DEF part
        <4> QED
          BY <1>2, <4>1, <4>2 DEF SequenceInv, InFractions
      <3>7. begun = lines /\ Conveys(output, lines, Len(output))
        BY <2>2 DEF SequenceInv, WriteInv
      <3>8. Len(part) = n /\ \A k \in 1 .. n : part[k] = output[k] /\ k \in 1 .. Len(output)
        BY <1>2, <3>2 DEF part
      <3>9. Len(part) <= Len(begun) /\ Conveys(part, begun, Len(part))
        <4>1. Len(output) <= Len(lines)
          BY DEF SequenceInv, SequenceTypes
        <4> QED
          BY <1>2, <3>7, <3>8, <4>1 DEF Conveys
      <3>10. Holds(bin', begun)
        BY <3>4, <3>7, <3>9 DEF Holds
      <3> QED
        BY <3>4, <3>6, <3>10
    <2> QED
      BY <2>1, <2>2 DEF ToolEnds
  <1>5. SequenceSorts'
    BY <1>1, <1>2, <1>3, <1>4 DEF SequenceInv, SequenceSorts
  <1>6. SequenceTypes'
    BY <1>1, <1>2, <1>3, <1>4 DEF SequenceInv, SequenceTypes, InMilliseconds, InFractions
  <1>7. WriteInv'
    BY <1>1, <1>4 DEF WriteInv
  <1> QED
    BY <1>1, <1>5, <1>6, <1>7 DEF SequenceInv, InFractions, NothingOpen

LEMMA SequenceStep == SequenceInv /\ [SequenceNext]_sequenceVars => SequenceInv'
  <1> SUFFICES ASSUME SequenceInv, [SequenceNext]_sequenceVars PROVE SequenceInv'
    OBVIOUS
  <1>1. CASE ReadText \/ ReadBinary \/ ReadRaises
    BY <1>1, ReadKeepsSequenceInv
  <1>2. ASSUME NEW line \in TextLines, NEW whole \in BOOLEAN,
               AppendLine(line.command, line.delay, whole)
        PROVE  SequenceInv'
    BY <1>2, AppendKeepsSequenceInv
  <1>3. CASE WriteBinary
    BY <1>3, WriteBeginsKeepsSequenceInv
  <1>4. CASE EncodeLine
    BY <1>4, EncodeKeepsSequenceInv
  <1>5. CASE LineRaises \/ CloseBinary
    BY <1>5, CloseKeepsSequenceInv
  <1>6. CASE FillChecksum
    BY <1>6, FillKeepsSequenceInv
  <1>7. CASE WriteText \/ WriteTextRaises
    BY <1>7, TextKeepsSequenceInv
  <1>8. CASE ToolEnds
    BY <1>8, EndsKeepsSequenceInv
  <1>9. CASE UNCHANGED sequenceVars
    BY <1>9 DEF sequenceVars, SequenceInv, SequenceSorts, SequenceTypes, InFractions,
                NothingOpen, WriteInv, Written
  <1> QED
    BY <1>1, <1>2, <1>3, <1>4, <1>5, <1>6, <1>7, <1>8, <1>9 DEF SequenceNext

\* What is read from a binary file are the commands that the last write was given, each at
\* most 1/255 of a second early and never late, up to the first one that is longer than its
\* slot; and when there is none, a file with its checksum can be read: for texts and delays
\* of any size, whatever raises in write_binary() or read_binary() and wherever the tool is
\* killed.
THEOREM SequencesReadBack == SequenceSpec => []SequenceReadsBack
  <1>1. SequenceInv => SequenceReadsBack
    <2> SUFFICES ASSUME SequenceInv PROVE SequenceReadsBack
      OBVIOUS
    <2>1. /\ bin.commands \in Seq(LineSet) /\ Len(bin.commands) \in Nat
          /\ DOMAIN bin.commands = 1 .. Len(bin.commands)
          /\ Len(begun) \in Nat /\ DOMAIN begun = 1 .. Len(begun)
          /\ Holds(bin, begun)
      BY LenProperties DEF SequenceInv, SequenceSorts, BinarySet, WriteInv
    <2>2. ASSUME NEW read \in Readings(bin, bin.ncmds), NEW i \in DOMAIN begun, Fit(begun, i - 1)
          PROVE  /\ i \in DOMAIN read
                 /\ read[i].command = begun[i].command
                 /\ begun[i].delay - read[i].delay \in 0 .. Fraction
      <3>1. /\ bin.header
            /\ DOMAIN read = 1 .. bin.ncmds
            /\ \A k \in 1 .. bin.ncmds :
                  ~Displaced(bin, k) => k \in DOMAIN bin.commands /\ read[k] = bin.commands[k]
        BY DEF Readings
      <3>2. /\ bin.ncmds = Len(begun)
            /\ Len(bin.commands) <= Len(begun)
            /\ \A k \in 1 .. Len(bin.commands) :
                  /\ bin.commands[k].command = begun[k].command
                  /\ begun[k].delay - bin.commands[k].delay \in 0 .. Fraction
        BY <2>1, <3>1 DEF Holds, Conveys
      <3>3. ~Displaced(bin, i)
        <4> SUFFICES ASSUME NEW j \in DOMAIN bin.commands, j < i,
                            bin.commands[j].command \in LongCommands
                     PROVE  FALSE
          BY DEF Displaced
        <4>1. j \in 1 .. i - 1 /\ j \in 1 .. Len(bin.commands)
          BY <2>1
        <4> QED
          BY <2>2, <3>2, <4>1 DEF Fit
      <3> QED
        BY <2>1, <3>1, <3>2, <3>3
    <2>3. ASSUME bin.crc = "right", Fit(begun, Len(begun))
          PROVE  bin.commands \in Readings(bin, bin.ncmds)
      <3>1. /\ bin.header /\ bin.ncmds = Len(bin.commands) /\ bin.ncmds = Len(begun)
            /\ \A k \in 1 .. Len(bin.commands) : bin.commands[k].command = begun[k].command
        BY <2>1, <2>3 DEF Holds, Conveys
      <3>2. bin.commands \in [1 .. bin.ncmds -> Range(bin.commands) \cup Strays]
        <4>1. bin.commands \in [1 .. Len(bin.commands) -> LineSet]
          BY <2>1, LenProperties
        <4> QED
          BY <2>1, <3>1, <4>1 DEF Range
      <3>3. \A k \in 1 .. bin.ncmds : ~Displaced(bin, k)
        BY <2>1, <2>3, <3>1 DEF Displaced, Fit
      <3> QED
        BY <2>1, <3>1, <3>2, <3>3 DEF Readings
    <2> QED
      BY <2>2, <2>3 DEF SequenceReadsBack
  <1> QED
    BY <1>1, SequenceStarts, SequenceStep, PTL DEF SequenceSpec

\* The types of a sequence's variables and files.
THEOREM SequenceTypeCorrect == SequenceSpec => []SequenceTypes
  <1>1. SequenceInv => SequenceTypes
    BY DEF SequenceInv
  <1> QED
    BY <1>1, SequenceStarts, SequenceStep, PTL DEF SequenceSpec

-----------------------------------------------------------------------------
(* Leap seconds.                                                           *)

Counted(dates, i) == {j \in 1 .. i : dates[j] >= 0}

\* The dates that were published are in order and before the expiry of the list.
Published ==
    /\ list.valid \in Nat
    /\ list.dates \in Seq(Int)
    /\ \A i \in DOMAIN list.dates : list.dates[i] < list.valid
    /\ \A i, j \in DOMAIN list.dates :
          i < j /\ list.dates[i] >= 0 => list.dates[i] <= list.dates[j]

\* A table has the dates up to the n-th, and those that follow are not before its expiry.
MadeAt(tab, n) ==
    /\ tab.leapseconds = {LeapSecond(list.dates, i) : i \in {j \in 1 .. n : list.dates[j] >= 0}}
    /\ \A i \in n + 1 .. Len(list.dates) : list.dates[i] >= tab.valid

Made(tab) == /\ tab.valid <= list.valid
             /\ tab \in [valid : Nat, leapseconds : SUBSET [date : Int, offset : Nat], there : {TRUE}]
             /\ \E n \in 0 .. Len(list.dates) : MadeAt(tab, n)

LeapInv == /\ Published
           /\ today \in Nat
           /\ lsFile = NoTable \/ lsFile = CutShort \/ Made(lsFile)
           /\ lsData = NoTable \/ Made(lsData)
           /\ module \in {"loaded", "writing"} => lsData # NoTable

LEMMA NoTableThere == ~NoTable.there /\ NoTable.valid = 0 /\ CutShort.there
  BY DEF NoTable, CutShort

LEMMA CountedType ==
    ASSUME NEW dates, NEW i \in Nat
    PROVE  IsFiniteSet(Counted(dates, i)) /\ Cardinality(Counted(dates, i)) \in Nat
  <1>1. IsFiniteSet(1 .. i)
    BY FS_Interval
  <1>2. Counted(dates, i) \in SUBSET (1 .. i)
    BY DEF Counted
  <1> HIDE DEF Counted
  <1>3. IsFiniteSet(Counted(dates, i))
    BY <1>1, <1>2, FS_Subset
  <1> QED
    BY <1>3, FS_CardinalityType

LEMMA LeapSecondType ==
    ASSUME NEW dates \in Seq(Int), NEW i \in 1 .. Len(dates)
    PROVE  /\ LeapSecond(dates, i) \in [date : Int, offset : Nat]
           /\ LeapSecond(dates, i).date = dates[i]
           /\ LeapSecond(dates, i).offset = Cardinality(Counted(dates, i))
  <1>1. Len(dates) \in Nat /\ dates[i] \in Int
    BY ElementOfSeq, LenProperties
  <1>2. i \in Nat
    BY <1>1
  <1>3. Cardinality(Counted(dates, i)) \in Nat
    BY <1>2, CountedType
  <1>4. LeapSecond(dates, i) = [date |-> dates[i], offset |-> Cardinality(Counted(dates, i))]
    BY DEF LeapSecond, Counted
  <1> QED
    BY <1>1, <1>3, <1>4

LEMMA FetchMakes == Published => Made(Table(list)) /\ Table(list) # NoTable
  <1> SUFFICES ASSUME Published PROVE Made(Table(list)) /\ Table(list) # NoTable
    OBVIOUS
  <1> DEFINE n == Len(list.dates)
             L == {LeapSecond(list.dates, i) : i \in {j \in 1 .. n : list.dates[j] >= 0}}
  <1>1. list.dates \in Seq(Int) /\ list.valid \in Nat
    BY DEF Published
  <1>2. n \in Nat /\ DOMAIN list.dates = 1 .. n
    BY <1>1, LenProperties
  <1>3. Table(list) = [valid |-> list.valid, there |-> TRUE, leapseconds |-> L]
    BY <1>2 DEF Table
  <1>4. L \subseteq [date : Int, offset : Nat]
    <2>1. \A i \in 1 .. n : LeapSecond(list.dates, i) \in [date : Int, offset : Nat]
      BY <1>1, LeapSecondType
    <2> QED
      BY <2>1
  <1>5. n \in 0 .. n /\ n + 1 .. n = {}
    BY <1>2
  <1>6. MadeAt(Table(list), n)
    BY <1>3, <1>5 DEF MadeAt
  <1> HIDE DEF L
  <1>7. Table(list) \in [valid : Nat, leapseconds : SUBSET [date : Int, offset : Nat], there : {TRUE}]
    BY <1>1, <1>3, <1>4
  <1> HIDE DEF n
  <1>8. Made(Table(list))
    BY <1>1, <1>3, <1>5, <1>6, <1>7 DEF Made, n
  <1> QED
    BY <1>3, <1>8, NoTableThere


\* What is announced changes no date that is there.
LEMMA Announcing ==
    ASSUME Published, Announce
    PROVE  /\ list'.dates \in Seq(Int)
           /\ Len(list'.dates) \in Nat /\ Len(list.dates) \in Nat
           /\ Len(list.dates) <= Len(list'.dates)
           /\ \A i \in 1 .. Len(list.dates) : list'.dates[i] = list.dates[i]
           /\ \A i \in Len(list.dates) + 1 .. Len(list'.dates) : list'.dates[i] = list.valid
           /\ list'.valid = list.valid + 2
  <1> DEFINE n == Len(list.dates)
  <1>1. list.dates \in Seq(Int) /\ list.valid \in Nat /\ n \in Nat
    BY LenProperties DEF Published
  <1>2. PICK more \in {<<>>, <<list.valid>>} :
           list' = [valid |-> list.valid + 2, dates |-> list.dates \o more]
    BY DEF Announce
  <1>3. more \in Seq(Int) /\ Len(more) \in {0, 1} /\ (Len(more) = 1 => more[1] = list.valid)
    <2>1. CASE more = <<>>
      BY <2>1
    <2>2. CASE more = <<list.valid>>
      <3>1. <<list.valid>> \in Seq(Int) /\ Len(<<list.valid>>) = 1 /\ <<list.valid>>[1] = list.valid
        BY <1>1
      <3> QED
        BY <2>2, <3>1
    <2> QED
      BY <1>2, <2>1, <2>2
  <1>4. /\ list.dates \o more \in Seq(Int)
        /\ Len(list.dates \o more) = n + Len(more)
        /\ \A i \in 1 .. n + Len(more) :
              (list.dates \o more)[i] = IF i <= n THEN list.dates[i] ELSE more[i - n]
    BY <1>1, <1>3, ConcatProperties
  <1> DEFINE d == list.dates \o more
  <1>5. list'.dates = d /\ list'.valid = list.valid + 2
    BY <1>2
  <1>6. /\ d \in Seq(Int) /\ Len(d) = n + Len(more)
        /\ \A i \in 1 .. n + Len(more) : d[i] = IF i <= n THEN list.dates[i] ELSE more[i - n]
    BY <1>4
  <1> HIDE DEF d, n
  <1>7. \A i \in 1 .. n : d[i] = list.dates[i]
    BY <1>1, <1>3, <1>6
  <1>8. \A i \in n + 1 .. Len(d) : d[i] = list.valid
    <2> SUFFICES ASSUME NEW i \in n + 1 .. Len(d) PROVE d[i] = list.valid
      OBVIOUS
    <2>1. Len(more) = 1
      BY <1>1, <1>3, <1>6
    <2>2. i = n + 1
      BY <1>1, <1>6, <2>1
    <2>3. i \in 1 .. n + Len(more) /\ ~(i <= n) /\ i - n = 1
      BY <1>1, <2>1, <2>2
    <2> QED
      BY <1>3, <1>6, <2>1, <2>3
  <1>9. Len(d) \in Nat /\ n <= Len(d)
    BY <1>1, <1>3, <1>6
  <1> QED
    BY <1>1, <1>5, <1>6, <1>7, <1>8, <1>9 DEF n

LEMMA AnnounceKeepsPublished ==
    ASSUME Published, Announce
    PROVE  Published'
  <1> DEFINE n == Len(list.dates)
             d == list'.dates
  <1>1. /\ d \in Seq(Int) /\ Len(d) \in Nat /\ n \in Nat /\ n <= Len(d)
        /\ \A i \in 1 .. n : d[i] = list.dates[i]
        /\ \A i \in n + 1 .. Len(d) : d[i] = list.valid
        /\ list'.valid = list.valid + 2
    BY Announcing
  <1>2. /\ list.valid \in Nat
        /\ DOMAIN list.dates = 1 .. n /\ DOMAIN d = 1 .. Len(d)
        /\ \A i \in 1 .. n : list.dates[i] \in Int /\ list.dates[i] < list.valid
        /\ \A i, j \in 1 .. n : i < j /\ list.dates[i] >= 0 => list.dates[i] <= list.dates[j]
    BY <1>1, ElementOfSeq, LenProperties DEF Published
  <1> HIDE DEF n, d
  <1>3. \A i \in DOMAIN d : d[i] < list'.valid
    <2> SUFFICES ASSUME NEW i \in 1 .. Len(d) PROVE d[i] < list'.valid
      BY <1>2
    <2>1. CASE i \in 1 .. n
      BY <1>1, <1>2, <2>1
    <2>2. CASE i \in n + 1 .. Len(d)
      BY <1>1, <1>2, <2>2
    <2> QED
      BY <1>1, <2>1, <2>2
  <1>4. ASSUME NEW i \in DOMAIN d, NEW j \in DOMAIN d, i < j, d[i] >= 0
        PROVE  d[i] <= d[j]
    <2>0. i \in 1 .. Len(d) /\ j \in 1 .. Len(d)
      BY <1>2
    <2>1. CASE j \in 1 .. n
      <3>1. i \in 1 .. n
        BY <1>1, <1>4, <2>0, <2>1
      <3> QED
        BY <1>1, <1>2, <1>4, <2>1, <3>1
    <2>2. CASE j \in n + 1 .. Len(d)
      <3>1. d[j] = list.valid
        BY <1>1, <2>2
      <3>2. CASE i \in 1 .. n
        <4>1. d[i] \in Int /\ d[i] < list.valid
          BY <1>1, <1>2, <3>2
        <4> QED
          BY <1>2, <3>1, <4>1
      <3>3. CASE i \in n + 1 .. Len(d)
        <4>1. d[i] = list.valid
          BY <1>1, <3>3
        <4> QED
          BY <1>2, <3>1, <4>1
      <3> QED
        BY <1>1, <2>0, <3>2, <3>3
    <2> QED
      BY <1>1, <2>0, <2>1, <2>2
  <1>5. list'.valid \in Nat
    BY <1>1, <1>2
  <1> QED
    BY <1>1, <1>3, <1>4, <1>5 DEF Published, d

LEMMA AnnounceKeepsMade ==
    ASSUME Published, Announce, NEW tab, Made(tab)
    PROVE  Made(tab)'
  <1> DEFINE len == Len(list.dates)
             d == list'.dates
  <1>1. /\ d \in Seq(Int) /\ Len(d) \in Nat /\ len \in Nat /\ len <= Len(d)
        /\ \A i \in 1 .. len : d[i] = list.dates[i]
        /\ \A i \in len + 1 .. Len(d) : d[i] = list.valid
        /\ list'.valid = list.valid + 2
    BY Announcing
  <1> HIDE DEF d
  <1>2. PICK n \in 0 .. len : MadeAt(tab, n)
    BY DEF Made
  <1>3. /\ tab \in [valid : Nat, leapseconds : SUBSET [date : Int, offset : Nat], there : {TRUE}]
        /\ tab.valid <= list.valid
    BY DEF Made
  <1>4. list.valid \in Nat
    BY DEF Published
  <1> HIDE DEF len
  <1>5. ASSUME NEW i \in 1 .. n
        PROVE  LeapSecond(d, i) = LeapSecond(list.dates, i) /\ d[i] = list.dates[i]
    <2>1. d[i] = list.dates[i]
      BY <1>1
    <2>2. \A j \in 1 .. i : d[j] = list.dates[j]
      BY <1>1
    <2>3. {j \in 1 .. i : d[j] >= 0} = {j \in 1 .. i : list.dates[j] >= 0}
      BY <2>2
    <2> QED
      BY <2>1, <2>3 DEF LeapSecond
  <1>6. {LeapSecond(d, i) : i \in {j \in 1 .. n : d[j] >= 0}}
           = {LeapSecond(list.dates, i) : i \in {j \in 1 .. n : list.dates[j] >= 0}}
    <2>1. {j \in 1 .. n : d[j] >= 0} = {j \in 1 .. n : list.dates[j] >= 0}
      BY <1>5
    <2> QED
      BY <1>5, <2>1
  <1>7. ASSUME NEW i \in n + 1 .. Len(d) PROVE d[i] >= tab.valid
    <2>1. CASE i <= len
      <3>1. i \in n + 1 .. len /\ i \in 1 .. len
        BY <1>1, <2>1
      <3>2. list.dates[i] >= tab.valid
        BY <1>2, <3>1 DEF MadeAt, len
      <3> QED
        BY <1>1, <3>1, <3>2
    <2>2. CASE ~(i <= len)
      <3>1. i \in len + 1 .. Len(d)
        BY <1>1, <2>2
      <3> QED
        BY <1>1, <1>3, <1>4, <3>1
    <2> QED
      BY <2>1, <2>2
  <1>8. n \in 0 .. Len(d)
    BY <1>1
  <1>9. tab.valid <= list'.valid
    BY <1>1, <1>3, <1>4
  <1>10. tab.leapseconds = {LeapSecond(d, i) : i \in {j \in 1 .. n : d[j] >= 0}}
    BY <1>2, <1>6 DEF MadeAt
  <1>11. MadeAt(tab, n)'
    BY <1>7, <1>10 DEF MadeAt, d
  <1> QED
    BY <1>3, <1>8, <1>9, <1>11 DEF Made, d

\* What does not touch the list leaves what was made from it.
LEMMA ListKeepsMade ==
    ASSUME list' = list
    PROVE  (Published => Published') /\ (\A tab : Made(tab) => Made(tab)')
  BY DEF Published, Made, MadeAt

LEMMA LeapStarts == LeapInit => LeapInv
  <1> SUFFICES ASSUME LeapInit PROVE LeapInv
    OBVIOUS
  <1>1. list.valid \in Nat /\ list.valid > 0 /\ list.dates = BeforeEpoch
    BY LeapSecondsAssumption DEF LeapInit
  <1>2. BeforeEpoch \in Seq(Int) /\ \A i \in DOMAIN BeforeEpoch : BeforeEpoch[i] \in Int /\ BeforeEpoch[i] < 0
    <2>1. BeforeEpoch \in Seq(Int) /\ \A i \in DOMAIN BeforeEpoch : BeforeEpoch[i] < 0
      BY LeapSecondsAssumption
    <2>2. DOMAIN BeforeEpoch = 1 .. Len(BeforeEpoch)
      BY <2>1, LenProperties
    <2> QED
      BY <2>1, <2>2, ElementOfSeq
  <1>3. \A i \in DOMAIN list.dates : list.dates[i] < list.valid /\ ~(list.dates[i] >= 0)
    BY <1>1, <1>2
  <1>4. Published
    BY <1>1, <1>2, <1>3 DEF Published
  <1> QED
    BY <1>4, LeapSecondsAssumption DEF LeapInit, LeapInv

LEMMA LeapKeepsInv == LeapInv /\ [LeapNext]_leapVars => LeapInv'
  <1> SUFFICES ASSUME LeapInv, [LeapNext]_leapVars PROVE LeapInv'
    OBVIOUS
  <1>1. CASE Announce
    <2>1. Published'
      BY <1>1, AnnounceKeepsPublished DEF LeapInv
    <2>2. \A tab : Made(tab) => Made(tab)'
      BY <1>1, AnnounceKeepsMade DEF LeapInv
    <2>3. UNCHANGED <<today, lsFile, lsData, module>>
      BY <1>1 DEF Announce
    <2>4. (Made(lsFile) => Made(lsFile)') /\ (Made(lsData) => Made(lsData)')
      BY <2>2, <2>3 DEF Made, MadeAt
    <2> QED
      BY <2>1, <2>3, <2>4 DEF LeapInv
  <1>2. CASE list' = list
    <2>1. Published'
      BY <1>2, ListKeepsMade DEF LeapInv
    <2>2. /\ lsData' = lsData => (Made(lsData) => Made(lsData)')
          /\ lsFile' = lsFile => (Made(lsFile) => Made(lsFile)')
          /\ lsData' = lsFile => (Made(lsFile) => Made(lsData)')
          /\ lsFile' = lsData => (Made(lsData) => Made(lsFile)')
          /\ lsData' = Table(list) => (Made(Table(list)) => Made(lsData)')
      BY ZenonT(60), <1>2 DEF Made, MadeAt
    <2>3. /\ today \in Nat /\ Published
          /\ lsFile = NoTable \/ lsFile = CutShort \/ Made(lsFile)
          /\ lsData = NoTable \/ Made(lsData)
          /\ module \in {"loaded", "writing"} => lsData # NoTable
      BY DEF LeapInv
    <2>4. Made(Table(list)) /\ Table(list) # NoTable
      BY <2>3, FetchMakes
    <2>5. CASE UNCHANGED <<lsFile, lsData>> /\ module' \notin {"loaded", "writing"} /\ today' = today
      BY <2>1, <2>2, <2>3, <2>5 DEF LeapInv
    <2>6. CASE ClockMoves
      BY <2>1, <2>2, <2>3, <2>6 DEF LeapInv, ClockMoves
    <2>7. CASE Load
      <3>1. lsFile' = lsFile /\ today' = today /\ (lsData' = lsFile \/ lsData' = NoTable)
        BY <2>7 DEF Load
      <3>2. module' \in {"loaded", "updating"} /\ (module' = "loaded" => lsData'.there)
        BY <2>7 DEF Load
      <3>3. lsFile = CutShort => lsData' = NoTable
        BY <2>7 DEF Load
      <3>4. lsData' = NoTable \/ Made(lsData)'
        BY <2>2, <2>3, <3>1, <3>3
      <3>5. lsData' = NoTable => module' = "updating"
        BY <3>2, NoTableThere
      <3> QED
        BY <2>1, <2>2, <2>3, <3>1, <3>2, <3>4, <3>5 DEF LeapInv
    <2>8. CASE UpdateRefused
      <3>1. UNCHANGED <<today, lsFile, lsData>> /\ module' = IF lsData.there THEN "loaded" ELSE "down"
        BY <2>8 DEF UpdateRefused
      <3>2. module' = "loaded" => lsData # NoTable
        BY <3>1, NoTableThere
      <3>3. module' \in {"loaded", "down"}
        BY <3>1
      <3> QED
        BY <2>1, <2>2, <2>3, <3>1, <3>2, <3>3 DEF LeapInv
    <2>9. CASE UpdateRaises \/ WriteRaises \/ ModuleKilled
      BY <2>1, <2>2, <2>3, <2>9 DEF LeapInv, UpdateRaises, WriteRaises, ModuleKilled
    <2>10. CASE Fetch
      BY <2>1, <2>2, <2>3, <2>4, <2>10 DEF LeapInv, Fetch
    <2>11. CASE WriteTable
      BY <2>1, <2>2, <2>3, <2>11 DEF LeapInv, WriteTable
    <2>12. CASE UNCHANGED leapVars
      BY <2>1, <2>2, <2>3, <2>12 DEF LeapInv, leapVars
    <2>13. Announce => list'.valid # list.valid
      <3>1. list.valid \in Nat
        BY <2>3 DEF Published
      <3> QED
        BY <3>1 DEF Announce
    <2> QED
      BY <1>2, <2>6, <2>7, <2>8, <2>9, <2>10, <2>11, <2>12, <2>13 DEF LeapNext
  <1>3. Announce \/ list' = list
    BY DEF LeapNext, leapVars, ClockMoves, Load, UpdateRefused, UpdateRaises, Fetch, WriteTable,
           WriteRaises, ModuleKilled
  <1> QED
    BY <1>1, <1>2, <1>3

Since(tab, t) == {l \in tab.leapseconds : t >= l.date}
OffsetOf(since) == (CHOOSE l \in since : \A k \in since : k.offset <= l.offset).offset
LeapsUpTo(t) == Cardinality({i \in DOMAIN list.dates : 0 <= list.dates[i] /\ list.dates[i] <= t})

\* Up to the last of the dates that are not after t, all that count are not after t.
LEMMA OffsetIsCount ==
    ASSUME Published, NEW tab, NEW n \in 0 .. Len(list.dates), MadeAt(tab, n),
           tab \in [valid : Nat, leapseconds : SUBSET [date : Int, offset : Nat], there : {TRUE}],
           NEW t \in Nat, t < tab.valid
    PROVE  /\ LeapsUpTo(t) \in Nat
           /\ Since(tab, t) = {} => LeapsUpTo(t) = 0
           /\ Since(tab, t) # {} => OffsetOf(Since(tab, t)) = LeapsUpTo(t)
  <1> DEFINE d == list.dates
             len == Len(list.dates)
             S == {i \in 1 .. len : 0 <= d[i] /\ d[i] <= t}
             since == Since(tab, t)
  <1>1. /\ d \in Seq(Int) /\ len \in Nat /\ DOMAIN d = 1 .. len
        /\ \A i \in 1 .. len : d[i] \in Int
        /\ \A i, j \in 1 .. len : i < j /\ d[i] >= 0 => d[i] <= d[j]
    BY ElementOfSeq, LenProperties DEF Published
  <1>2. /\ tab.leapseconds = {LeapSecond(d, i) : i \in {j \in 1 .. n : d[j] >= 0}}
        /\ \A i \in n + 1 .. len : d[i] >= tab.valid
        /\ tab.valid \in Nat
    BY DEF MadeAt
  <1>3. \A i \in 1 .. len : /\ LeapSecond(d, i).date = d[i]
                            /\ LeapSecond(d, i).offset = Cardinality(Counted(d, i))
    BY <1>1, LeapSecondType
  <1> HIDE DEF d, len
  <1>4. n \in Nat /\ n <= len
    BY <1>1 DEF len
  <1>5. \A i \in S : i \in 1 .. n
    <2> SUFFICES ASSUME NEW i \in S, i \notin 1 .. n PROVE FALSE
      OBVIOUS
    <2>1. i \in n + 1 .. len /\ d[i] <= t /\ d[i] \in Int
      BY <1>1, <1>4
    <2>2. d[i] >= tab.valid
      BY <1>2, <2>1
    <2> QED
      BY <1>2, <2>1, <2>2
  <1>6. \A l : l \in since <=> \E i \in S : l = LeapSecond(d, i)
    <2>1. ASSUME NEW l \in since PROVE \E i \in S : l = LeapSecond(d, i)
      <3>1. PICK i \in {j \in 1 .. n : d[j] >= 0} : l = LeapSecond(d, i)
        BY <1>2 DEF Since
      <3>2. i \in 1 .. len /\ d[i] >= 0 /\ t >= d[i] /\ d[i] \in Int
        BY <1>1, <1>3, <1>4, <3>1 DEF Since
      <3> QED
        BY <3>1, <3>2
    <2>2. ASSUME NEW i \in S PROVE LeapSecond(d, i) \in since
      <3>1. i \in 1 .. n /\ d[i] >= 0 /\ t >= d[i] /\ d[i] \in Int
        BY <1>1, <1>5
      <3>2. LeapSecond(d, i) \in tab.leapseconds
        BY <1>2, <3>1
      <3> QED
        BY <1>3, <3>1, <3>2 DEF Since
    <2> QED
      BY <2>1, <2>2
  <1> HIDE DEF since
  <1>7. IsFiniteSet(1 .. len)
    BY <1>1, FS_Interval
  <1>8. IsFiniteSet(S) /\ Cardinality(S) \in Nat
    <2>1. S \in SUBSET (1 .. len)
      OBVIOUS
    <2> HIDE DEF S
    <2>2. IsFiniteSet(S)
      BY <1>7, <2>1, FS_Subset
    <2> QED
      BY <2>2, FS_CardinalityType
  <1>9. since = {} => Cardinality(S) = 0
    <2>1. since = {} => S = {}
      BY <1>6
    <2> HIDE DEF S
    <2> QED
      BY <2>1, FS_EmptySet
  <1>10. ASSUME since # {}
         PROVE  OffsetOf(since) = Cardinality(S)
    <2>1. PICK m \in S : \A k \in S : k <= m
      <3>1. S # {} /\ S \subseteq 0 .. len
        BY <1>6, <1>10
      <3> HIDE DEF S
      <3> QED
        BY <1>1, <3>1, Greatest
    <2>2. Counted(d, m) = S
      <3>1. ASSUME NEW j \in Counted(d, m) PROVE j \in S
        <4>1. j \in 1 .. m /\ d[j] >= 0 /\ m \in 1 .. len /\ d[m] <= t
          BY <3>1 DEF Counted
        <4>2. j \in 1 .. len /\ d[j] \in Int /\ d[m] \in Int
          BY <1>1, <4>1
        <4>3. d[j] <= d[m]
          <5>1. j = m \/ j < m
            BY <4>1
          <5> QED
            BY <1>1, <4>1, <4>2, <5>1
        <4> QED
          BY <4>1, <4>2, <4>3
      <3>2. ASSUME NEW j \in S PROVE j \in Counted(d, m)
        <4>1. j <= m /\ j \in 1 .. len /\ 0 <= d[j] /\ d[j] \in Int /\ m \in 1 .. len
          BY <1>1, <2>1
        <4> QED
          BY <4>1 DEF Counted
      <3> QED
        BY <3>1, <3>2
    <2>3. LeapSecond(d, m) \in since /\ LeapSecond(d, m).offset = Cardinality(S)
      BY <1>3, <1>6, <2>2
    <2>4. ASSUME NEW k \in since PROVE k.offset \in Nat /\ k.offset <= Cardinality(S)
      <3>1. PICK i \in S : k = LeapSecond(d, i)
        BY <1>6
      <3>2. k.offset = Cardinality(Counted(d, i)) /\ i \in Nat /\ i <= m /\ m \in Nat
        BY <1>3, <2>1, <3>1
      <3>3. Counted(d, i) \in SUBSET Counted(d, m)
        BY <3>2 DEF Counted
      <3>4. IsFiniteSet(Counted(d, i)) /\ IsFiniteSet(Counted(d, m))
            /\ Cardinality(Counted(d, i)) \in Nat
        BY <3>2, CountedType
      <3>5. Cardinality(Counted(d, i)) <= Cardinality(Counted(d, m))
        BY <3>3, <3>4, FS_Subset
      <3> QED
        BY <2>2, <3>2, <3>4, <3>5
    <2> HIDE DEF S
    <2> DEFINE best == CHOOSE l \in since : \A k \in since : k.offset <= l.offset
    <2>5. best \in since /\ \A k \in since : k.offset <= best.offset
      BY <2>3, <2>4
    <2> HIDE DEF best
    <2>6. best.offset \in Nat /\ best.offset <= Cardinality(S) /\ Cardinality(S) <= best.offset
      BY <2>3, <2>4, <2>5
    <2>7. best.offset = Cardinality(S)
      BY <1>8, <2>6
    <2> QED
      BY <2>7 DEF best, OffsetOf
  <1>11. LeapsUpTo(t) = Cardinality(S)
    BY <1>1 DEF d, LeapsUpTo
  <1> QED
    BY <1>8, <1>9, <1>10, <1>11 DEF since

LEMMA WeeksAndSeconds ==
    ASSUME NEW x \in Nat
    PROVE  SecondsInWeek * (x \div SecondsInWeek) + (x % SecondsInWeek) = x
  <1>1. SecondsInWeek \in Nat \ {0}
    BY LeapSecondsAssumption
  <1> QED
    BY <1>1

\* For every length of a week, every list the IERS may have published and come to publish,
\* and whatever updates are refused or cut short by a crash, a loaded module tells the GPS
\* time of every second up to the expiry of its table (dmc.py 119-139, 303-365, 404-424).
THEOREM GpsTimeIsRight == LeapSpec => []GpsTimeIsElapsed
  <1>1. LeapInv => GpsTimeIsElapsed
    <2> SUFFICES ASSUME LeapInv, module = "loaded", NEW t \in 0 .. lsData.valid - 1
                 PROVE  LET gps  == to_gps_week_and_secs(t)
                            leap == Cardinality({i \in DOMAIN list.dates :
                                                   0 <= list.dates[i] /\ list.dates[i] <= t})
                        IN SecondsInWeek * gps[1] + gps[2] = t + leap
      BY DEF GpsTimeIsElapsed
    <2> DEFINE leap == LeapsUpTo(t)
    <2>1. Published /\ Made(lsData)
      BY DEF LeapInv
    <2>2. PICK n \in 0 .. Len(list.dates) : MadeAt(lsData, n)
      BY <2>1 DEF Made
    <2>3. /\ lsData \in [valid : Nat, leapseconds : SUBSET [date : Int, offset : Nat], there : {TRUE}]
          /\ t \in Nat /\ t < lsData.valid
      <3>1. lsData \in [valid : Nat, leapseconds : SUBSET [date : Int, offset : Nat], there : {TRUE}]
        BY <2>1 DEF Made
      <3>2. lsData.valid \in Nat
        BY <3>1
      <3>3. t \in Nat /\ t < lsData.valid
        BY <3>2
      <3> QED
        BY <3>1, <3>3
    <2>4. /\ leap \in Nat
          /\ Since(lsData, t) = {} => leap = 0
          /\ Since(lsData, t) # {} => OffsetOf(Since(lsData, t)) = leap
      BY <2>1, <2>2, <2>3, OffsetIsCount
    <2>5. get_gps_offset_for_date(t) = leap
      BY <2>4 DEF get_gps_offset_for_date, Since, OffsetOf
    <2> HIDE DEF leap
    <2>6. to_gps_week_and_secs(t) = <<(t + leap) \div SecondsInWeek, (t + leap) % SecondsInWeek>>
      BY <2>5 DEF to_gps_week_and_secs
    <2>7. SecondsInWeek * ((t + leap) \div SecondsInWeek) + ((t + leap) % SecondsInWeek) = t + leap
      <3>1. t + leap \in Nat
        BY <2>3, <2>4
      <3> QED
        BY <3>1, WeeksAndSeconds
    <2> DEFINE gps == to_gps_week_and_secs(t)
    <2>8. gps[1] = (t + leap) \div SecondsInWeek /\ gps[2] = (t + leap) % SecondsInWeek
      BY <2>6
    <2> HIDE DEF gps
    <2>9. SecondsInWeek * gps[1] + gps[2] = t + leap
      BY <2>7, <2>8
    <2> QED
      BY <2>9 DEF leap, gps, LeapsUpTo
  <1> QED
    BY <1>1, LeapStarts, LeapKeepsInv, PTL DEF LeapSpec

LeapBounds == /\ today \in 0 .. LastDate /\ kills \in 0 .. MaxKills
              /\ module \in {"down", "updating", "writing", "loaded"}

LEMMA LeapTyped == LeapInv /\ LeapBounds => LeapTypes
  <1> SUFFICES ASSUME LeapInv, LeapBounds PROVE LeapTypes
    OBVIOUS
  <1>1. \A tab : tab = NoTable \/ tab = CutShort \/ Made(tab) =>
                 {"valid", "leapseconds", "there"} = DOMAIN tab
    BY DEF NoTable, CutShort, Made
  <1>2. {"valid", "leapseconds", "there"} = DOMAIN lsData /\ {"valid", "leapseconds", "there"} = DOMAIN lsFile
    BY <1>1 DEF LeapInv
  <1>3. list.valid \in Nat /\ list.dates \in Seq(Int)
    BY DEF LeapInv, Published
  <1> QED
    BY <1>2, <1>3 DEF LeapTypes, LeapBounds

LEMMA LeapBounded == LeapBounds /\ [LeapNext]_leapVars => LeapBounds'
  <1> SUFFICES ASSUME LeapBounds, [LeapNext]_leapVars PROVE LeapBounds'
    OBVIOUS
  <1>1. LastDate \in Nat /\ MaxKills \in Nat
    BY LeapSecondsAssumption
  <1>2. CASE ClockMoves
    BY <1>1, <1>2 DEF ClockMoves, LeapBounds
  <1>3. CASE Announce
    BY <1>3 DEF Announce, LeapBounds
  <1>4. CASE Load
    BY <1>4 DEF Load, LeapBounds
  <1>5. CASE UpdateRefused
    BY <1>5 DEF UpdateRefused, LeapBounds
  <1>6. CASE UpdateRaises \/ Fetch \/ WriteTable \/ WriteRaises
    BY <1>6 DEF UpdateRaises, Fetch, WriteTable, WriteRaises, LeapBounds
  <1>7. CASE ModuleKilled
    BY <1>1, <1>7 DEF ModuleKilled, LeapBounds
  <1>8. CASE UNCHANGED leapVars
    BY <1>8 DEF leapVars, LeapBounds
  <1> QED
    BY <1>2, <1>3, <1>4, <1>5, <1>6, <1>7, <1>8 DEF LeapNext

\* In memory and in the file there is a table, none, or one cut short, through every refused
\* update and every crash (_load_leap_second_data, _update_leap_second_data: dmc.py 303-424).
THEOREM LeapTypeCorrect == LeapSpec => []LeapTypes
  <1>1. LeapInit => LeapBounds
    BY LeapSecondsAssumption DEF LeapInit, LeapBounds
  <1> QED
    BY <1>1, LeapStarts, LeapKeepsInv, LeapBounded, LeapTyped, PTL DEF LeapSpec

-----------------------------------------------------------------------------
(* The ranges of time in a file of packets.                                *)

FirstRange(q) == [done |-> <<>>, start |-> q[1], stop |-> q[1]]

LEMMA RangesAre ==
    ASSUME NEW q, Len(q) \in Nat \ {0}
    PROVE  /\ Ranges(q)[1] = FirstRange(q)
           /\ \A i \in 1 .. Len(q) - 1 : Ranges(q)[i + 1] = Prolonged(Ranges(q)[i], q[i + 1])
  <1> DEFINE N == Len(q)
             FilledTo(g, n) == [i \in 1 .. n |-> IF i = 1 THEN FirstRange(q) ELSE Prolonged(g[i - 1], q[i])]
             T == {n \in Nat : n <= N => \E g : g = FilledTo(g, n)}
  <1>1. 0 \in T
    <2>1. <<>> = FilledTo(<<>>, 0)
      OBVIOUS
    <2> QED
      BY <2>1
  <1>2. ASSUME NEW n \in Nat, n \in T PROVE n + 1 \in T
    <2> SUFFICES ASSUME n + 1 <= N PROVE \E g : g = FilledTo(g, n + 1)
      OBVIOUS
    <2>1. n <= N
      OBVIOUS
    <2>2. PICK g : g = FilledTo(g, n)
      BY <1>2, <2>1
    <2> DEFINE new == IF n = 0 THEN FirstRange(q) ELSE Prolonged(g[n], q[n + 1])
               h == [i \in 1 .. n + 1 |-> IF i = n + 1 THEN new ELSE g[i]]
    <2>3. (\A i \in 1 .. n : h[i] = g[i]) /\ h[n + 1] = new
      OBVIOUS
    <2>4. ASSUME NEW i \in 1 .. n + 1
          PROVE  h[i] = IF i = 1 THEN FirstRange(q) ELSE Prolonged(h[i - 1], q[i])
      <3>1. CASE i = n + 1
        <4>1. /\ i = 1 <=> n = 0
              /\ i - 1 = n /\ (n # 0 => n \in 1 .. n)
          BY <3>1
        <4>2. h[i] = new /\ (n # 0 => h[n] = g[n])
          BY <2>3, <3>1, <4>1
        <4> HIDE DEF h
        <4> QED
          BY <3>1, <4>1, <4>2
      <3>2. CASE i # n + 1
        <4>1. i \in 1 .. n /\ (i # 1 => i - 1 \in 1 .. n)
          BY <3>2
        <4>2. h[i] = g[i] /\ (i # 1 => h[i - 1] = g[i - 1])
          BY <2>3, <4>1
        <4> HIDE DEF h
        <4> QED
          BY <2>2, <4>1, <4>2
      <3> QED
        BY <3>1, <3>2
    <2>5. h = [i \in 1 .. n + 1 |-> h[i]]
      OBVIOUS
    <2> HIDE DEF h
    <2>6. h = FilledTo(h, n + 1)
      BY <2>4, <2>5
    <2> QED
      BY <2>6
  <1> HIDE DEF T
  <1>3. N \in T
    BY <1>1, <1>2, SetInduction
  <1>4. \E g : g = FilledTo(g, N)
    BY <1>3 DEF T
  <1>5. Ranges(q) = CHOOSE g : g = FilledTo(g, N)
    BY DEF Ranges, FirstRange
  <1>6. Ranges(q) = FilledTo(Ranges(q), N)
    <2> HIDE DEF FilledTo
    <2> QED
      BY <1>4, <1>5
  <1>7. PICK g : g = Ranges(q) /\ g = FilledTo(g, N)
    BY <1>6
  <1>8. g[1] = FirstRange(q)
    <2>1. 1 \in 1 .. N
      OBVIOUS
    <2> QED
      BY <1>7, <2>1
  <1>9. ASSUME NEW i \in 1 .. N - 1 PROVE g[i + 1] = Prolonged(g[i], q[i + 1])
    <2>1. i + 1 \in 1 .. N /\ i + 1 # 1 /\ (i + 1) - 1 = i
      OBVIOUS
    <2> QED
      BY <1>7, <2>1
  <1> QED
    BY <1>7, <1>8, <1>9

LEMMA CountOfStarts ==
    ASSUME NEW q \in Seq(Int), q # <<>>
    PROVE  /\ BegunUntil(q, 1) = 1
           /\ \A i \in 1 .. Len(q) : BegunUntil(q, i) \in Nat
           /\ \A i \in 1 .. Len(q) - 1 :
                 BegunUntil(q, i + 1) = BegunUntil(q, i) + (IF i + 1 \in RangeStarts(q) THEN 1 ELSE 0)
  <1>1. PICK n \in Nat \ {0} : n = Len(q) /\ DOMAIN q = 1 .. n
    BY EmptySeq, LenProperties
  <1>2. RangeStarts(q) \subseteq 1 .. n /\ 1 \in RangeStarts(q)
    BY <1>1 DEF RangeStarts
  <1> DEFINE Until(i) == {b \in RangeStarts(q) : b <= i}
  <1>3. \A i : IsFiniteSet(Until(i)) /\ Cardinality(Until(i)) \in Nat
    <2>1. IsFiniteSet(1 .. n)
      BY FS_Interval
    <2>2. \A i : Until(i) \subseteq 1 .. n
      BY <1>2
    <2> HIDE DEF Until
    <2> QED
      BY <2>1, <2>2, FS_Subset, FS_CardinalityType
  <1>4. BegunUntil(q, 1) = 1
    <2>1. Until(1) = {1}
      BY <1>2
    <2> QED
      BY <2>1, FS_Singleton DEF BegunUntil
  <1>5. ASSUME NEW i \in 1 .. n - 1, i + 1 \in RangeStarts(q)
        PROVE  BegunUntil(q, i + 1) = BegunUntil(q, i) + 1
    <2>1. Until(i + 1) = Until(i) \cup {i + 1} /\ i + 1 \notin Until(i)
      BY <1>2, <1>5
    <2>2. Cardinality(Until(i) \cup {i + 1}) = Cardinality(Until(i)) + 1
      <3> HIDE DEF Until
      <3> QED
        BY <1>3, <2>1, FS_AddElement
    <2> QED
      BY <2>1, <2>2 DEF BegunUntil
  <1>6. ASSUME NEW i \in 1 .. n - 1, i + 1 \notin RangeStarts(q)
        PROVE  BegunUntil(q, i + 1) = BegunUntil(q, i)
    <2>1. Until(i + 1) = Until(i)
      BY <1>2, <1>6
    <2> QED
      BY <2>1 DEF BegunUntil
  <1>7. \A i \in 1 .. n : BegunUntil(q, i) \in Nat
    BY <1>3 DEF BegunUntil
  <1> QED
    BY <1>1, <1>4, <1>5, <1>6, <1>7

\* Of the first i time stamps, range r has those ranges that are done, and the one that began last.
HasRanges(q, i, r) ==
    /\ r \in [done : Seq(Int \X Int), start : Int, stop : Int]
    /\ r.stop = q[i]
    /\ BegunUntil(q, i) = Len(r.done) + 1
    /\ \E b \in 1 .. i : /\ b \in RangeStarts(q) /\ r.start = q[b]
                         /\ \A k \in b + 1 .. i : k \notin RangeStarts(q)
                         /\ BegunUntil(q, b) = Len(r.done) + 1
                         /\ \A a \in 1 .. b - 1 : a \in RangeStarts(q) =>
                               /\ BegunUntil(q, a) \in 1 .. Len(r.done)
                               /\ \A j \in a .. Len(q) :
                                     IsRange(q, a, j) => r.done[BegunUntil(q, a)] = <<q[a], q[j]>>

LEMMA FirstRangeIs ==
    ASSUME NEW q \in Seq(Int), q # <<>>
    PROVE  HasRanges(q, 1, FirstRange(q))
  <1>1. PICK n \in Nat \ {0} : n = Len(q) /\ DOMAIN q = 1 .. n
    BY EmptySeq, LenProperties
  <1>2. 1 \in RangeStarts(q) /\ q[1] \in Int /\ 1 \in 1 .. 1
    BY <1>1, ElementOfSeq DEF RangeStarts
  <1>3. BegunUntil(q, 1) = 1
    BY CountOfStarts
  <1>4. FirstRange(q) \in [done : Seq(Int \X Int), start : Int, stop : Int]
    <2>1. <<>> \in Seq(Int \X Int)
      BY EmptySeq
    <2> QED
      BY <1>2, <2>1 DEF FirstRange
  <1>5. /\ FirstRange(q).done = <<>> /\ Len(FirstRange(q).done) = 0
        /\ FirstRange(q).start = q[1] /\ FirstRange(q).stop = q[1]
    BY EmptySeq DEF FirstRange
  <1>6. (\A k \in 1 + 1 .. 1 : FALSE) /\ (\A a \in 1 .. 1 - 1 : FALSE)
    OBVIOUS
  <1> QED
    BY <1>2, <1>3, <1>4, <1>5, <1>6 DEF HasRanges

\* A range ends before the one that begins next.
LEMMA RangeEndsAt ==
    ASSUME NEW q \in Seq(Int), NEW b \in 1 .. Len(q), NEW i \in b .. Len(q),
           \A k \in b + 1 .. i : k \notin RangeStarts(q),
           i = Len(q) \/ i + 1 \in RangeStarts(q),
           NEW j \in b .. Len(q), IsRange(q, b, j)
    PROVE  j = i
  <1>0. Len(q) \in Nat
    BY LenProperties
  <1>1. ~(j < i)
    <2> SUFFICES ASSUME j < i PROVE FALSE
      OBVIOUS
    <2>1. j + 1 \in b + 1 .. i /\ j # Len(q)
      BY <1>0
    <2> QED
      BY <2>1 DEF IsRange
  <1>2. ~(j > i)
    <2> SUFFICES ASSUME j > i PROVE FALSE
      OBVIOUS
    <2>1. i + 1 \in b + 1 .. j /\ i # Len(q)
      BY <1>0
    <2> QED
      BY <2>1 DEF IsRange
  <1> QED
    BY <1>0, <1>1, <1>2

LEMMA NextRangeIs ==
    ASSUME NEW q \in Seq(Int), NEW i \in 1 .. Len(q) - 1, NEW r, HasRanges(q, i, r)
    PROVE  HasRanges(q, i + 1, Prolonged(r, q[i + 1]))
  <1>1. PICK n \in Nat \ {0} : n = Len(q) /\ DOMAIN q = 1 .. n
    BY LenProperties
  <1>2. i \in 1 .. n /\ i + 1 \in 1 .. n /\ q # <<>>
    BY <1>1, EmptySeq
  <1>3. q[i] \in Int /\ q[i + 1] \in Int
    BY <1>1, <1>2, ElementOfSeq
  <1>4. /\ r \in [done : Seq(Int \X Int), start : Int, stop : Int]
        /\ r.stop = q[i]
        /\ BegunUntil(q, i) = Len(r.done) + 1
    BY DEF HasRanges
  <1>5. PICK b \in 1 .. i :
              /\ b \in RangeStarts(q) /\ r.start = q[b]
              /\ \A k \in b + 1 .. i : k \notin RangeStarts(q)
              /\ BegunUntil(q, b) = Len(r.done) + 1
              /\ \A a \in 1 .. b - 1 : a \in RangeStarts(q) =>
                    /\ BegunUntil(q, a) \in 1 .. Len(r.done)
                    /\ \A j \in a .. Len(q) :
                          IsRange(q, a, j) => r.done[BegunUntil(q, a)] = <<q[a], q[j]>>
    BY DEF HasRanges
  <1>6. PICK m \in Nat : m = Len(r.done)
    BY <1>4, LenProperties
  <1>7. i + 1 \in RangeStarts(q) <=> q[i + 1] - q[i] > Tolerance
    <2>1. i + 1 # 1 /\ (i + 1) - 1 = i
      OBVIOUS
    <2> QED
      BY <1>1, <1>2, <2>1 DEF RangeStarts
  <1>8. BegunUntil(q, i + 1) = BegunUntil(q, i) + (IF i + 1 \in RangeStarts(q) THEN 1 ELSE 0)
    BY <1>2, CountOfStarts
  <1>9. CASE i + 1 \in RangeStarts(q)
    <2>1. PICK d : d = Append(r.done, <<r.start, r.stop>>)
      OBVIOUS
    <2>2. /\ d \in Seq(Int \X Int) /\ Len(d) = m + 1 /\ d[m + 1] = <<q[b], q[i]>>
          /\ \A k \in 1 .. m : d[k] = r.done[k]
      <3>1. r.done \in Seq(Int \X Int) /\ <<r.start, r.stop>> \in Int \X Int
        BY <1>4
      <3>2. /\ Append(r.done, <<r.start, r.stop>>) \in Seq(Int \X Int)
            /\ Len(Append(r.done, <<r.start, r.stop>>)) = m + 1
            /\ Append(r.done, <<r.start, r.stop>>)[m + 1] = <<r.start, r.stop>>
            /\ \A k \in 1 .. m : Append(r.done, <<r.start, r.stop>>)[k] = r.done[k]
        BY SMTT(30), <1>6, <3>1, AppendProperties
      <3> QED
        BY <1>4, <1>5, <2>1, <3>2
    <2>3. PICK s : s = Prolonged(r, q[i + 1])
      OBVIOUS
    <2>4. s = [done |-> d, start |-> q[i + 1], stop |-> q[i + 1]]
      BY <1>4, <1>7, <1>9, <2>1, <2>3 DEF Prolonged
    <2>5. s \in [done : Seq(Int \X Int), start : Int, stop : Int]
      BY <1>3, <2>2, <2>4
    <2>6. s.stop = q[i + 1] /\ s.start = q[i + 1] /\ s.done = d
      BY <2>4
    <2>7. BegunUntil(q, i + 1) = Len(s.done) + 1
      BY <1>4, <1>6, <1>8, <1>9, <2>2, <2>6
    <2>8. ASSUME NEW a \in 1 .. (i + 1) - 1, a \in RangeStarts(q)
          PROVE  /\ BegunUntil(q, a) \in 1 .. Len(s.done)
                 /\ \A j \in a .. Len(q) :
                       IsRange(q, a, j) => s.done[BegunUntil(q, a)] = <<q[a], q[j]>>
      <3>1. CASE a < b
        <4>1. a \in 1 .. b - 1
          BY <3>1
        <4>2. /\ BegunUntil(q, a) \in 1 .. m
              /\ \A j \in a .. Len(q) :
                    IsRange(q, a, j) => r.done[BegunUntil(q, a)] = <<q[a], q[j]>>
          BY <1>5, <1>6, <2>8, <4>1
        <4>3. BegunUntil(q, a) \in 1 .. m + 1
          BY <4>2
        <4> QED
          BY <2>2, <2>6, <4>2, <4>3
      <3>2. CASE a = b
        <4>1. BegunUntil(q, a) = m + 1
          BY <1>5, <1>6, <3>2
        <4>2. ASSUME NEW j \in a .. Len(q), IsRange(q, a, j) PROVE j = i
          <5>1. b \in 1 .. Len(q) /\ i \in b .. Len(q)
            BY <1>1, <1>2
          <5> QED
            BY <1>5, <1>9, <3>2, <4>2, <5>1, RangeEndsAt
        <4>3. m + 1 \in 1 .. Len(s.done) /\ s.done[m + 1] = <<q[a], q[i]>>
          BY SMTT(30), <2>2, <2>6, <3>2
        <4> QED
          BY <4>1, <4>2, <4>3
      <3>3. CASE a > b
        <4>1. a \in b + 1 .. i
          BY <3>3
        <4> QED
          BY <1>5, <2>8, <4>1
      <3>4. a < b \/ a = b \/ a > b
        OBVIOUS
      <3> QED
        BY <3>1, <3>2, <3>3, <3>4
    <2>9. i + 1 \in 1 .. i + 1 /\ (\A k \in (i + 1) + 1 .. i + 1 : FALSE)
      OBVIOUS
    <2> QED
      BY ZenonT(60), <1>9, <2>3, <2>5, <2>6, <2>7, <2>8, <2>9 DEF HasRanges
  <1>10. CASE i + 1 \notin RangeStarts(q)
    <2>3. PICK s : s = Prolonged(r, q[i + 1])
      OBVIOUS
    <2>4. s = [r EXCEPT !.stop = q[i + 1]]
      BY <1>4, <1>7, <1>10, <2>3 DEF Prolonged
    <2>5. s \in [done : Seq(Int \X Int), start : Int, stop : Int]
      BY <1>3, <1>4, <2>4
    <2>6. s.stop = q[i + 1] /\ s.start = r.start /\ s.done = r.done
      BY <1>4, <2>4
    <2>7. BegunUntil(q, i + 1) = Len(s.done) + 1
      BY <1>4, <1>6, <1>8, <1>10, <2>6
    <2>8. ASSUME NEW k \in b + 1 .. i + 1 PROVE k \notin RangeStarts(q)
      <3>1. k = i + 1 \/ k \in b + 1 .. i
        OBVIOUS
      <3> QED
        BY <1>5, <1>10, <3>1
    <2>9. b \in 1 .. i + 1
      OBVIOUS
    <2>10. /\ b \in RangeStarts(q) /\ s.start = q[b]
           /\ BegunUntil(q, b) = Len(s.done) + 1
           /\ \A a \in 1 .. b - 1 : a \in RangeStarts(q) =>
                 /\ BegunUntil(q, a) \in 1 .. Len(s.done)
                 /\ \A j \in a .. Len(q) :
                       IsRange(q, a, j) => s.done[BegunUntil(q, a)] = <<q[a], q[j]>>
      BY <1>5, <2>6
    <2>11. HasRanges(q, i + 1, s)
      BY <2>5, <2>6, <2>7, <2>8, <2>9, <2>10 DEF HasRanges
    <2> QED
      BY <2>3, <2>11
  <1> QED
    BY <1>9, <1>10

\* times() lists the ranges of a file.
LEMMA TimesAreRanges ==
    ASSUME NEW q \in Seq(Int), q # <<>>
    PROVE  /\ Len(times(q)) = BegunUntil(q, Len(q))
           /\ \A a \in DOMAIN q : \A j \in a .. Len(q) :
                 IsRange(q, a, j) => times(q)[BegunUntil(q, a)] = <<q[a], q[j]>>
  <1>1. PICK n \in Nat \ {0} : n = Len(q) /\ DOMAIN q = 1 .. n
    BY EmptySeq, LenProperties
  <1> DEFINE T == {k \in Nat : k + 1 <= n => HasRanges(q, k + 1, Ranges(q)[k + 1])}
  <1>2. 0 \in T
    <2>1. 0 + 1 = 1
      OBVIOUS
    <2>2. HasRanges(q, 1, Ranges(q)[1])
      BY <1>1, RangesAre, FirstRangeIs
    <2> QED
      BY <2>1, <2>2
  <1>3. ASSUME NEW k \in Nat, k \in T PROVE k + 1 \in T
    <2> SUFFICES ASSUME (k + 1) + 1 <= n
                 PROVE  HasRanges(q, (k + 1) + 1, Ranges(q)[(k + 1) + 1])
      OBVIOUS
    <2>1. k + 1 \in 1 .. n - 1 /\ k + 1 <= n
      OBVIOUS
    <2>2. HasRanges(q, k + 1, Ranges(q)[k + 1])
      BY <1>3, <2>1
    <2>3. Ranges(q)[(k + 1) + 1] = Prolonged(Ranges(q)[k + 1], q[(k + 1) + 1])
      BY <1>1, <2>1, RangesAre
    <2> QED
      BY <1>1, <2>1, <2>2, <2>3, NextRangeIs
  <1> HIDE DEF T
  <1>4. n - 1 \in T
    BY <1>2, <1>3, SetInduction
  <1>5. HasRanges(q, n, Ranges(q)[n])
    <2>1. (n - 1) + 1 = n
      OBVIOUS
    <2> QED
      BY <1>4, <2>1 DEF T
  <1>6. PICK r : r = Ranges(q)[n]
    OBVIOUS
  <1>7. /\ r \in [done : Seq(Int \X Int), start : Int, stop : Int]
        /\ r.stop = q[n]
        /\ BegunUntil(q, n) = Len(r.done) + 1
    BY <1>5, <1>6 DEF HasRanges
  <1>8. PICK b \in 1 .. n :
              /\ b \in RangeStarts(q) /\ r.start = q[b]
              /\ \A k \in b + 1 .. n : k \notin RangeStarts(q)
              /\ BegunUntil(q, b) = Len(r.done) + 1
              /\ \A a \in 1 .. b - 1 : a \in RangeStarts(q) =>
                    /\ BegunUntil(q, a) \in 1 .. Len(r.done)
                    /\ \A j \in a .. Len(q) :
                          IsRange(q, a, j) => r.done[BegunUntil(q, a)] = <<q[a], q[j]>>
    BY <1>5, <1>6 DEF HasRanges
  <1>9. PICK m \in Nat : m = Len(r.done)
    BY <1>7, LenProperties
  <1>10. PICK t : t = times(q)
    OBVIOUS
  <1>11. /\ Len(t) = m + 1 /\ t[m + 1] = <<q[b], q[n]>>
         /\ \A k \in 1 .. m : t[k] = r.done[k]
    <2>1. t = Append(r.done, <<r.start, r.stop>>)
      BY <1>1, <1>6, <1>10 DEF times
    <2>2. r.done \in Seq(Int \X Int) /\ <<r.start, r.stop>> \in Int \X Int
      BY <1>7
    <2>3. /\ Len(Append(r.done, <<r.start, r.stop>>)) = m + 1
          /\ Append(r.done, <<r.start, r.stop>>)[m + 1] = <<r.start, r.stop>>
          /\ \A k \in 1 .. m : Append(r.done, <<r.start, r.stop>>)[k] = r.done[k]
      BY <1>9, <2>2, AppendProperties
    <2> QED
      BY <1>7, <1>8, <2>1, <2>3
  <1>12. ASSUME NEW a \in 1 .. n, NEW j \in a .. n, IsRange(q, a, j)
         PROVE  t[BegunUntil(q, a)] = <<q[a], q[j]>>
    <2>0. a \in RangeStarts(q)
      BY <1>12 DEF IsRange
    <2>1. CASE a < b
      <3>1. a \in 1 .. b - 1
        BY <2>1
      <3> QED
        BY <1>1, <1>8, <1>9, <1>11, <1>12, <2>0, <3>1
    <2>2. CASE a = b
      <3>1. j = n
        <4>1. b \in 1 .. Len(q) /\ n \in b .. Len(q)
          BY <1>1
        <4> QED
          BY <1>1, <1>8, <1>12, <2>2, <4>1, RangeEndsAt
      <3> QED
        BY <1>8, <1>9, <1>11, <2>2, <3>1
    <2>3. CASE a > b
      <3>1. a \in b + 1 .. n
        BY <2>3
      <3> QED
        BY <1>8, <2>0, <3>1
    <2> QED
      BY <2>1, <2>2, <2>3
  <1> QED
    BY <1>1, <1>7, <1>9, <1>10, <1>11, <1>12


-----------------------------------------------------------------------------
(* The files of a rollover stream.  The state is given as parameters, so   *)
(* that the steps can be reasoned about without primes.                    *)

Captured == [ts : 0 .. MaxTime, len : PacketLengths]

RolledOver(th, t) == \/ Reached(t.nbytes, th.nbytes)
                     \/ Reached(t.npackets, th.npackets)
                     \/ Reached((t.ticks + 1) \div 2, th.nseconds)

Begins(th, ts) == IF th.nseconds = NoLimit
                  THEN ts \div 2
                  ELSE ts \div 2 - (ts % (2 * th.nseconds)) \div 2

\* The bytes of a file with the first k packets of q.
SizeUpto(g, q, k) ==
    LET bytes[i \in 0 .. k] == IF i = 0 THEN GlobalHeaderSize
                               ELSE bytes[i - 1] + PacketHeaderSize + g[q[i]].len
    IN  bytes[k]

Coming(g, q, f, k) ==
    [nbytes |-> SizeUpto(g, q, k), npackets |-> k, ticks |-> g[q[k]].ts - 2 * f]

LEMMA InOtherWords ==
    /\ \A t : rollover(t) <=> RolledOver(threshold, t)
    /\ \A ts : startTime(ts) = Begins(threshold, ts)
    /\ \A f, k : Extent(f, k) = Coming(given, files[f], f, k)
  BY DEF rollover, RolledOver, startTime, Begins, Extent, Coming, SizeUpto

\* One packet more is so many bytes more.
LEMMA SizeGrows ==
    ASSUME NEW g, NEW q
    PROVE  /\ SizeUpto(g, q, 0) = GlobalHeaderSize
           /\ \A k \in Nat : SizeUpto(g, q, k + 1)
                              = SizeUpto(g, q, k) + PacketHeaderSize + g[q[k + 1]].len
  <1> DEFINE FilledTo(b, n) == [i \in 0 .. n |-> IF i = 0 THEN GlobalHeaderSize
                                             ELSE b[i - 1] + PacketHeaderSize + g[q[i]].len]
             Sizes(n) == CHOOSE b : b = FilledTo(b, n)
             T == {n \in Nat : \E b : b = FilledTo(b, n)}
  <1>1. 0 \in T
    <2>1. [i \in 0 .. 0 |-> GlobalHeaderSize] = FilledTo([i \in 0 .. 0 |-> GlobalHeaderSize], 0)
      OBVIOUS
    <2> QED
      BY <2>1
  <1>2. ASSUME NEW n \in Nat, n \in T PROVE n + 1 \in T
    <2>1. PICK b : b = FilledTo(b, n)
      BY <1>2
    <2> DEFINE new == b[n] + PacketHeaderSize + g[q[n + 1]].len
               h == [i \in 0 .. n + 1 |-> IF i = n + 1 THEN new ELSE b[i]]
    <2>2. (\A i \in 0 .. n : h[i] = b[i]) /\ h[n + 1] = new
      OBVIOUS
    <2>3. ASSUME NEW i \in 0 .. n + 1
          PROVE  h[i] = IF i = 0 THEN GlobalHeaderSize
                        ELSE h[i - 1] + PacketHeaderSize + g[q[i]].len
      <3>1. CASE i = n + 1
        <4>1. i # 0 /\ i - 1 = n /\ n \in 0 .. n
          BY <3>1
        <4>2. h[i] = new /\ h[n] = b[n]
          BY <2>2, <3>1, <4>1
        <4> HIDE DEF h
        <4> QED
          BY <3>1, <4>1, <4>2
      <3>2. CASE i # n + 1
        <4>1. i \in 0 .. n /\ (i # 0 => i - 1 \in 0 .. n)
          BY <3>2
        <4>2. h[i] = b[i] /\ (i # 0 => h[i - 1] = b[i - 1])
          BY <2>2, <4>1
        <4> HIDE DEF h
        <4> QED
          BY <2>1, <4>1, <4>2
      <3> QED
        BY <3>1, <3>2
    <2>4. h = [i \in 0 .. n + 1 |-> h[i]]
      OBVIOUS
    <2> HIDE DEF h
    <2>5. h = FilledTo(h, n + 1)
      BY <2>3, <2>4
    <2> QED
      BY <2>5
  <1> HIDE DEF T
  <1>3. \A n \in Nat : n \in T
    BY <1>1, <1>2, SetInduction
  <1>4. ASSUME NEW n \in Nat PROVE Sizes(n) = FilledTo(Sizes(n), n)
    <2>1. \E b : b = FilledTo(b, n)
      BY <1>3 DEF T
    <2> HIDE DEF FilledTo
    <2> QED
      BY <2>1
  <1>5. \A n : SizeUpto(g, q, n) = Sizes(n)[n]
    BY DEF SizeUpto
  <1> HIDE DEF Sizes
  <1>6. ASSUME NEW n \in Nat
        PROVE  /\ Sizes(n)[0] = GlobalHeaderSize
               /\ \A i \in 1 .. n : Sizes(n)[i] = Sizes(n)[i - 1] + PacketHeaderSize + g[q[i]].len
    <2>1. PICK b : b = Sizes(n) /\ b = FilledTo(b, n)
      BY <1>4
    <2>2. b[0] = GlobalHeaderSize
      BY <2>1
    <2>3. ASSUME NEW i \in 1 .. n PROVE b[i] = b[i - 1] + PacketHeaderSize + g[q[i]].len
      <3>1. i \in 0 .. n /\ i # 0
        OBVIOUS
      <3> QED
        BY <2>1, <3>1
    <2> QED
      BY <2>1, <2>2, <2>3
  <1>7. ASSUME NEW k \in Nat
        PROVE  \A i \in 0 .. k : Sizes(k + 1)[i] = Sizes(k)[i]
    <2> DEFINE U == {i \in Nat : i <= k => Sizes(k + 1)[i] = Sizes(k)[i]}
    <2>1. 0 \in U
      BY <1>6
    <2>2. ASSUME NEW i \in Nat, i \in U PROVE i + 1 \in U
      <3> SUFFICES ASSUME i + 1 <= k PROVE Sizes(k + 1)[i + 1] = Sizes(k)[i + 1]
        OBVIOUS
      <3>1. i + 1 \in 1 .. k + 1 /\ i + 1 \in 1 .. k /\ (i + 1) - 1 = i /\ i <= k
        OBVIOUS
      <3>2. Sizes(k + 1)[i] = Sizes(k)[i]
        BY <2>2, <3>1
      <3>3. /\ Sizes(k + 1)[i + 1] = Sizes(k + 1)[i] + PacketHeaderSize + g[q[i + 1]].len
            /\ Sizes(k)[i + 1] = Sizes(k)[i] + PacketHeaderSize + g[q[i + 1]].len
        BY <1>6, <3>1
      <3> QED
        BY <3>2, <3>3
    <2> HIDE DEF U
    <2>3. \A i \in Nat : i \in U
      BY <2>1, <2>2, SetInduction
    <2> QED
      BY <2>3 DEF U
  <1>8. ASSUME NEW k \in Nat
        PROVE  Sizes(k + 1)[k + 1] = Sizes(k)[k] + PacketHeaderSize + g[q[k + 1]].len
    <2>1. k + 1 \in Nat /\ k + 1 \in 1 .. k + 1 /\ (k + 1) - 1 = k /\ k \in 0 .. k
      OBVIOUS
    <2>2. Sizes(k + 1)[k + 1] = Sizes(k + 1)[(k + 1) - 1] + PacketHeaderSize + g[q[k + 1]].len
      BY <1>6, <2>1
    <2>3. Sizes(k + 1)[k] = Sizes(k)[k]
      BY <1>7, <2>1
    <2> QED
      BY <2>1, <2>2, <2>3
  <1>9. Sizes(0)[0] = GlobalHeaderSize
    BY <1>6
  <1> QED
    BY <1>5, <1>8, <1>9

\* The first n packets of two files are the same.
Alike(g, q, g1, q1, n) == \A i \in 1 .. n : g1[q1[i]] = g[q[i]]

\* What a file comes to does not depend on what is written after it.
LEMMA ComingStays ==
    ASSUME NEW g, NEW q, NEW g1, NEW q1, NEW n \in Nat, Alike(g, q, g1, q1, n)
    PROVE  /\ SizeUpto(g1, q1, n) = SizeUpto(g, q, n)
           /\ \A f : \A k \in 1 .. n : Coming(g1, q1, f, k) = Coming(g, q, f, k)
  <1> DEFINE T == {i \in Nat : i <= n => SizeUpto(g1, q1, i) = SizeUpto(g, q, i)}
  <1>1. 0 \in T
    BY SizeGrows
  <1>2. ASSUME NEW i \in Nat, i \in T PROVE i + 1 \in T
    <2> SUFFICES ASSUME i + 1 <= n PROVE SizeUpto(g1, q1, i + 1) = SizeUpto(g, q, i + 1)
      OBVIOUS
    <2>1. i + 1 \in 1 .. n /\ i <= n
      OBVIOUS
    <2>2. g1[q1[i + 1]] = g[q[i + 1]]
      BY <2>1 DEF Alike
    <2>3. SizeUpto(g1, q1, i) = SizeUpto(g, q, i)
      BY <1>2, <2>1
    <2>4. /\ SizeUpto(g1, q1, i + 1) = SizeUpto(g1, q1, i) + PacketHeaderSize + g1[q1[i + 1]].len
          /\ SizeUpto(g, q, i + 1) = SizeUpto(g, q, i) + PacketHeaderSize + g[q[i + 1]].len
      BY SizeGrows
    <2> QED
      BY <2>2, <2>3, <2>4
  <1> HIDE DEF T
  <1>3. \A i \in Nat : i \in T
    BY <1>1, <1>2, SetInduction
  <1>4. \A i \in 0 .. n : SizeUpto(g1, q1, i) = SizeUpto(g, q, i)
    BY <1>3 DEF T
  <1>5. ASSUME NEW f, NEW k \in 1 .. n PROVE Coming(g1, q1, f, k) = Coming(g, q, f, k)
    <2>1. k \in 0 .. n /\ g1[q1[k]] = g[q[k]]
      BY DEF Alike
    <2> QED
      BY <1>4, <2>1 DEF Coming
  <1> QED
    BY <1>4, <1>5

LEMMA RemainderAtMost ==
    ASSUME NEW a \in Nat, NEW m \in Nat \ {0}
    PROVE  a % m \in 0 .. a
  OBVIOUS

LEMMA BeginsInSecond ==
    ASSUME NEW th \in Thresholds, NEW ts \in 0 .. MaxTime
    PROVE  Begins(th, ts) \in FileNames
  <1> USE SegmentsAssumption
  <1>1. th.nseconds \in Limit \ {0}
    OBVIOUS
  <1>2. ts \div 2 \in 0 .. MaxTime \div 2
    OBVIOUS
  <1>3. CASE th.nseconds = NoLimit
    BY <1>2, <1>3 DEF Begins, FileNames
  <1>4. CASE th.nseconds # NoLimit
    <2>1. PICK m \in Nat \ {0} : m = 2 * th.nseconds
      BY <1>1, <1>4 DEF Limit
    <2>2. PICK x \in 0 .. ts : x = ts % m
      BY <2>1, RemainderAtMost
    <2>3. ts \div 2 - x \div 2 \in 0 .. MaxTime \div 2
      BY <2>2
    <2> QED
      BY <1>4, <2>1, <2>2, <2>3 DEF Begins, FileNames
  <1> QED
    BY <1>3, <1>4


\* Each file holds consecutive packets, is named after the first of them, and
\* did not reach a threshold before the last of them.
FileKept(th, g, q, f) ==
    /\ q # <<>> => Begins(th, g[q[1]].ts) = f
    /\ \A i \in 1 .. Len(q) - 1 : /\ q[i + 1] = q[i] + 1
                                  /\ ~RolledOver(th, Coming(g, q, f, i))

\* A file that is not open reached a threshold.
FileLeft(th, g, q, f) == q # <<>> => RolledOver(th, Coming(g, q, f, Len(q)))

\* The totals are those of the open file, whose last packet is the last one given.
OpenFile(th, g, fs, c, t) ==
    IF c = NoFile THEN t = Nothing
    ELSE /\ fs[c] # <<>>
         /\ fs[c][Len(fs[c])] = Len(g)
         /\ t = Coming(g, fs[c], c, Len(fs[c]))
         /\ ~RolledOver(th, t)

NoTwoBeginAlike(th, g) ==
    \A i, j \in DOMAIN g : i # j => Begins(th, g[i].ts) # Begins(th, g[j].ts)

AllInFiles(g, fs) == \A x \in DOMAIN g : \E f \in FileNames : \E k \in DOMAIN fs[f] : fs[f][k] = x

FilesAre(th, g, fs, c, t) ==
    /\ th \in Thresholds
    /\ g \in Seq(Captured)
    /\ fs \in [FileNames -> Seq(1 .. Len(g))]
    /\ c \in FileNames \cup {NoFile}
    /\ \A f \in FileNames : /\ FileKept(th, g, fs[f], f)
                            /\ f # c => FileLeft(th, g, fs[f], f)
    /\ OpenFile(th, g, fs, c, t)
    /\ NoTwoBeginAlike(th, g) => AllInFiles(g, fs)

\* The state after a packet is written.
After(t, ts, len, name, q) ==
    [nbytes |-> (IF q = <<>> THEN t.nbytes + GlobalHeaderSize ELSE t.nbytes) + PacketHeaderSize + len,
     npackets |-> t.npackets + 1,
     ticks |-> ts - 2 * name]

\* A file that is not written to.
LEMMA FileUntouched ==
    ASSUME NEW th, NEW g \in Seq(Captured), NEW p \in Captured,
           NEW q \in Seq(1 .. Len(g)), NEW f
    PROVE  /\ q \in Seq(1 .. Len(g) + 1)
           /\ FileKept(th, g, q, f) => FileKept(th, Append(g, p), q, f)
           /\ FileLeft(th, g, q, f) => FileLeft(th, Append(g, p), q, f)
  <1>1. PICK h : h = Append(g, p)
    OBVIOUS
  <1>2. PICK m \in Nat : m = Len(q) /\ DOMAIN q = 1 .. m
    BY LenProperties
  <1>3. \A i \in 1 .. m : q[i] \in 1 .. Len(g)
    BY <1>2, ElementOfSeq
  <1>4. \A i \in 1 .. Len(g) : h[i] = g[i]
    BY <1>1, AppendProperties
  <1>5. \A i \in 1 .. m : h[q[i]] = g[q[i]]
    BY <1>3, <1>4
  <1>6. \A k \in 1 .. m : Coming(h, q, f, k) = Coming(g, q, f, k)
    <2>1. Alike(g, q, h, q, m)
      BY <1>5 DEF Alike
    <2> QED
      BY <2>1, ComingStays
  <1>7. q # <<>> => m \in 1 .. m /\ 1 \in 1 .. m
    BY <1>2, EmptySeq
  <1>8. \A i \in 1 .. m - 1 : i \in 1 .. m
    OBVIOUS
  <1>9. q \in Seq(1 .. Len(g) + 1)
    <2>1. Len(g) \in Nat
      BY LenProperties
    <2>2. \A i \in 1 .. m : q[i] \in 1 .. Len(g) + 1
      BY <1>3, <2>1
    <2>3. q = [i \in 1 .. m |-> q[i]]
      BY <1>2, SeqDef
    <2> QED
      BY <2>2, <2>3, SeqDef
  <1>10. FileKept(th, g, q, f) => FileKept(th, h, q, f)
    BY <1>2, <1>5, <1>6, <1>7, <1>8 DEF FileKept
  <1>11. FileLeft(th, g, q, f) => FileLeft(th, h, q, f)
    BY <1>2, <1>6, <1>7 DEF FileLeft
  <1> QED
    BY <1>1, <1>9, <1>10, <1>11

\* The totals before p is written to a file.
BeforeWrite(th, g, p, q, f, t) ==
    IF q = <<>> THEN t = Nothing /\ Begins(th, p.ts) = f
    ELSE /\ FileKept(th, g, q, f)
         /\ q[Len(q)] = Len(g)
         /\ t = Coming(g, q, f, Len(q))
         /\ ~RolledOver(th, t)

\* The file and the totals afterwards.
FileAfter(th, g, p, q1, f, t, q) ==
    /\ q1 \in Seq(1 .. Len(g) + 1)
    /\ q1 # <<>> /\ q1[Len(q1)] = Len(g) + 1
    /\ Coming(Append(g, p), q1, f, Len(q1)) = After(t, p.ts, p.len, f, q)
    /\ FileKept(th, Append(g, p), q1, f)

\* The file that is written to.
LEMMA FileWritten ==
    ASSUME NEW th, NEW g \in Seq(Captured), NEW p \in Captured,
           NEW q \in Seq(1 .. Len(g)), NEW f \in Int, NEW t,
           BeforeWrite(th, g, p, q, f, t),
           NEW q1, q1 = Append(q, Len(g) + 1)
    PROVE  FileAfter(th, g, p, q1, f, t, q)
  <1> USE DEF BeforeWrite, FileAfter
  <1>1. PICK h : h = Append(g, p)
    OBVIOUS
  <1>2. PICK m \in Nat : m = Len(q) /\ DOMAIN q = 1 .. m
    BY LenProperties
  <1>3. PICK n \in Nat : n = Len(g)
    BY LenProperties
  <1>4. /\ \A i \in 1 .. n : h[i] = g[i]
        /\ h[n + 1] = p
    BY <1>1, <1>3, AppendProperties
  <1>5. q \in Seq(1 .. n + 1)
    BY <1>3, FileUntouched
  <1>6. /\ q1 \in Seq(1 .. n + 1) /\ Len(q1) = m + 1 /\ q1[m + 1] = n + 1
        /\ \A i \in 1 .. m : q1[i] = q[i]
    BY <1>2, <1>3, <1>5, AppendProperties
  <1>7. \A i \in 1 .. m : q[i] \in 1 .. n
    BY <1>2, <1>3, ElementOfSeq
  <1>8. \A i \in 1 .. m : h[q1[i]] = g[q[i]]
    BY <1>4, <1>6, <1>7
  <1>9. /\ SizeUpto(h, q1, m) = SizeUpto(g, q, m)
        /\ \A k \in 1 .. m : Coming(h, q1, f, k) = Coming(g, q, f, k)
    <2>1. Alike(g, q, h, q1, m)
      BY <1>8 DEF Alike
    <2> QED
      BY <2>1, ComingStays
  <1>10. SizeUpto(h, q1, m + 1) = SizeUpto(g, q, m) + PacketHeaderSize + p.len
    <2>1. SizeUpto(h, q1, m + 1) = SizeUpto(h, q1, m) + PacketHeaderSize + h[q1[m + 1]].len
      BY SizeGrows
    <2> QED
      BY <1>4, <1>6, <1>9, <2>1
  <1>11. q = <<>> <=> m = 0
    BY <1>2, EmptySeq
  <1>12. Coming(h, q1, f, m + 1) = [nbytes |-> SizeUpto(g, q, m) + PacketHeaderSize + p.len,
                                    npackets |-> m + 1, ticks |-> p.ts - 2 * f]
    BY <1>4, <1>6, <1>10 DEF Coming
  <1>13. Coming(h, q1, f, m + 1) = After(t, p.ts, p.len, f, q)
    <2>1. CASE m = 0
      <3>1. SizeUpto(g, q, m) = GlobalHeaderSize
        BY <2>1, SizeGrows
      <3>2. t.nbytes + GlobalHeaderSize = GlobalHeaderSize /\ t.npackets = 0
        BY <1>11, <2>1 DEF Nothing, GlobalHeaderSize
      <3> QED
        BY <1>11, <1>12, <2>1, <3>1, <3>2 DEF After
    <2>2. CASE m # 0
      <3>1. t.nbytes = SizeUpto(g, q, m) /\ t.npackets = m
        BY <1>2, <1>11, <2>2 DEF Coming
      <3> QED
        BY <1>11, <1>12, <2>2, <3>1 DEF After
    <2> QED
      BY <2>1, <2>2
  <1>14. q1 # <<>>
    BY <1>6, EmptySeq
  <1>15. Begins(th, h[q1[1]].ts) = f
    <2>1. CASE m = 0
      BY <1>4, <1>6, <1>11, <2>1
    <2>2. CASE m # 0
      <3>1. 1 \in 1 .. m
        BY <2>2
      <3> QED
        BY <1>8, <1>11, <2>2, <3>1 DEF FileKept
    <2> QED
      BY <2>1, <2>2
  <1>16. ASSUME NEW i \in 1 .. m
         PROVE  q1[i + 1] = q1[i] + 1 /\ ~RolledOver(th, Coming(h, q1, f, i))
    <2>1. FileKept(th, g, q, f) /\ q[m] = n /\ ~RolledOver(th, Coming(g, q, f, m))
      BY <1>2, <1>3, <1>11
    <2>2. CASE i = m
      BY <1>6, <1>9, <2>1, <2>2
    <2>3. CASE i # m
      <3>1. i \in 1 .. m - 1 /\ i + 1 \in 1 .. m
        BY <2>3
      <3> QED
        BY <1>2, <1>6, <1>9, <2>1, <3>1 DEF FileKept
    <2> QED
      BY <2>2, <2>3
  <1>17. FileKept(th, h, q1, f)
    <2>1. \A i \in 1 .. Len(q1) - 1 : i \in 1 .. m
      BY <1>6
    <2> QED
      BY <1>15, <1>16, <2>1 DEF FileKept
  <1> QED
    BY <1>1, <1>3, <1>6, <1>13, <1>14, <1>17


\* What write() does with the state.
Writes(th, g, fs, c, t, ts, len, name, after, g1, fs1, c1, t1) ==
    /\ name = IF c = NoFile THEN Begins(th, ts) ELSE c
    /\ after = After(t, ts, len, name, IF c = NoFile THEN <<>> ELSE fs[c])
    /\ g1 = Append(g, [ts |-> ts, len |-> len])
    /\ fs1 = [fs EXCEPT ![name] = Append(IF c = NoFile THEN <<>> ELSE @, Len(g1))]
    /\ c1 = IF RolledOver(th, after) THEN NoFile ELSE name
    /\ t1 = IF RolledOver(th, after) THEN Nothing ELSE after

LEMMA FilesAreStep ==
    ASSUME NEW th, NEW g, NEW fs, NEW c, NEW t, FilesAre(th, g, fs, c, t),
           NEW ts \in 0 .. MaxTime, NEW len \in PacketLengths,
           NEW name, NEW after,
           NEW g1, NEW fs1, NEW c1, NEW t1,
           Writes(th, g, fs, c, t, ts, len, name, after, g1, fs1, c1, t1)
    PROVE  FilesAre(th, g1, fs1, c1, t1)
  <1> USE SegmentsAssumption
  <1>0. /\ name = IF c = NoFile THEN Begins(th, ts) ELSE c
        /\ after = After(t, ts, len, name, IF c = NoFile THEN <<>> ELSE fs[c])
        /\ g1 = Append(g, [ts |-> ts, len |-> len])
        /\ fs1 = [fs EXCEPT ![name] = Append(IF c = NoFile THEN <<>> ELSE @, Len(g1))]
        /\ c1 = IF RolledOver(th, after) THEN NoFile ELSE name
        /\ t1 = IF RolledOver(th, after) THEN Nothing ELSE after
    BY DEF Writes
  <1>1. /\ th \in Thresholds
        /\ g \in Seq(Captured)
        /\ fs \in [FileNames -> Seq(1 .. Len(g))]
        /\ c \in FileNames \cup {NoFile}
        /\ \A f \in FileNames : /\ FileKept(th, g, fs[f], f)
                                /\ f # c => FileLeft(th, g, fs[f], f)
        /\ OpenFile(th, g, fs, c, t)
        /\ NoTwoBeginAlike(th, g) => AllInFiles(g, fs)
    BY DEF FilesAre
  <1>2. PICK p \in Captured : p = [ts |-> ts, len |-> len]
    BY DEF Captured
  <1>3. PICK n \in Nat : n = Len(g) /\ DOMAIN g = 1 .. n
    BY <1>1, LenProperties
  <1>4. /\ g1 = Append(g, p) /\ g1 \in Seq(Captured)
        /\ Len(g1) = n + 1 /\ DOMAIN g1 = 1 .. n + 1 /\ g1[n + 1] = p
        /\ \A i \in 1 .. n : g1[i] = g[i]
    <2>1. /\ g1 = Append(g, p) /\ g1 \in Seq(Captured)
          /\ Len(g1) = n + 1 /\ g1[n + 1] = p
          /\ \A i \in 1 .. n : g1[i] = g[i]
      BY <1>0, <1>1, <1>2, <1>3, AppendProperties
    <2> QED
      BY <2>1, LenProperties
  <1>5. name \in FileNames /\ name \in Int /\ NoFile \notin FileNames
    <2>1. FileNames \subseteq Int
      BY DEF FileNames
    <2>2. name \in FileNames
      BY <1>0, <1>1, BeginsInSecond
    <2> QED
      BY <2>1, <2>2
  <1>6. PICK q : q = IF c = NoFile THEN <<>> ELSE fs[name]
    OBVIOUS
  <1>7. PICK q1 : q1 = Append(q, n + 1)
    OBVIOUS
  <1>8. fs1 = [fs EXCEPT ![name] = q1]
    BY <1>0, <1>4, <1>6, <1>7
  <1>9. fs1[name] = q1 /\ (\A f \in FileNames \ {name} : fs1[f] = fs[f])
    BY <1>1, <1>5, <1>8
  <1>10. q \in Seq(1 .. Len(g)) /\ (q = <<>> <=> c = NoFile)
    BY <1>0, <1>1, <1>5, <1>6, EmptySeq DEF OpenFile
  <1>11. /\ q1 \in Seq(1 .. Len(g) + 1)
         /\ q1 # <<>> /\ q1[Len(q1)] = Len(g) + 1
         /\ Coming(g1, q1, name, Len(q1)) = after
         /\ FileKept(th, g1, q1, name)
    <2>1. BeforeWrite(th, g, p, q, name, t)
      BY <1>0, <1>1, <1>2, <1>5, <1>6, <1>10 DEF OpenFile, BeforeWrite
    <2>2. q1 = Append(q, Len(g) + 1)
      BY <1>3, <1>7
    <2>3. /\ q1 \in Seq(1 .. Len(g) + 1)
          /\ q1 # <<>> /\ q1[Len(q1)] = Len(g) + 1
          /\ Coming(Append(g, p), q1, name, Len(q1)) = After(t, p.ts, p.len, name, q)
          /\ FileKept(th, Append(g, p), q1, name)
      <3>1. g \in Seq(Captured)
        BY <1>1
      <3>2. q \in Seq(1 .. Len(g)) /\ name \in Int
        BY <1>5, <1>10
      <3>3. FileAfter(th, g, p, q1, name, t, q)
        BY <2>1, <2>2, <3>1, <3>2, FileWritten
      <3> QED
        BY <3>3 DEF FileAfter
    <2>4. After(t, p.ts, p.len, name, q) = after
      <3>1. p.ts = ts /\ p.len = len
        BY <1>2
      <3>2. q = IF c = NoFile THEN <<>> ELSE fs[c]
        BY <1>0, <1>6
      <3> QED
        BY <1>0, <3>1, <3>2
    <2> QED
      BY <1>4, <2>3, <2>4
  <1>12. ASSUME NEW f \in FileNames \ {name}
         PROVE  /\ fs1[f] \in Seq(1 .. Len(g) + 1)
                /\ FileKept(th, g1, fs1[f], f)
                /\ FileLeft(th, g1, fs1[f], f)
    <2>1. fs[f] \in Seq(1 .. Len(g)) /\ fs1[f] = fs[f]
      BY <1>1, <1>9
    <2>2. f # c
      BY <1>0, <1>5
    <2>3. FileKept(th, g, fs[f], f) /\ FileLeft(th, g, fs[f], f)
      BY <1>1, <2>2
    <2>4. PICK q2 \in Seq(1 .. Len(g)) : q2 = fs[f]
      BY <2>1
    <2>5. /\ q2 \in Seq(1 .. Len(g) + 1)
          /\ FileKept(th, Append(g, p), q2, f)
          /\ FileLeft(th, Append(g, p), q2, f)
      <3>1. g \in Seq(Captured) /\ FileKept(th, g, q2, f) /\ FileLeft(th, g, q2, f)
        BY <1>1, <2>3, <2>4
      <3> QED
        BY <3>1, FileUntouched
    <2> QED
      BY <1>4, <2>1, <2>4, <2>5
  <1>13. fs1 \in [FileNames -> Seq(1 .. Len(g1))]
    <2>1. fs1 = [f \in FileNames |-> fs1[f]]
      BY <1>1, <1>8
    <2>2. ASSUME NEW f \in FileNames PROVE fs1[f] \in Seq(1 .. Len(g1))
      BY <1>3, <1>4, <1>9, <1>11, <1>12
    <2> QED
      BY <2>1, <2>2
  <1>14. ASSUME NEW f \in FileNames
         PROVE  /\ FileKept(th, g1, fs1[f], f)
                /\ f # c1 => FileLeft(th, g1, fs1[f], f)
    <2>1. CASE f = name
      <3>1. f # c1 => RolledOver(th, after)
        BY <1>0, <2>1
      <3> QED
        BY <1>9, <1>11, <2>1, <3>1 DEF FileLeft
    <2>2. CASE f # name
      BY <1>12, <2>2
    <2> QED
      BY <2>1, <2>2
  <1>15. OpenFile(th, g1, fs1, c1, t1)
    <2>1. CASE RolledOver(th, after)
      BY <1>0, <2>1 DEF OpenFile
    <2>2. CASE ~RolledOver(th, after)
      <3>1. c1 = name /\ t1 = after /\ c1 # NoFile
        BY <1>0, <1>5, <2>2
      <3> QED
        BY <1>3, <1>4, <1>9, <1>11, <2>2, <3>1 DEF OpenFile
    <2> QED
      BY <2>1, <2>2
  <1>16. ASSUME NoTwoBeginAlike(th, g1) PROVE AllInFiles(g1, fs1)
    <2>1. NoTwoBeginAlike(th, g)
      BY <1>3, <1>4, <1>16 DEF NoTwoBeginAlike
    <2>2. AllInFiles(g, fs)
      BY <1>1, <2>1
    <2>3. c = NoFile => fs[name] = <<>>
      <3> SUFFICES ASSUME c = NoFile, fs[name] # <<>> PROVE FALSE
        OBVIOUS
      <3>1. fs[name] \in Seq(1 .. Len(g)) /\ Begins(th, g[fs[name][1]].ts) = name
        BY <1>0, <1>1, <1>5 DEF FileKept
      <3>2. fs[name][1] \in 1 .. n
        <4>1. 1 \in 1 .. Len(fs[name])
          BY <3>1, EmptySeq, LenProperties
        <4> QED
          BY <1>3, <3>1, <4>1, ElementOfSeq
      <3>3. PICK i \in 1 .. n : i = fs[name][1]
        BY <3>2
      <3>4. i \in DOMAIN g1 /\ n + 1 \in DOMAIN g1 /\ i # n + 1
        BY <1>4
      <3>5. g1[i] = g[i] /\ g1[n + 1].ts = ts
        BY <1>2, <1>4
      <3>6. Begins(th, g1[i].ts) = Begins(th, g1[n + 1].ts)
        BY <1>0, <3>1, <3>3, <3>5
      <3> QED
        BY <1>16, <3>4, <3>6 DEF NoTwoBeginAlike
    <2>4. q = fs[name]
      BY <1>6, <2>3
    <2>5. PICK m \in Nat : m = Len(q) /\ DOMAIN q = 1 .. m
      BY <1>10, LenProperties
    <2>6. /\ DOMAIN q1 = 1 .. m + 1 /\ q1[m + 1] = n + 1
          /\ \A i \in 1 .. m : q1[i] = q[i]
      <3>1. q \in Seq(1 .. n + 1) /\ n + 1 \in 1 .. n + 1
        BY <1>1, <1>2, <1>3, <1>10, FileUntouched
      <3>2. /\ q1 \in Seq(1 .. n + 1) /\ Len(q1) = m + 1 /\ q1[m + 1] = n + 1
            /\ \A i \in 1 .. m : q1[i] = q[i]
        BY <1>7, <2>5, <3>1, AppendProperties
      <3> QED
        BY <3>2, LenProperties
    <2>7. ASSUME NEW x \in DOMAIN g1
          PROVE  \E f \in FileNames : \E k \in DOMAIN fs1[f] : fs1[f][k] = x
      <3>1. CASE x = n + 1
        <4>1. m + 1 \in DOMAIN fs1[name] /\ fs1[name][m + 1] = x
          BY <1>9, <2>6, <3>1
        <4> QED
          BY <1>5, <4>1
      <3>2. CASE x # n + 1
        <4>1. x \in DOMAIN g
          BY <1>3, <1>4, <3>2
        <4>2. PICK f \in FileNames : \E k \in DOMAIN fs[f] : fs[f][k] = x
          BY <2>2, <4>1 DEF AllInFiles
        <4>3. PICK k \in DOMAIN fs[f] : fs[f][k] = x
          BY <4>2
        <4>4. k \in DOMAIN fs1[f] /\ fs1[f][k] = x
          <5>1. CASE f = name
            <6>1. k \in 1 .. m /\ k \in 1 .. m + 1 /\ q1[k] = x
              BY <2>4, <2>5, <2>6, <4>3, <5>1
            <6> QED
              BY <1>9, <2>6, <5>1, <6>1
          <5>2. CASE f # name
            BY <1>9, <4>3, <5>2
          <5> QED
            BY <5>1, <5>2
        <4> QED
          BY <4>4
      <3> QED
        BY <3>1, <3>2
    <2> QED
      BY <2>7 DEF AllInFiles
  <1>17. c1 \in FileNames \cup {NoFile}
    BY <1>0, <1>5
  <1> QED
    BY <1>1, <1>4, <1>13, <1>14, <1>15, <1>16, <1>17 DEF FilesAre


-----------------------------------------------------------------------------
\* When segment() has closed the stream the files stay as they were.
SegmentsInvariant ==
    /\ Len(given) <= MaxGiven
    /\ current \in FileNames \cup {NoFile}
    /\ total \in [nbytes : Nat, npackets : Nat, ticks : Int]
    /\ segmenting \in BOOLEAN
    /\ segmenting => FilesAre(threshold, given, files, current, total)
    /\ \E c, t : FilesAre(threshold, given, files, c, t)

LEMMA SegmentsStart ==
    SegmentsInit => SegmentsInvariant
  <1> SUFFICES ASSUME SegmentsInit PROVE SegmentsInvariant
    OBVIOUS
  <1> USE SegmentsAssumption
  <1>1. /\ threshold \in Thresholds /\ given = <<>> /\ files = [f \in FileNames |-> <<>>]
        /\ current = NoFile /\ total = Nothing /\ segmenting = TRUE
    BY DEF SegmentsInit
  <1>2. given \in Seq(Captured) /\ Len(given) = 0 /\ DOMAIN given = {}
    BY <1>1, EmptySeq
  <1>3. files \in [FileNames -> Seq(1 .. Len(given))]
    BY <1>1, EmptySeq
  <1>4. ASSUME NEW f \in FileNames
        PROVE  FileKept(threshold, given, files[f], f) /\ FileLeft(threshold, given, files[f], f)
    <2>1. files[f] = <<>> /\ 1 .. Len(files[f]) - 1 = {}
      BY <1>1, EmptySeq
    <2> QED
      BY <2>1 DEF FileKept, FileLeft
  <1>5. AllInFiles(given, files)
    BY <1>2 DEF AllInFiles
  <1>6. FilesAre(threshold, given, files, current, total)
    BY <1>1, <1>2, <1>3, <1>4, <1>5 DEF FilesAre, OpenFile
  <1>7. total \in [nbytes : Nat, npackets : Nat, ticks : Int]
    BY <1>1 DEF Nothing
  <1>8. Len(given) <= MaxGiven /\ segmenting \in BOOLEAN
    BY <1>1, <1>2
  <1> QED
    BY <1>1, <1>6, <1>7, <1>8 DEF SegmentsInvariant

LEMMA SegmentsKeep ==
    ASSUME SegmentsInvariant, [SegmentsNext]_segmentVars
    PROVE  SegmentsInvariant'
  <1> USE SegmentsAssumption
  <1>1. ASSUME NEW ts \in 0 .. MaxTime, NEW len \in PacketLengths, WritePacket(ts, len)
        PROVE  SegmentsInvariant'
    <2>1. PICK th : th = threshold
      OBVIOUS
    <2>2. PICK g : g = given
      OBVIOUS
    <2>3. PICK fs : fs = files
      OBVIOUS
    <2>4. PICK c : c = current
      OBVIOUS
    <2>5. PICK t : t = total
      OBVIOUS
    <2>6. FilesAre(th, g, fs, c, t) /\ segmenting
      BY <1>1, <2>1, <2>2, <2>3, <2>4, <2>5 DEF SegmentsInvariant, WritePacket
    <2>7. PICK q : q = IF c = NoFile THEN <<>> ELSE fs[c]
      OBVIOUS
    <2>8. PICK name : name = (IF c = NoFile THEN Begins(th, ts) ELSE c)
      OBVIOUS
    <2>9. PICK after : after = After(t, ts, len, name, q)
      OBVIOUS
    <2>10. t \in [nbytes : Nat, npackets : Nat, ticks : Int]
      BY <2>5 DEF SegmentsInvariant
    <2>11. name \in FileNames
      <3>1. th \in Thresholds /\ c \in FileNames \cup {NoFile}
        BY <2>6 DEF FilesAre
      <3> QED
        BY <2>8, <3>1, BeginsInSecond
    <2>12. after = [nbytes |-> [t EXCEPT !.nbytes = IF c = NoFile THEN @ + GlobalHeaderSize ELSE @].nbytes
                                 + PacketHeaderSize + len,
                    npackets |-> [t EXCEPT !.nbytes = IF c = NoFile THEN @ + GlobalHeaderSize ELSE @].npackets + 1,
                    ticks |-> ts - 2 * name]
      <3>1. q = <<>> <=> c = NoFile
        BY <2>6, <2>7 DEF FilesAre, OpenFile
      <3> QED
        BY <2>9, <2>10, <3>1 DEF After
    <2>13. PICK g1 : g1 = Append(g, [ts |-> ts, len |-> len])
      OBVIOUS
    <2>14. PICK fs1 : fs1 = [fs EXCEPT ![name] = Append(IF c = NoFile THEN <<>> ELSE @, Len(g1))]
      OBVIOUS
    <2>15. PICK c1 : c1 = IF RolledOver(th, after) THEN NoFile ELSE name
      OBVIOUS
    <2>16. PICK t1 : t1 = IF RolledOver(th, after) THEN Nothing ELSE after
      OBVIOUS
    <2>17. FilesAre(th, g1, fs1, c1, t1)
      <3>1. Writes(th, g, fs, c, t, ts, len, name, after, g1, fs1, c1, t1)
        BY <2>7, <2>8, <2>9, <2>13, <2>14, <2>15, <2>16 DEF Writes
      <3> QED
        BY <2>6, <3>1, FilesAreStep
    <2>18. /\ threshold' = th /\ given' = g1 /\ files' = fs1 /\ current' = c1 /\ total' = t1
           /\ segmenting' = segmenting /\ Len(g) < MaxGiven
      BY <1>1, <2>1, <2>2, <2>3, <2>4, <2>5, <2>8, <2>12, <2>13, <2>14, <2>15, <2>16, InOtherWords
         DEF WritePacket
    <2>19. Len(g1) <= MaxGiven
      <3>1. g \in Seq(Captured) /\ [ts |-> ts, len |-> len] \in Captured
        BY <2>6 DEF FilesAre, Captured
      <3>2. Len(g) \in Nat /\ Len(g1) = Len(g) + 1
        BY <2>13, <3>1, AppendProperties, LenProperties
      <3> QED
        BY <2>18, <3>2
    <2>20. t1 \in [nbytes : Nat, npackets : Nat, ticks : Int]
      <3>1. len \in Nat /\ name \in Int
        BY <2>11 DEF FileNames
      <3>2. after \in [nbytes : Nat, npackets : Nat, ticks : Int]
        BY SMTT(30), <2>9, <2>10, <3>1 DEF After, GlobalHeaderSize, PacketHeaderSize
      <3>3. Nothing \in [nbytes : Nat, npackets : Nat, ticks : Int]
        BY DEF Nothing
      <3> QED
        BY <2>16, <3>2, <3>3
    <2>21. c1 \in FileNames \cup {NoFile}
      BY <2>11, <2>15
    <2>22. segmenting' \in BOOLEAN
      BY <2>6, <2>18
    <2> QED
      BY <2>17, <2>18, <2>19, <2>20, <2>21, <2>22 DEF SegmentsInvariant
  <1>2. CASE CloseStream
    <2>1. /\ threshold' = threshold /\ given' = given /\ files' = files
          /\ current' = NoFile /\ total' = Nothing /\ segmenting' = FALSE
      BY <1>2 DEF CloseStream
    <2>2. Nothing \in [nbytes : Nat, npackets : Nat, ticks : Int]
      BY DEF Nothing
    <2> QED
      BY <2>1, <2>2 DEF SegmentsInvariant
  <1>3. CASE segmentVars' = segmentVars
    BY <1>3 DEF SegmentsInvariant, segmentVars
  <1> QED
    BY <1>1, <1>2, <1>3 DEF SegmentsNext

LEMMA WiderSeq ==
    ASSUME NEW S, NEW T, S \subseteq T, NEW q \in Seq(S)
    PROVE  q \in Seq(T)
  <1>1. PICK n \in Nat : n = Len(q) /\ DOMAIN q = 1 .. n
    BY LenProperties
  <1>2. q = [i \in 1 .. n |-> q[i]]
    BY <1>1, SeqDef
  <1>3. \A i \in 1 .. n : q[i] \in T
    BY <1>1, ElementOfSeq
  <1> QED
    BY <1>2, <1>3, SeqDef

LEMMA SegmentsAlways ==
    SegmentsSpec => []SegmentsInvariant
  <1>1. SegmentsInit => SegmentsInvariant
    BY SegmentsStart
  <1>2. SegmentsInvariant /\ [SegmentsNext]_segmentVars => SegmentsInvariant'
    BY SegmentsKeep
  <1> QED
    BY <1>1, <1>2, PTL DEF SegmentsSpec

\* The variables of a rollover stream hold what the code keeps in them: every
\* file is named after a second of the capture (pcap.py 215-340).
THEOREM SegmentsTypeCorrect == SegmentsSpec => []SegmentsTypes
  <1>1. SegmentsInvariant => SegmentsTypes
    <2> SUFFICES ASSUME SegmentsInvariant PROVE SegmentsTypes
      OBVIOUS
    <2>1. /\ threshold \in Thresholds
          /\ given \in Seq(Captured)
          /\ files \in [FileNames -> Seq(1 .. Len(given))]
      BY DEF SegmentsInvariant, FilesAre
    <2>2. Len(given) \in Nat /\ Len(given) <= MaxGiven
      BY <2>1, LenProperties DEF SegmentsInvariant
    <2>3. 1 .. Len(given) \subseteq 1 .. MaxGiven
      BY <2>2, SegmentsAssumption
    <2>4. files \in [FileNames -> Seq(1 .. MaxGiven)]
      <3>1. ASSUME NEW f \in FileNames PROVE files[f] \in Seq(1 .. MaxGiven)
        <4>1. files[f] \in Seq(1 .. Len(given))
          BY <2>1
        <4> QED
          BY <2>3, <4>1, WiderSeq
      <3> QED
        BY <2>1, <3>1
    <2> QED
      BY <2>1, <2>4 DEF SegmentsTypes, SegmentsInvariant, Captured
  <1> QED
    BY <1>1, SegmentsAlways, PTL

\* segment() writes every packet to a file that begins at that packet's second
\* or holds the one before; it closes a file as soon as that reaches a
\* threshold and no sooner, and loses a packet only where two begin files of
\* the same name (pcap.py 258-340).
THEOREM SegmentsRight == SegmentsSpec => []SegmentsAsAsked
  <1>1. SegmentsInvariant => SegmentsAsAsked
    <2> SUFFICES ASSUME SegmentsInvariant PROVE SegmentsAsAsked
      OBVIOUS
    <2>1. PICK c, t : FilesAre(threshold, given, files, c, t)
      BY DEF SegmentsInvariant
    <2>2. /\ given \in Seq(Captured)
          /\ files \in [FileNames -> Seq(1 .. Len(given))]
          /\ c \in FileNames \cup {NoFile}
          /\ \A f \in FileNames : /\ FileKept(threshold, given, files[f], f)
                                  /\ f # c => FileLeft(threshold, given, files[f], f)
          /\ OpenFile(threshold, given, files, c, t)
          /\ NoTwoBeginAlike(threshold, given) => AllInFiles(given, files)
      BY <2>1 DEF FilesAre
    <2>3. ASSUME NEW f \in FileNames, NEW n, n = Len(files[f]), n > 0
          PROVE  /\ \A i \in 1 .. n - 1 : /\ files[f][i + 1] = files[f][i] + 1
                                          /\ ~rollover(Extent(f, i))
                 /\ files[f][n] < Len(given) => rollover(Extent(f, n))
      <3>1. \A i \in 1 .. n - 1 : /\ files[f][i + 1] = files[f][i] + 1
                                  /\ ~rollover(Extent(f, i))
        BY <2>2, <2>3, InOtherWords DEF FileKept
      <3>2. ASSUME files[f][n] < Len(given) PROVE rollover(Extent(f, n))
        <4>1. f # c
          <5> SUFFICES ASSUME f = c PROVE FALSE
            OBVIOUS
          <5>1. f # NoFile
            BY SegmentsAssumption DEF FileNames
          <5>2. files[f][n] = Len(given) /\ Len(given) \in Nat
            BY <2>2, <2>3, <5>1, LenProperties DEF OpenFile
          <5> QED
            BY <3>2, <5>2
        <4>2. files[f] # <<>>
          BY <2>3, EmptySeq
        <4> QED
          BY <2>2, <2>3, <4>1, <4>2, InOtherWords DEF FileLeft
      <3> QED
        BY <3>1, <3>2
    <2>4. ASSUME \A i, j \in DOMAIN given : i # j => startTime(given[i].ts) # startTime(given[j].ts)
          PROVE  DOMAIN given = UNION {{files[f][k] : k \in DOMAIN files[f]} : f \in FileNames}
      <3>1. AllInFiles(given, files)
        <4>1. NoTwoBeginAlike(threshold, given)
          BY <2>4, InOtherWords DEF NoTwoBeginAlike
        <4> QED
          BY <2>2, <4>1
      <3>2. ASSUME NEW f \in FileNames, NEW k \in DOMAIN files[f]
            PROVE  files[f][k] \in DOMAIN given
        <4>1. files[f] \in Seq(1 .. Len(given))
          BY <2>2
        <4>2. files[f][k] \in 1 .. Len(given)
          BY <4>1, LenProperties, ElementOfSeq
        <4> QED
          BY <2>2, <4>2, LenProperties
      <3>3. DOMAIN given \subseteq UNION {{files[f][k] : k \in DOMAIN files[f]} : f \in FileNames}
        BY <3>1 DEF AllInFiles
      <3>4. UNION {{files[f][k] : k \in DOMAIN files[f]} : f \in FileNames} \subseteq DOMAIN given
        BY <3>2
      <3> QED
        BY <3>3, <3>4
    <2> QED
      BY <2>3, <2>4 DEF SegmentsAsAsked
  <1> QED
    BY <1>1, SegmentsAlways, PTL

\* times() begins a new range exactly where the packets of a file are further
\* apart than the tolerance, and gives each its first and last time stamp, in
\* order (pcap.py 530-561).
THEOREM TimesAreRight == SegmentsSpec => []TimesTellGaps
  <1>1. SegmentsInvariant => TimesTellGaps
    <2> SUFFICES ASSUME SegmentsInvariant, NEW f \in FileNames, NEW q, q = StampsOf(f), q # <<>>
                 PROVE  /\ Len(times(q)) = BegunUntil(q, Len(q))
                        /\ \A i \in DOMAIN q : \A j \in i .. Len(q) :
                              IsRange(q, i, j) => times(q)[BegunUntil(q, i)] = <<q[i], q[j]>>
      BY DEF TimesTellGaps
    <2>1. given \in Seq(Captured) /\ files[f] \in Seq(1 .. Len(given))
      BY DEF SegmentsInvariant, FilesAre
    <2>2. PICK n \in Nat : n = Len(files[f]) /\ DOMAIN files[f] = 1 .. n
      BY <2>1, LenProperties
    <2>3. ASSUME NEW i \in 1 .. n PROVE given[files[f][i]].ts \in Int
      <3>1. files[f][i] \in 1 .. Len(given)
        BY <2>1, <2>2, ElementOfSeq
      <3>2. given[files[f][i]] \in Captured
        BY <2>1, <3>1, ElementOfSeq
      <3> QED
        BY <3>2 DEF Captured
    <2>4. q = [i \in 1 .. n |-> given[files[f][i]].ts]
      BY <2>2 DEF StampsOf
    <2>5. q \in Seq(Int)
      BY <2>3, <2>4, SeqDef
    <2> QED
      BY <2>5, TimesAreRanges
  <1> QED
    BY <1>1, SegmentsAlways, PTL

-----------------------------------------------------------------------------
(* Reading a file of packets.                                              *)

EndOf(file, i) == IF i + 1 + file[i].incl_len <= Len(file) THEN i + 1 + file[i].incl_len ELSE Len(file)

\* What is read from each block on.
ReadFrom(file) ==
    LET from[i \in 1 .. Len(file) + 1] ==
            IF ~IsHeader(file, i) THEN <<>>
            ELSE <<SubSeq(file, i + 2, EndOf(file, i))>> \o from[EndOf(file, i) + 1]
    IN  from

LEMMA PacketsAreRead ==
    ASSUME NEW file, file # <<>>
    PROVE  PacketsOf(file) = ReadFrom(file)[2]
  BY DEF PacketsOf, ReadFrom, EndOf

Step(file, i, rest) == IF ~IsHeader(file, i) THEN <<>>
                       ELSE <<SubSeq(file, i + 2, EndOf(file, i))>> \o rest

LEMMA NextIsBehind ==
    ASSUME NEW file \in Seq(Blocks), NEW i \in 1 .. Len(file) + 1, IsHeader(file, i)
    PROVE  EndOf(file, i) + 1 \in i + 1 .. Len(file) + 1
  <1>1. PICK n \in Nat : n = Len(file)
    BY LenProperties
  <1>2. i \in 1 .. n /\ i < n /\ file[i].part = "header"
    BY <1>1 DEF IsHeader
  <1>3. file[i] \in Blocks
    BY <1>1, <1>2, ElementOfSeq
  <1>4. file[i].incl_len \in Nat
    BY <1>2, <1>3, CaptureFileAssumption DEF Blocks, GlobalHeader
  <1> QED
    BY <1>1, <1>2, <1>4 DEF EndOf

\* Each reading goes on with what is read behind it.
LEMMA ReadingGoesOn ==
    ASSUME NEW file \in Seq(Blocks)
    PROVE  \A i \in 1 .. Len(file) + 1 :
              /\ ReadFrom(file)[i] = Step(file, i, ReadFrom(file)[EndOf(file, i) + 1])
              /\ ReadFrom(file)[i] \in Seq(Seq(Blocks))
  <1>1. PICK n \in Nat : n = Len(file)
    BY LenProperties
  <1> DEFINE Back(g, d) == [i \in n + 1 - d .. n + 1 |-> Step(file, i, g[EndOf(file, i) + 1])]
             T == {d \in Nat : d <= n => \E g : g = Back(g, d)}
  <1>2. \A i \in 1 .. n + 1 : IsHeader(file, i) => EndOf(file, i) + 1 \in i + 1 .. n + 1
    BY <1>1, NextIsBehind
  <1>3. 0 \in T
    <2>1. ~IsHeader(file, n + 1)
      BY <1>1 DEF IsHeader
    <2> DEFINE g == [i \in n + 1 .. n + 1 |-> <<>>]
    <2>2. \A i \in n + 1 .. n + 1 : Step(file, i, g[EndOf(file, i) + 1]) = <<>>
      BY <2>1 DEF Step
    <2>3. n + 1 - 0 = n + 1
      OBVIOUS
    <2>4. g = Back(g, 0)
      BY <2>2, <2>3
    <2> QED
      BY <2>4
  <1>4. ASSUME NEW d \in Nat, d \in T PROVE d + 1 \in T
    <2> SUFFICES ASSUME d + 1 <= n PROVE \E g : g = Back(g, d + 1)
      OBVIOUS
    <2>1. PICK g : g = Back(g, d)
      BY <1>4
    <2>2. PICK a \in 1 .. n : a = n - d
      OBVIOUS
    <2>3. n + 1 - d = a + 1 /\ n + 1 - (d + 1) = a
      BY <2>2
    <2> DEFINE new == Step(file, a, g[EndOf(file, a) + 1])
               h == [i \in a .. n + 1 |-> IF i = a THEN new ELSE g[i]]
    <2>4. (\A i \in a + 1 .. n + 1 : h[i] = g[i]) /\ h[a] = new
      BY <2>2
    <2>5. ASSUME NEW i \in a .. n + 1
          PROVE  h[i] = Step(file, i, h[EndOf(file, i) + 1])
      <3>1. i \in 1 .. n + 1
        BY <2>2
      <3>2. h[i] = Step(file, i, g[EndOf(file, i) + 1])
        <4>1. CASE i = a
          BY <2>4, <4>1
        <4>2. CASE i # a
          <5>1. i \in a + 1 .. n + 1
            BY <4>2
          <5>2. g[i] = Step(file, i, g[EndOf(file, i) + 1])
            BY <2>1, <2>3, <5>1
          <5> QED
            BY <2>4, <5>1, <5>2
        <4> QED
          BY <4>1, <4>2
      <3>3. CASE IsHeader(file, i)
        <4>1. EndOf(file, i) + 1 \in a + 1 .. n + 1
          BY <1>2, <2>2, <3>1, <3>3
        <4> QED
          BY <2>4, <3>2, <4>1
      <3>4. CASE ~IsHeader(file, i)
        BY <3>2, <3>4 DEF Step
      <3> QED
        BY <3>3, <3>4
    <2>6. h = [i \in a .. n + 1 |-> h[i]]
      OBVIOUS
    <2> HIDE DEF h
    <2>7. h = Back(h, d + 1)
      BY <2>3, <2>5, <2>6
    <2> QED
      BY <2>7
  <1> HIDE DEF T
  <1>5. n \in T
    BY <1>3, <1>4, SetInduction
  <1>6. PICK f : f = [i \in 1 .. n + 1 |-> Step(file, i, f[EndOf(file, i) + 1])]
    <2>1. n + 1 - n = 1
      OBVIOUS
    <2> QED
      BY <1>5, <2>1 DEF T
  <1>7. ReadFrom(file) = CHOOSE f1 : f1 = [i \in 1 .. n + 1 |-> Step(file, i, f1[EndOf(file, i) + 1])]
    BY <1>1 DEF ReadFrom, Step
  <1>8. PICK r : r = ReadFrom(file) /\ r = [i \in 1 .. n + 1 |-> Step(file, i, r[EndOf(file, i) + 1])]
    BY <1>6, <1>7
  <1>9. \A i \in 1 .. n + 1 : r[i] = Step(file, i, r[EndOf(file, i) + 1])
    BY <1>8
  <1> DEFINE U == {d \in Nat : \A i \in 1 .. n + 1 : i >= n + 1 - d => r[i] \in Seq(Seq(Blocks))}
  <1>10. 0 \in U
    <2>1. ASSUME NEW i \in 1 .. n + 1, i >= n + 1 PROVE r[i] \in Seq(Seq(Blocks))
      <3>1. ~IsHeader(file, i)
        BY <1>1, <2>1 DEF IsHeader
      <3>2. r[i] = <<>>
        BY <1>9, <3>1 DEF Step
      <3> QED
        BY <3>2, EmptySeq
    <2> QED
      BY <2>1
  <1>11. ASSUME NEW d \in Nat, d \in U PROVE d + 1 \in U
    <2>1. ASSUME NEW i \in 1 .. n + 1, i >= n + 1 - (d + 1) PROVE r[i] \in Seq(Seq(Blocks))
      <3>1. CASE ~IsHeader(file, i)
        <4>1. r[i] = <<>>
          BY <1>9, <3>1 DEF Step
        <4> QED
          BY <4>1, EmptySeq
      <3>2. CASE IsHeader(file, i)
        <4>1. PICK e \in i + 1 .. n + 1 : e = EndOf(file, i) + 1
          BY <1>2, <3>2
        <4>2. r[e] \in Seq(Seq(Blocks))
          BY <1>11, <2>1, <4>1
        <4>3. SubSeq(file, i + 2, EndOf(file, i)) \in Seq(Blocks)
          <5>1. i + 2 \in Int /\ EndOf(file, i) \in Int /\ EndOf(file, i) <= n /\ 1 <= i + 2
            <6>1. i < n /\ i \in Nat
              BY <1>1, <3>2 DEF IsHeader
            <6>2. file[i] \in Blocks /\ file[i].part = "header"
              BY <1>1, <3>2, <6>1, ElementOfSeq DEF IsHeader
            <6>3. file[i].incl_len \in Nat
              BY <6>2, CaptureFileAssumption DEF Blocks, GlobalHeader
            <6> QED
              BY <1>1, <6>1, <6>3 DEF EndOf
          <5>2. \A k \in i + 2 .. EndOf(file, i) : file[k] \in Blocks
            BY <1>1, <5>1, ElementOfSeq
          <5> QED
            BY <5>1, <5>2, SubSeqProperties
        <4>4. r[i] = <<SubSeq(file, i + 2, EndOf(file, i))>> \o r[e]
          BY <1>9, <3>2, <4>1 DEF Step
        <4>5. <<SubSeq(file, i + 2, EndOf(file, i))>> \in Seq(Seq(Blocks))
          BY <4>3
        <4> QED
          BY <4>2, <4>4, <4>5, ConcatProperties
      <3> QED
        BY <3>1, <3>2
    <2> QED
      BY <2>1
  <1> HIDE DEF U
  <1>12. n \in U
    BY <1>10, <1>11, SetInduction
  <1>13. \A i \in 1 .. n + 1 : r[i] \in Seq(Seq(Blocks))
    BY <1>12 DEF U
  <1> QED
    BY <1>1, <1>8, <1>9, <1>13

-----------------------------------------------------------------------------
(* Where the packets are in a file.  fl are the packets flushed, ln the    *)
(* lengths of all of them.                                                 *)

\* Packet p is at block i.
HoldsHeader(file, i, p, length) ==
    /\ i + 1 <= Len(file)
    /\ file[i] = Header(p, length)[1]
    /\ file[i + 1] = Header(p, length)[2]

HoldsPacket(file, i, p, length) ==
    /\ HoldsHeader(file, i, p, length)
    /\ i + 1 + Included(length) <= Len(file)
    /\ \A j \in 1 .. Included(length) : file[i + 1 + j] = Data(p, length)[j]

\* The first m packets that were flushed are at pos[1] .. pos[m].
Placed(file, m, pos, fl, ln) ==
    /\ pos \in [1 .. m + 1 -> Nat \ {0}]
    /\ pos[1] = 2
    /\ pos[m + 1] <= Len(file) + 1
    /\ \A k \in 1 .. m : /\ ln[fl[k]] \in Nat
                         /\ pos[k + 1] = pos[k] + 2 + Included(ln[fl[k]])
                         /\ HoldsPacket(file, pos[k], fl[k], ln[fl[k]])

LEMMA IncludedIs == \A length \in Nat : Included(length) \in 0 .. SnapLength /\ Included(length) \in Nat
  BY CaptureFileAssumption DEF Included

LEMMA HeaderIs ==
    ASSUME NEW p, NEW length
    PROVE  \A h \in {1, 2} : Header(p, length)[h] = [part |-> "header", packet |-> p, half |-> h,
                                                     incl_len |-> Included(length)]
  BY DEF Header

LEMMA PacketIsRead ==
    ASSUME NEW file \in Seq(Blocks), NEW i \in Nat \ {0}, NEW p, NEW length \in Nat,
           HoldsPacket(file, i, p, length)
    PROVE  /\ i + 2 + Included(length) \in 1 .. Len(file) + 1
           /\ Data(p, length) \in Seq(Blocks)
           /\ ReadFrom(file)[i] = <<Data(p, length)>> \o ReadFrom(file)[i + 2 + Included(length)]
  <1>1. PICK n \in Nat : n = Len(file)
    BY LenProperties
  <1>2. PICK c \in Nat : c = Included(length)
    BY IncludedIs
  <1>3. /\ i + 1 + c <= n /\ i + 1 <= n
        /\ file[i] = Header(p, length)[1] /\ file[i + 1] = Header(p, length)[2]
        /\ \A j \in 1 .. c : file[i + 1 + j] = Data(p, length)[j]
    BY <1>1, <1>2 DEF HoldsPacket, HoldsHeader
  <1>4. IsHeader(file, i) /\ file[i].incl_len = c
    <2>1. /\ file[i] = [part |-> "header", packet |-> p, half |-> 1, incl_len |-> c]
          /\ file[i + 1] = [part |-> "header", packet |-> p, half |-> 2, incl_len |-> c]
      BY <1>2, <1>3, HeaderIs
    <2>2. i < n
      BY <1>3
    <2> QED
      BY <1>1, <2>1, <2>2 DEF IsHeader
  <1>5. EndOf(file, i) = i + 1 + c
    BY <1>1, <1>3, <1>4 DEF EndOf
  <1>6. PICK s : s = SubSeq(file, i + 2, i + 1 + c)
    OBVIOUS
  <1>7. s \in Seq(Blocks) /\ Len(s) = c /\ \A j \in 1 .. c : s[j] = file[i + 1 + j]
    <2>1. \A k \in i + 2 .. i + 1 + c : file[k] \in Blocks
      BY <1>1, <1>3, ElementOfSeq
    <2>2. PICK a \in Int : a = i + 2
      OBVIOUS
    <2>3. PICK e \in Int : e = i + 1 + c
      OBVIOUS
    <2>4. \A k \in a .. e : file[k] \in Blocks
      BY <2>1, <2>2, <2>3
    <2>5. /\ SubSeq(file, a, e) \in Seq(Blocks)
          /\ Len(SubSeq(file, a, e)) = IF a <= e THEN e - a + 1 ELSE 0
          /\ \A j \in 1 .. e - a + 1 : SubSeq(file, a, e)[j] = file[a + j - 1]
      BY <2>4, SubSeqProperties
    <2>6. s = SubSeq(file, a, e)
      BY <1>6, <2>2, <2>3
    <2>7. e - a + 1 = c /\ (\A j \in 1 .. c : a + j - 1 = i + 1 + j)
      BY <2>2, <2>3
    <2>8. Len(s) = c
      BY <2>2, <2>3, <2>5, <2>6, <2>7
    <2> QED
      BY <2>5, <2>6, <2>7, <2>8
  <1>8. s = Data(p, length)
    <2>1. s = [j \in 1 .. c |-> s[j]]
      BY <1>7, LenProperties, SeqDef
    <2>2. Data(p, length) = [j \in 1 .. c |-> Data(p, length)[j]]
      BY <1>2 DEF Data
    <2>3. \A j \in 1 .. c : s[j] = Data(p, length)[j]
      BY <1>3, <1>7
    <2> QED
      BY <2>1, <2>2, <2>3
  <1>9. i \in 1 .. Len(file) + 1 /\ i + 2 + c \in 1 .. n + 1 /\ (i + 1 + c) + 1 = i + 2 + c
    BY <1>1, <1>3
  <1>10. ReadFrom(file)[i] = Step(file, i, ReadFrom(file)[EndOf(file, i) + 1])
    BY <1>9, ReadingGoesOn
  <1>11. ReadFrom(file)[i] = <<s>> \o ReadFrom(file)[i + 2 + c]
    BY <1>4, <1>5, <1>6, <1>9, <1>10 DEF Step
  <1> QED
    BY <1>1, <1>2, <1>7, <1>8, <1>9, <1>11

\* Of what is read from r on, the first k packets are those flushed.
StartsWith(all, rest, k, fl, ln) ==
    \E s \in Seq(Seq(Blocks)) : /\ all = s \o rest
                                /\ Len(s) = k
                                /\ \A j \in 1 .. k : s[j] = Data(fl[j], ln[fl[j]])

LEMMA PlacedAreRead ==
    ASSUME NEW file \in Seq(Blocks), NEW m \in Nat, NEW pos, NEW fl, NEW ln,
           Placed(file, m, pos, fl, ln)
    PROVE  /\ pos[m + 1] \in 1 .. Len(file) + 1
           /\ StartsWith(ReadFrom(file)[2], ReadFrom(file)[pos[m + 1]], m, fl, ln)
  <1>1. PICK n \in Nat : n = Len(file)
    BY LenProperties
  <1>2. /\ pos \in [1 .. m + 1 -> Nat \ {0}] /\ pos[1] = 2 /\ pos[m + 1] <= n + 1
        /\ \A k \in 1 .. m : /\ ln[fl[k]] \in Nat
                             /\ pos[k + 1] = pos[k] + 2 + Included(ln[fl[k]])
                             /\ HoldsPacket(file, pos[k], fl[k], ln[fl[k]])
    BY <1>1 DEF Placed
  <1>3. PICK r : r = ReadFrom(file)
    OBVIOUS
  <1>4. \A i \in 1 .. n + 1 : r[i] \in Seq(Seq(Blocks))
    BY <1>1, <1>3, ReadingGoesOn
  <1> DEFINE T == {k \in Nat : k <= m => /\ pos[k + 1] \in 1 .. n + 1
                                         /\ StartsWith(r[2], r[pos[k + 1]], k, fl, ln)}
  <1>5. 0 \in T
    <2>1. pos[0 + 1] \in 1 .. n + 1 /\ pos[0 + 1] = 2
      <3>1. CASE m = 0
        <4>1. pos[m + 1] = 2 /\ 2 <= n + 1
          BY <1>2, <3>1
        <4> QED
          BY <1>2, <4>1
      <3>2. CASE m # 0
        <4>1. 1 \in 1 .. m
          BY <3>2
        <4>2. HoldsPacket(file, 2, fl[1], ln[fl[1]])
          BY <1>2, <4>1
        <4>3. 2 + 1 <= n
          BY <1>1, <4>2 DEF HoldsPacket, HoldsHeader
        <4> QED
          BY <1>2, <4>3
      <3> QED
        BY <3>1, <3>2
    <2>2. r[2] \in Seq(Seq(Blocks))
      BY <1>4, <2>1
    <2>3. r[2] = <<>> \o r[2] /\ <<>> \in Seq(Seq(Blocks)) /\ Len(<<>>) = 0
      BY <2>2, ConcatEmptySeq, EmptySeq
    <2>4. StartsWith(r[2], r[2], 0, fl, ln)
      <3>1. \A j \in 1 .. 0 : FALSE
        OBVIOUS
      <3> QED
        BY <2>3, <3>1 DEF StartsWith
    <2> QED
      BY <2>1, <2>4
  <1>6. ASSUME NEW k \in Nat, k \in T PROVE k + 1 \in T
    <2> SUFFICES ASSUME k + 1 <= m
                 PROVE  /\ pos[(k + 1) + 1] \in 1 .. n + 1
                        /\ StartsWith(r[2], r[pos[(k + 1) + 1]], k + 1, fl, ln)
      OBVIOUS
    <2>1. k + 1 \in 1 .. m
      OBVIOUS
    <2>2. PICK a \in 1 .. n + 1 : a = pos[k + 1] /\ StartsWith(r[2], r[a], k, fl, ln)
      BY <1>6
    <2>3. PICK s \in Seq(Seq(Blocks)) : /\ r[2] = s \o r[a]
                                        /\ Len(s) = k
                                        /\ \A j \in 1 .. k : s[j] = Data(fl[j], ln[fl[j]])
      BY <2>2 DEF StartsWith
    <2>4. PICK p : p = fl[k + 1]
      OBVIOUS
    <2>5. PICK length \in Nat : length = ln[p]
      BY <1>2, <2>1, <2>4
    <2>6. HoldsPacket(file, a, p, length) /\ pos[(k + 1) + 1] = a + 2 + Included(length)
      BY <1>2, <2>1, <2>2, <2>4, <2>5
    <2>7. PICK b : b = a + 2 + Included(length)
      OBVIOUS
    <2>8. PICK d : d = Data(p, length)
      OBVIOUS
    <2>9. b \in 1 .. n + 1 /\ d \in Seq(Blocks) /\ r[a] = <<d>> \o r[b]
      <3>1. a \in Nat \ {0} /\ HoldsPacket(file, a, p, length)
        BY <2>6
      <3>2. /\ a + 2 + Included(length) \in 1 .. Len(file) + 1
            /\ Data(p, length) \in Seq(Blocks)
            /\ ReadFrom(file)[a] = <<Data(p, length)>> \o ReadFrom(file)[a + 2 + Included(length)]
        BY <3>1, PacketIsRead
      <3> QED
        BY <1>1, <1>3, <2>7, <2>8, <3>2
    <2>10. r[b] \in Seq(Seq(Blocks)) /\ <<d>> \in Seq(Seq(Blocks)) /\ Len(<<d>>) = 1 /\ <<d>>[1] = d
      BY <1>4, <2>9
    <2>11. r[2] = (s \o <<d>>) \o r[b]
      <3>1. PICK x \in Seq(Seq(Blocks)) : x = <<d>>
        BY <2>10
      <3>2. PICK y \in Seq(Seq(Blocks)) : y = r[b]
        BY <2>10
      <3>3. (s \o x) \o y = s \o (x \o y)
        BY SMTT(30), ConcatAssociative
      <3> QED
        BY <2>3, <2>9, <3>1, <3>2, <3>3
    <2>12. PICK s1 : s1 = s \o <<d>>
      OBVIOUS
    <2>13. /\ s1 \in Seq(Seq(Blocks)) /\ Len(s1) = k + 1
           /\ \A j \in 1 .. k + 1 : s1[j] = IF j <= k THEN s[j] ELSE <<d>>[j - k]
      BY <2>3, <2>10, <2>12, ConcatProperties
    <2>14. ASSUME NEW j \in 1 .. k + 1 PROVE s1[j] = Data(fl[j], ln[fl[j]])
      <3>1. CASE j <= k
        <4>1. j \in 1 .. k
          BY <3>1
        <4> QED
          BY <2>3, <2>13, <3>1, <4>1
      <3>2. CASE ~(j <= k)
        <4>1. j = k + 1 /\ j - k = 1
          BY <3>2
        <4>2. s1[j] = <<d>>[1]
          BY <2>13, <3>2, <4>1
        <4>3. d = Data(fl[k + 1], ln[fl[k + 1]])
          BY <2>4, <2>5, <2>8
        <4> QED
          BY <2>10, <4>1, <4>2, <4>3
      <3> QED
        BY <3>1, <3>2
    <2>15. StartsWith(r[2], r[b], k + 1, fl, ln)
      BY <2>11, <2>12, <2>13, <2>14 DEF StartsWith
    <2> QED
      BY <2>6, <2>7, <2>9, <2>15
  <1> HIDE DEF T
  <1>7. m \in T
    BY <1>5, <1>6, SetInduction
  <1> QED
    BY <1>1, <1>3, <1>7 DEF T

\* So they are the first that are read, and the only ones if nothing follows.
LEMMA PlacedAreFirst ==
    ASSUME NEW file \in Seq(Blocks), file # <<>>, NEW m \in Nat, NEW pos, NEW fl, NEW ln,
           Placed(file, m, pos, fl, ln)
    PROVE  /\ m <= Len(PacketsOf(file))
           /\ \A k \in 1 .. m : PacketsOf(file)[k] = Data(fl[k], ln[fl[k]])
           /\ pos[m + 1] = Len(file) + 1 => Len(PacketsOf(file)) = m
  <1>1. PICK n \in Nat : n = Len(file)
    BY LenProperties
  <1>2. PICK r : r = ReadFrom(file)
    OBVIOUS
  <1>3. PICK b \in 1 .. n + 1 : b = pos[m + 1]
    BY <1>1, PlacedAreRead
  <1>4. StartsWith(r[2], r[b], m, fl, ln)
    BY <1>2, <1>3, PlacedAreRead
  <1>5. PICK s \in Seq(Seq(Blocks)) : /\ r[2] = s \o r[b]
                                      /\ Len(s) = m
                                      /\ \A j \in 1 .. m : s[j] = Data(fl[j], ln[fl[j]])
    BY <1>4 DEF StartsWith
  <1>6. r[b] \in Seq(Seq(Blocks)) /\ r[b] = Step(file, b, r[EndOf(file, b) + 1])
    BY <1>1, <1>2, <1>3, ReadingGoesOn
  <1>7. PICK z \in Nat : z = Len(r[b])
    BY <1>6, LenProperties
  <1>8. PICK all : all = PacketsOf(file)
    OBVIOUS
  <1>9. all = s \o r[b]
    BY <1>2, <1>5, <1>8, PacketsAreRead
  <1>10. /\ Len(all) = m + z
         /\ \A i \in 1 .. m + z : all[i] = IF i <= m THEN s[i] ELSE r[b][i - m]
    BY ZenonT(60), <1>5, <1>6, <1>7, <1>9, ConcatProperties
  <1>11. ASSUME NEW k \in 1 .. m PROVE all[k] = Data(fl[k], ln[fl[k]])
    <2>1. k \in 1 .. m + z /\ k <= m
      OBVIOUS
    <2> QED
      BY <1>5, <1>10, <2>1
  <1>12. b = n + 1 => z = 0
    <2> SUFFICES ASSUME b = n + 1 PROVE z = 0
      OBVIOUS
    <2>1. ~IsHeader(file, b)
      BY <1>1 DEF IsHeader
    <2>2. r[b] = <<>>
      BY <1>6, <2>1 DEF Step
    <2> QED
      BY <1>7, <2>2
  <1> QED
    BY <1>1, <1>3, <1>8, <1>10, <1>11, <1>12


-----------------------------------------------------------------------------
(* What writing does to the places of packets.                             *)

\* A file goes on as another.
GoesOn(file, file1) == /\ Len(file) \in Nat /\ Len(file1) \in Nat
                       /\ Len(file) <= Len(file1)
                       /\ \A i \in 1 .. Len(file) : file1[i] = file[i]

SameUpto(m, fl, ln, fl1, ln1) == \A k \in 1 .. m : fl1[k] = fl[k] /\ ln1[fl1[k]] = ln[fl[k]]

LEMMA FileGoesOn ==
    ASSUME NEW file \in Seq(Blocks), NEW more \in Seq(Blocks)
    PROVE  /\ GoesOn(file, file \o more)
           /\ file \o more \in Seq(Blocks)
           /\ Len(file \o more) = Len(file) + Len(more)
           /\ \A i \in 1 .. Len(more) : (file \o more)[Len(file) + i] = more[i]
  <1>1. PICK n \in Nat : n = Len(file)
    BY LenProperties
  <1>2. PICK m \in Nat : m = Len(more)
    BY LenProperties
  <1>3. PICK all : all = file \o more
    OBVIOUS
  <1>4. /\ all \in Seq(Blocks) /\ Len(all) = n + m
        /\ \A i \in 1 .. n + m : all[i] = IF i <= n THEN file[i] ELSE more[i - n]
    BY <1>1, <1>2, <1>3, ConcatProperties
  <1>5. \A i \in 1 .. n : all[i] = file[i]
    BY <1>4
  <1>6. ASSUME NEW i \in 1 .. m PROVE all[n + i] = more[i]
    <2>1. n + i \in 1 .. n + m /\ ~(n + i <= n) /\ (n + i) - n = i
      OBVIOUS
    <2> QED
      BY <1>4, <2>1
  <1> QED
    BY <1>1, <1>2, <1>3, <1>4, <1>5, <1>6 DEF GoesOn

LEMMA HeaderStays ==
    ASSUME NEW file, NEW file1, GoesOn(file, file1), NEW i \in Nat \ {0}, NEW p, NEW length \in Nat
    PROVE  /\ HoldsHeader(file, i, p, length) => HoldsHeader(file1, i, p, length)
           /\ HoldsPacket(file, i, p, length) => HoldsPacket(file1, i, p, length)
  <1>1. PICK n \in Nat : n = Len(file)
    BY DEF GoesOn
  <1>2. PICK n1 \in Nat : n1 = Len(file1)
    BY DEF GoesOn
  <1>3. n <= n1 /\ \A j \in 1 .. n : file1[j] = file[j]
    BY <1>1, <1>2 DEF GoesOn
  <1>4. ASSUME HoldsHeader(file, i, p, length) PROVE HoldsHeader(file1, i, p, length)
    <2>1. i + 1 <= n /\ i \in 1 .. n /\ i + 1 \in 1 .. n
      BY <1>1, <1>4 DEF HoldsHeader
    <2> QED
      BY <1>2, <1>3, <1>4, <2>1 DEF HoldsHeader
  <1>5. ASSUME HoldsPacket(file, i, p, length) PROVE HoldsPacket(file1, i, p, length)
    <2>1. PICK c \in Nat : c = Included(length)
      BY IncludedIs
    <2>2. i + 1 + c <= n
      BY <1>1, <1>5, <2>1 DEF HoldsPacket
    <2>3. \A j \in 1 .. c : i + 1 + j \in 1 .. n
      BY <2>2
    <2>4. HoldsHeader(file1, i, p, length)
      BY <1>4, <1>5 DEF HoldsPacket
    <2>5. \A j \in 1 .. c : file1[i + 1 + j] = Data(p, length)[j]
      BY <1>3, <1>5, <2>1, <2>3 DEF HoldsPacket
    <2> QED
      BY <1>2, <1>3, <2>1, <2>2, <2>4, <2>5 DEF HoldsPacket
  <1> QED
    BY <1>4, <1>5

LEMMA PlacedStay ==
    ASSUME NEW file, NEW file1, NEW m \in Nat, NEW pos, NEW fl, NEW ln, NEW fl1, NEW ln1,
           Placed(file, m, pos, fl, ln), GoesOn(file, file1), SameUpto(m, fl, ln, fl1, ln1)
    PROVE  Placed(file1, m, pos, fl1, ln1)
  <1>1. /\ pos \in [1 .. m + 1 -> Nat \ {0}] /\ pos[1] = 2 /\ pos[m + 1] <= Len(file) + 1
        /\ \A k \in 1 .. m : /\ ln[fl[k]] \in Nat
                             /\ pos[k + 1] = pos[k] + 2 + Included(ln[fl[k]])
                             /\ HoldsPacket(file, pos[k], fl[k], ln[fl[k]])
    BY DEF Placed
  <1>2. pos[m + 1] <= Len(file1) + 1
    <2>1. m + 1 \in 1 .. m + 1
      OBVIOUS
    <2>2. pos[m + 1] \in Nat
      BY <1>1, <2>1
    <2> QED
      BY <1>1, <2>2 DEF GoesOn
  <1>3. ASSUME NEW k \in 1 .. m
        PROVE  /\ ln1[fl1[k]] \in Nat
               /\ pos[k + 1] = pos[k] + 2 + Included(ln1[fl1[k]])
               /\ HoldsPacket(file1, pos[k], fl1[k], ln1[fl1[k]])
    <2>1. fl1[k] = fl[k] /\ ln1[fl1[k]] = ln[fl[k]]
      BY DEF SameUpto
    <2>2. k \in 1 .. m + 1
      OBVIOUS
    <2>3. pos[k] \in Nat \ {0} /\ ln[fl[k]] \in Nat /\ HoldsPacket(file, pos[k], fl[k], ln[fl[k]])
      BY <1>1, <2>2
    <2>4. HoldsPacket(file1, pos[k], fl[k], ln[fl[k]])
      BY <2>3, HeaderStays
    <2> QED
      BY <1>1, <2>1, <2>3, <2>4
  <1> QED
    BY <1>1, <1>2, <1>3 DEF Placed

LEMMA OneMorePlaced ==
    ASSUME NEW file, Len(file) \in Nat, NEW m \in Nat, NEW pos, NEW fl, NEW ln,
           Placed(file, m, pos, fl, ln),
           NEW p, p = fl[m + 1], NEW length \in Nat, length = ln[p],
           HoldsPacket(file, pos[m + 1], p, length)
    PROVE  \E pos1 : /\ Placed(file, m + 1, pos1, fl, ln)
                     /\ pos1[(m + 1) + 1] = pos[m + 1] + 2 + Included(length)
  <1>1. /\ pos \in [1 .. m + 1 -> Nat \ {0}] /\ pos[1] = 2
        /\ \A k \in 1 .. m : /\ ln[fl[k]] \in Nat
                             /\ pos[k + 1] = pos[k] + 2 + Included(ln[fl[k]])
                             /\ HoldsPacket(file, pos[k], fl[k], ln[fl[k]])
    BY DEF Placed
  <1>2. PICK c \in Nat : c = Included(length)
    BY IncludedIs
  <1>3. PICK a \in Nat \ {0} : a = pos[m + 1]
    <2>1. m + 1 \in 1 .. m + 1
      OBVIOUS
    <2> QED
      BY <1>1, <2>1
  <1>4. PICK pos1 : pos1 = [k \in 1 .. (m + 1) + 1 |-> IF k = m + 2 THEN a + 2 + c ELSE pos[k]]
    OBVIOUS
  <1>5. pos1[(m + 1) + 1] = a + 2 + c /\ \A k \in 1 .. m + 1 : pos1[k] = pos[k]
    <2>1. (m + 1) + 1 = m + 2 /\ (m + 1) + 1 \in 1 .. (m + 1) + 1
      OBVIOUS
    <2>2. \A k \in 1 .. m + 1 : k \in 1 .. (m + 1) + 1 /\ k # m + 2
      OBVIOUS
    <2> QED
      BY <1>4, <2>1, <2>2
  <1>6. pos1 \in [1 .. (m + 1) + 1 -> Nat \ {0}]
    <2>1. \A k \in 1 .. (m + 1) + 1 : k # m + 2 => k \in 1 .. m + 1
      OBVIOUS
    <2>2. a + 2 + c \in Nat \ {0}
      OBVIOUS
    <2> QED
      BY <1>1, <1>4, <2>1, <2>2
  <1>7. pos1[1] = 2
    BY <1>1, <1>5
  <1>8. a + 2 + c <= Len(file) + 1
    BY <1>2, <1>3 DEF HoldsPacket
  <1>9. ASSUME NEW k \in 1 .. m + 1
        PROVE  /\ ln[fl[k]] \in Nat
               /\ pos1[k + 1] = pos1[k] + 2 + Included(ln[fl[k]])
               /\ HoldsPacket(file, pos1[k], fl[k], ln[fl[k]])
    <2>1. CASE k = m + 1
      BY <1>2, <1>3, <1>5, <2>1
    <2>2. CASE k # m + 1
      <3>1. k \in 1 .. m /\ k + 1 \in 1 .. m + 1
        BY <2>2
      <3> QED
        BY <1>1, <1>5, <3>1
    <2> QED
      BY <2>1, <2>2
  <1>10. Placed(file, m + 1, pos1, fl, ln)
    BY <1>5, <1>6, <1>7, <1>8, <1>9 DEF Placed
  <1> QED
    BY <1>2, <1>3, <1>5, <1>10


-----------------------------------------------------------------------------
(* Files as a writer leaves them.                                          *)

\* Every packet is whole.
Intact(file, fl, ln) ==
    \E pos : /\ Placed(file, Len(fl), pos, fl, ln)
             /\ pos[Len(fl) + 1] = Len(file) + 1

\* There is but a header of packet t where it should be.
TornAt(file, fl, ln, t) ==
    \E m, pos :
       /\ m \in 0 .. Len(fl)
       /\ Placed(file, m, pos, fl, ln)
       /\ HoldsHeader(file, pos[m + 1], t, ln[t])
       /\ \A k \in 1 .. m : fl[k] < t
       /\ \A k \in m + 1 .. Len(fl) : fl[k] > t

\* The last header is that of the packet in hand.
AtHand(file, fl, ln) ==
    \E pos : /\ Placed(file, Len(fl), pos, fl, ln)
             /\ HoldsHeader(file, pos[Len(fl) + 1], Len(ln), ln[Len(ln)])
             /\ Len(file) = pos[Len(fl) + 1] + 1

\* Another length is added.
Longer(ln, ln1) == \A i \in 1 .. Len(ln) : ln1[i] = ln[i]

LEMMA SameFlushed ==
    ASSUME NEW fl, NEW ln, NEW ln1, fl \in Seq(1 .. Len(ln)), Longer(ln, ln1), NEW m \in 0 .. Len(fl)
    PROVE  SameUpto(m, fl, ln, fl, ln1)
  <1>1. \A k \in 1 .. m : fl[k] \in 1 .. Len(ln)
    BY ElementOfSeq, LenProperties
  <1> QED
    BY <1>1 DEF SameUpto, Longer

LEMMA SameThen ==
    ASSUME NEW fl, NEW ln, fl \in Seq(1 .. Len(ln)), NEW p \in 1 .. Len(ln), NEW m \in 0 .. Len(fl)
    PROVE  SameUpto(m, fl, ln, Append(fl, p), ln)
  <1>1. \A k \in 1 .. m : Append(fl, p)[k] = fl[k]
    BY AppendProperties, LenProperties
  <1> QED
    BY <1>1 DEF SameUpto

LEMMA TornStays ==
    ASSUME NEW file, NEW file1, NEW fl, NEW ln, NEW ln1, NEW t \in 1 .. Len(ln),
           TornAt(file, fl, ln, t), fl \in Seq(1 .. Len(ln)), ln \in Seq(Nat),
           GoesOn(file, file1), Longer(ln, ln1)
    PROVE  TornAt(file1, fl, ln1, t)
  <1>1. PICK m, pos :
             /\ m \in 0 .. Len(fl)
             /\ Placed(file, m, pos, fl, ln)
             /\ HoldsHeader(file, pos[m + 1], t, ln[t])
             /\ \A k \in 1 .. m : fl[k] < t
             /\ \A k \in m + 1 .. Len(fl) : fl[k] > t
    BY DEF TornAt
  <1>2. m \in Nat
    BY <1>1, LenProperties
  <1>3. SameUpto(m, fl, ln, fl, ln1)
    BY <1>1, SameFlushed
  <1>4. Placed(file1, m, pos, fl, ln1)
    BY <1>1, <1>2, <1>3, PlacedStay
  <1>5. pos[m + 1] \in Nat \ {0}
    <2>1. m + 1 \in 1 .. m + 1
      BY <1>2
    <2> QED
      BY <1>1, <2>1 DEF Placed
  <1>6. ln1[t] = ln[t] /\ ln[t] \in Nat
    <2>1. ln1[t] = ln[t]
      BY DEF Longer
    <2>2. ln[t] \in Nat
      BY ElementOfSeq
    <2> QED
      BY <2>1, <2>2
  <1>7. PICK i \in Nat \ {0} : i = pos[m + 1]
    BY <1>5
  <1>8. PICK length \in Nat : length = ln[t]
    BY <1>6
  <1>9. HoldsHeader(file1, i, t, length)
    BY <1>1, <1>7, <1>8, HeaderStays
  <1>10. HoldsHeader(file1, pos[m + 1], t, ln1[t])
    BY <1>6, <1>7, <1>8, <1>9
  <1> QED
    BY <1>1, <1>4, <1>10 DEF TornAt

LEMMA TornThen ==
    ASSUME NEW file, NEW fl, NEW ln, NEW t \in 1 .. Len(ln), NEW p \in 1 .. Len(ln), t < p,
           TornAt(file, fl, ln, t), fl \in Seq(1 .. Len(ln)), ln \in Seq(Nat), Len(file) \in Nat
    PROVE  TornAt(file, Append(fl, p), ln, t)
  <1>1. PICK m, pos :
             /\ m \in 0 .. Len(fl)
             /\ Placed(file, m, pos, fl, ln)
             /\ HoldsHeader(file, pos[m + 1], t, ln[t])
             /\ \A k \in 1 .. m : fl[k] < t
             /\ \A k \in m + 1 .. Len(fl) : fl[k] > t
    BY DEF TornAt
  <1>2. PICK n \in Nat : n = Len(fl)
    BY LenProperties
  <1>3. PICK fl1 : fl1 = Append(fl, p)
    OBVIOUS
  <1>4. Len(fl1) = n + 1 /\ fl1[n + 1] = p /\ \A k \in 1 .. n : fl1[k] = fl[k]
    BY <1>2, <1>3, AppendProperties
  <1>5. SameUpto(m, fl, ln, fl1, ln)
    BY <1>1, <1>3, SameThen
  <1>6. GoesOn(file, file)
    BY DEF GoesOn
  <1>7. Placed(file, m, pos, fl1, ln)
    BY <1>1, <1>2, <1>5, <1>6, PlacedStay
  <1>8. m \in 0 .. n + 1 /\ \A k \in 1 .. m : fl1[k] < t
    <2>1. m \in Nat /\ m <= n
      BY <1>1, <1>2
    <2>2. m \in 0 .. n + 1 /\ \A k \in 1 .. m : k \in 1 .. n
      BY <2>1
    <2> QED
      BY <1>1, <1>4, <2>2
  <1>9. ASSUME NEW k \in m + 1 .. n + 1 PROVE fl1[k] > t
    <2>1. CASE k = n + 1
      BY <1>4, <2>1
    <2>2. CASE k # n + 1
      <3>1. m \in Nat /\ m <= n
        BY <1>1, <1>2
      <3>2. k \in m + 1 .. n /\ k \in 1 .. n
        BY <2>2, <3>1
      <3> QED
        BY <1>1, <1>2, <1>4, <3>2
    <2> QED
      BY <2>1, <2>2
  <1>10. TornAt(file, fl1, ln, t)
    BY <1>1, <1>4, <1>7, <1>8, <1>9 DEF TornAt
  <1> QED
    BY <1>3, <1>10

LEMMA IntactStays ==
    ASSUME NEW file, NEW fl, NEW ln, NEW ln1, Intact(file, fl, ln), Len(file) \in Nat,
           fl \in Seq(1 .. Len(ln)), Longer(ln, ln1)
    PROVE  Intact(file, fl, ln1)
  <1>1. PICK pos : Placed(file, Len(fl), pos, fl, ln) /\ pos[Len(fl) + 1] = Len(file) + 1
    BY DEF Intact
  <1>2. PICK n \in Nat : n = Len(fl) /\ n \in 0 .. Len(fl)
    BY LenProperties
  <1>3. SameUpto(n, fl, ln, fl, ln1) /\ GoesOn(file, file)
    BY <1>2, SameFlushed DEF GoesOn
  <1>4. Placed(file, n, pos, fl, ln1)
    BY <1>1, <1>2, <1>3, PlacedStay
  <1> QED
    BY <1>1, <1>2, <1>4 DEF Intact

LEMMA GlobalIsIntact ==
    ASSUME NEW ln
    PROVE  Intact(<<GlobalHeader>>, <<>>, ln)
  <1>1. PICK pos : pos = [k \in 1 .. 1 |-> 2]
    OBVIOUS
  <1>2. Len(<<GlobalHeader>>) = 1 /\ Len(<<>>) = 0
    BY EmptySeq
  <1>3. Placed(<<GlobalHeader>>, 0, pos, <<>>, ln) /\ pos[1] = 2
    <2>1. \A k \in 1 .. 0 : FALSE
      OBVIOUS
    <2> QED
      BY <1>1, <1>2, <2>1 DEF Placed
  <1> QED
    BY <1>2, <1>3 DEF Intact

LEMMA HeaderIsBlocks ==
    ASSUME NEW p \in 1 .. MaxWritten, NEW length \in Nat
    PROVE  /\ Header(p, length) \in Seq(Blocks) /\ Len(Header(p, length)) = 2
           /\ Data(p, length) \in Seq(Blocks) /\ Len(Data(p, length)) = Included(length)
  <1>1. {1, 2} = 1 .. 2
    OBVIOUS
  <1>2. PICK c \in 0 .. SnapLength : c = Included(length) /\ c \in Nat
    BY IncludedIs
  <1>3. Header(p, length) = [h \in 1 .. 2 |-> [part |-> "header", packet |-> p, half |-> h, incl_len |-> c]]
    BY <1>1, <1>2 DEF Header
  <1>4. \A h \in 1 .. 2 : [part |-> "header", packet |-> p, half |-> h, incl_len |-> c] \in Blocks
    BY <1>1 DEF Blocks
  <1>5. Data(p, length) = [i \in 1 .. c |-> [part |-> "data", packet |-> p, at |-> i]]
    BY <1>2 DEF Data
  <1>6. \A i \in 1 .. c : [part |-> "data", packet |-> p, at |-> i] \in Blocks
    <2>1. \A i \in 1 .. c : i \in 1 .. SnapLength
      BY CaptureFileAssumption
    <2> QED
      BY <2>1 DEF Blocks
  <1>7. Header(p, length) \in Seq(Blocks) /\ Len(Header(p, length)) = 2
    BY <1>3, <1>4, SeqDef, LenProperties
  <1>8. Data(p, length) \in Seq(Blocks) /\ Len(Data(p, length)) = c
    BY <1>2, <1>5, <1>6, SeqDef, LenProperties
  <1> QED
    BY <1>2, <1>7, <1>8


LEMMA HeaderGives ==
    ASSUME NEW file \in Seq(Blocks), NEW fl, NEW ln, ln \in Seq(Nat), fl \in Seq(1 .. Len(ln)),
           Intact(file, fl, ln),
           NEW n \in 1 .. MaxWritten, n = Len(ln)
    PROVE  AtHand(file \o Header(n, ln[n]), fl, ln)
  <1>1. PICK pos : Placed(file, Len(fl), pos, fl, ln) /\ pos[Len(fl) + 1] = Len(file) + 1
    BY DEF Intact
  <1>2. PICK m \in Nat : m = Len(fl) /\ m \in 0 .. Len(fl)
    BY LenProperties
  <1>3. PICK l \in Nat : l = Len(file)
    BY LenProperties
  <1>4. PICK length \in Nat : length = ln[n]
    <2>1. n \in 1 .. Len(ln)
      OBVIOUS
    <2> QED
      BY <2>1, ElementOfSeq
  <1>5. PICK header \in Seq(Blocks) : header = Header(n, length) /\ Len(header) = 2
    BY HeaderIsBlocks
  <1>6. PICK file1 : file1 = file \o header
    OBVIOUS
  <1>7. GoesOn(file, file1) /\ Len(file1) = l + 2 /\ file1[l + 1] = header[1] /\ file1[l + 2] = header[2]
    <2>1. /\ GoesOn(file, file \o header) /\ Len(file \o header) = Len(file) + Len(header)
          /\ \A i \in 1 .. Len(header) : (file \o header)[Len(file) + i] = header[i]
      BY FileGoesOn
    <2>2. 1 \in 1 .. 2 /\ 2 \in 1 .. 2
      OBVIOUS
    <2> QED
      BY <1>3, <1>5, <1>6, <2>1, <2>2
  <1>8. SameUpto(m, fl, ln, fl, ln)
    BY DEF SameUpto
  <1>9. Placed(file1, m, pos, fl, ln)
    BY <1>1, <1>2, <1>7, <1>8, PlacedStay
  <1>10. HoldsHeader(file1, l + 1, n, length)
    <2>1. (l + 1) + 1 = l + 2
      OBVIOUS
    <2> QED
      BY <1>5, <1>7, <2>1 DEF HoldsHeader
  <1>11. Len(file1) = (l + 1) + 1
    BY <1>7
  <1>12. AtHand(file1, fl, ln)
    BY <1>1, <1>2, <1>3, <1>4, <1>9, <1>10, <1>11 DEF AtHand
  <1> QED
    BY <1>4, <1>5, <1>6, <1>12

LEMMA DataGives ==
    ASSUME NEW file \in Seq(Blocks), NEW fl, NEW ln, ln \in Seq(Nat), fl \in Seq(1 .. Len(ln)),
           AtHand(file, fl, ln),
           NEW n \in 1 .. MaxWritten, n = Len(ln)
    PROVE  Intact(file \o Data(n, ln[n]), Append(fl, n), ln)
  <1>1. PICK pos : /\ Placed(file, Len(fl), pos, fl, ln)
                   /\ HoldsHeader(file, pos[Len(fl) + 1], n, ln[n])
                   /\ Len(file) = pos[Len(fl) + 1] + 1
    BY DEF AtHand
  <1>2. PICK m \in Nat : m = Len(fl) /\ m \in 0 .. Len(fl)
    BY LenProperties
  <1>3. PICK a \in Nat \ {0} : a = pos[m + 1]
    <2>1. m + 1 \in 1 .. m + 1
      OBVIOUS
    <2> QED
      BY <1>1, <1>2, <2>1 DEF Placed
  <1>4. PICK length \in Nat : length = ln[n]
    <2>1. n \in 1 .. Len(ln)
      OBVIOUS
    <2> QED
      BY <2>1, ElementOfSeq
  <1>5. PICK data \in Seq(Blocks) : data = Data(n, length) /\ Len(data) = Included(length)
    BY HeaderIsBlocks
  <1>6. PICK c \in Nat : c = Included(length)
    BY IncludedIs
  <1>7. PICK file1 : file1 = file \o data
    OBVIOUS
  <1>8. /\ GoesOn(file, file1) /\ Len(file1) = a + 1 + c
        /\ \A j \in 1 .. c : file1[a + 1 + j] = data[j]
    <2>1. /\ GoesOn(file, file \o data) /\ Len(file \o data) = Len(file) + Len(data)
          /\ \A i \in 1 .. Len(data) : (file \o data)[Len(file) + i] = data[i]
      BY FileGoesOn
    <2>2. Len(file) = a + 1
      BY <1>1, <1>2, <1>3
    <2> QED
      BY <1>5, <1>6, <1>7, <2>1, <2>2
  <1>9. PICK fl1 : fl1 = Append(fl, n)
    OBVIOUS
  <1>10. Len(fl1) = m + 1 /\ fl1[m + 1] = n
    BY <1>2, <1>9, AppendProperties
  <1>11. SameUpto(m, fl, ln, fl1, ln)
    <2>1. n \in 1 .. Len(ln)
      OBVIOUS
    <2> QED
      BY <1>2, <1>9, <2>1, SameThen
  <1>12. Placed(file1, m, pos, fl1, ln)
    BY <1>1, <1>2, <1>8, <1>11, PlacedStay
  <1>13. HoldsPacket(file1, a, n, length)
    <2>1. HoldsHeader(file, a, n, length)
      BY <1>1, <1>2, <1>3, <1>4
    <2>2. HoldsHeader(file1, a, n, length)
      BY <1>8, <2>1, HeaderStays
    <2> QED
      BY <1>5, <1>6, <1>8, <2>2 DEF HoldsPacket
  <1>14. PICK pos1 : /\ Placed(file1, m + 1, pos1, fl1, ln)
                     /\ pos1[(m + 1) + 1] = a + 2 + c
    <2>1. Len(file1) \in Nat
      BY <1>8
    <2>2. n = fl1[m + 1] /\ length = ln[n] /\ HoldsPacket(file1, pos[m + 1], n, length)
      BY <1>3, <1>4, <1>10, <1>13
    <2>3. \E pos1 : /\ Placed(file1, m + 1, pos1, fl1, ln)
                    /\ pos1[(m + 1) + 1] = pos[m + 1] + 2 + Included(length)
      BY SMTT(30), <1>12, <2>1, <2>2, OneMorePlaced
    <2> QED
      BY <1>3, <1>6, <2>3
  <1>15. a + 2 + c = Len(file1) + 1
    BY <1>8
  <1>16. Intact(file1, fl1, ln)
    BY <1>10, <1>14, <1>15 DEF Intact
  <1> QED
    BY <1>4, <1>5, <1>7, <1>9, <1>16

LEMMA HandTornOff ==
    ASSUME NEW file, NEW fl, NEW ln, Len(fl) \in Nat, AtHand(file, fl, ln),
           \A k \in 1 .. Len(fl) : fl[k] < Len(ln)
    PROVE  TornAt(file, fl, ln, Len(ln))
  <1>1. PICK pos : /\ Placed(file, Len(fl), pos, fl, ln)
                   /\ HoldsHeader(file, pos[Len(fl) + 1], Len(ln), ln[Len(ln)])
    BY DEF AtHand
  <1>2. \A k \in Len(fl) + 1 .. Len(fl) : FALSE
    OBVIOUS
  <1>3. Len(fl) \in 0 .. Len(fl)
    OBVIOUS
  <1> QED
    BY <1>1, <1>2, <1>3 DEF TornAt

\* A file is empty, whole, or there is a first packet that was torn, one of the first b.
FileIs(file, fl, ln, b) ==
    \/ file = <<>> /\ fl = <<>>
    \/ file # <<>> /\ (Intact(file, fl, ln) \/ \E t \in 1 .. b : TornAt(file, fl, ln, t))

CaptureFileInvariant ==
    /\ stored \in Seq(Blocks)
    /\ buffer \in Seq(Blocks)
    /\ lengths \in Seq(DataLengths)
    /\ Len(lengths) <= MaxWritten
    /\ flushed \in Seq(1 .. Len(lengths))
    /\ writer \in {"closed", "open", "header", "spilled"}
    /\ opened \in 0 .. MaxOpened
    /\ writer \in {"closed", "open"} => FileIs(stored, flushed, lengths, Len(lengths))
    /\ writer = "closed" => buffer = <<>>
    /\ writer = "open" => buffer = IF stored = <<>> THEN <<GlobalHeader>> ELSE <<>>
    /\ writer \in {"header", "spilled"} =>
          Len(lengths) > 0 /\ \A k \in 1 .. Len(flushed) : flushed[k] < Len(lengths)
    /\ writer = "header" =>
          /\ FileIs(stored, flushed, lengths, Len(lengths) - 1)
          /\ buffer = (IF stored = <<>> THEN <<GlobalHeader>> ELSE <<>>)
                      \o Header(Len(lengths), lengths[Len(lengths)])
    /\ writer = "spilled" =>
          /\ stored # <<>> /\ buffer = <<>>
          /\ \/ AtHand(stored, flushed, lengths)
             \/ \E t \in 1 .. Len(lengths) - 1 : TornAt(stored, flushed, lengths, t)

\* What is in the file once the buffer has gone there.
LEMMA HeaderReachesFile ==
    ASSUME NEW file \in Seq(Blocks), NEW fl, NEW ln, ln \in Seq(Nat), fl \in Seq(1 .. Len(ln)),
           NEW n \in 1 .. MaxWritten, n = Len(ln),
           FileIs(file, fl, ln, n - 1),
           NEW b, b = (IF file = <<>> THEN <<GlobalHeader>> ELSE <<>>) \o Header(n, ln[n])
    PROVE  /\ b \in Seq(Blocks)
           /\ file \o b \in Seq(Blocks) /\ file \o b # <<>>
           /\ \/ AtHand(file \o b, fl, ln)
              \/ \E t \in 1 .. n - 1 : TornAt(file \o b, fl, ln, t)
  <1>1. PICK length \in Nat : length = ln[n]
    <2>1. n \in 1 .. Len(ln)
      OBVIOUS
    <2> QED
      BY <2>1, ElementOfSeq
  <1>2. PICK header \in Seq(Blocks) : header = Header(n, ln[n]) /\ Len(header) = 2
    BY <1>1, HeaderIsBlocks
  <1>3. <<GlobalHeader>> \in Seq(Blocks) /\ <<>> \in Seq(Blocks)
    <2>1. GlobalHeader \in Blocks
      BY DEF Blocks
    <2> QED
      BY <2>1, EmptySeq
  <1>4. b \in Seq(Blocks) /\ Len(b) >= 2
    <2>1. PICK g \in Seq(Blocks) : g = IF file = <<>> THEN <<GlobalHeader>> ELSE <<>>
      BY <1>3
    <2>2. g \o header \in Seq(Blocks) /\ Len(g \o header) = Len(g) + Len(header) /\ Len(g) \in Nat
      BY ConcatProperties, LenProperties
    <2> QED
      BY <1>2, <2>1, <2>2
  <1>5. file \o b \in Seq(Blocks) /\ file \o b # <<>> /\ GoesOn(file, file \o b)
    <2>1. /\ GoesOn(file, file \o b) /\ file \o b \in Seq(Blocks)
          /\ Len(file \o b) = Len(file) + Len(b) /\ Len(file) \in Nat
      BY <1>4, FileGoesOn, LenProperties
    <2> QED
      BY <1>4, <2>1, EmptySeq
  <1>6. CASE file = <<>>
    <2>1. fl = <<>> /\ b = <<GlobalHeader>> \o Header(n, ln[n])
      BY <1>6 DEF FileIs
    <2>2. file \o b = b
      BY <1>4, <1>6, ConcatEmptySeq
    <2>3. Intact(<<GlobalHeader>>, fl, ln)
      BY <2>1, GlobalIsIntact
    <2>4. AtHand(<<GlobalHeader>> \o Header(n, ln[n]), fl, ln)
      BY <1>3, <2>3, HeaderGives
    <2> QED
      BY <1>4, <1>5, <2>1, <2>2, <2>4
  <1>7. CASE file # <<>>
    <2>1. b = Header(n, ln[n])
      BY <1>2, <1>7, ConcatEmptySeq
    <2>2. CASE Intact(file, fl, ln)
      BY <1>4, <1>5, <2>1, <2>2, HeaderGives
    <2>3. CASE ~Intact(file, fl, ln)
      <3>1. PICK t \in 1 .. n - 1 : TornAt(file, fl, ln, t)
        BY <1>7, <2>3 DEF FileIs
      <3>2. t \in 1 .. Len(ln) /\ Longer(ln, ln)
        BY DEF Longer
      <3>3. TornAt(file \o b, fl, ln, t)
        BY <1>5, <3>1, <3>2, TornStays
      <3> QED
        BY <1>4, <1>5, <3>3
    <2> QED
      BY <2>2, <2>3
  <1> QED
    BY <1>6, <1>7

LEMMA DataReachesFile ==
    ASSUME NEW file \in Seq(Blocks), file # <<>>,
           NEW fl, NEW ln, ln \in Seq(Nat), fl \in Seq(1 .. Len(ln)),
           NEW n \in 1 .. MaxWritten, n = Len(ln),
           \/ AtHand(file, fl, ln)
           \/ \E t \in 1 .. n - 1 : TornAt(file, fl, ln, t)
    PROVE  /\ file \o Data(n, ln[n]) \in Seq(Blocks)
           /\ FileIs(file \o Data(n, ln[n]), Append(fl, n), ln, n)
  <1>1. PICK length \in Nat : length = ln[n]
    <2>1. n \in 1 .. Len(ln)
      OBVIOUS
    <2> QED
      BY <2>1, ElementOfSeq
  <1>2. PICK data \in Seq(Blocks) : data = Data(n, ln[n])
    BY <1>1, HeaderIsBlocks
  <1>3. PICK file1 \in Seq(Blocks) : file1 = file \o data /\ GoesOn(file, file1)
    BY FileGoesOn
  <1>4. file1 # <<>>
    <2>1. Len(file) \in Nat /\ Len(file) # 0 /\ Len(file) <= Len(file1)
      BY <1>3, EmptySeq, LenProperties DEF GoesOn
    <2> QED
      BY <2>1, EmptySeq
  <1>5. CASE AtHand(file, fl, ln)
    <2>1. Intact(file1, Append(fl, n), ln)
      BY <1>2, <1>3, <1>5, DataGives
    <2> QED
      BY <1>2, <1>3, <1>4, <2>1 DEF FileIs
  <1>6. CASE ~AtHand(file, fl, ln)
    <2>1. PICK t \in 1 .. n - 1 : TornAt(file, fl, ln, t)
      BY <1>6
    <2>2. t \in 1 .. Len(ln) /\ n \in 1 .. Len(ln) /\ t < n /\ t \in 1 .. n /\ Longer(ln, ln)
      BY DEF Longer
    <2>3. TornAt(file1, fl, ln, t)
      BY <1>3, <2>1, <2>2, TornStays
    <2>4. Len(file1) \in Nat
      BY LenProperties
    <2>5. TornAt(file1, Append(fl, n), ln, t)
      BY <2>2, <2>3, <2>4, TornThen
    <2> QED
      BY <1>2, <1>3, <1>4, <2>2, <2>5 DEF FileIs
  <1> QED
    BY <1>5, <1>6


-----------------------------------------------------------------------------
LEMMA CaptureFileStart ==
    CaptureFileInit => CaptureFileInvariant
  <1> SUFFICES ASSUME CaptureFileInit PROVE CaptureFileInvariant
    OBVIOUS
  <1>1. /\ stored = <<>> /\ buffer = <<>> /\ writer = "closed"
        /\ lengths = <<>> /\ flushed = <<>> /\ opened = 0
    BY DEF CaptureFileInit
  <1>2. /\ stored \in Seq(Blocks) /\ buffer \in Seq(Blocks) /\ lengths \in Seq(DataLengths)
        /\ flushed \in Seq(1 .. Len(lengths)) /\ Len(lengths) = 0
    BY <1>1, EmptySeq
  <1>3. FileIs(stored, flushed, lengths, Len(lengths))
    BY <1>1 DEF FileIs
  <1> QED
    BY <1>1, <1>2, <1>3, CaptureFileAssumption DEF CaptureFileInvariant

LEMMA CaptureFileKeep ==
    ASSUME CaptureFileInvariant, [CaptureFileNext]_captureVars
    PROVE  CaptureFileInvariant'
  <1> USE CaptureFileAssumption
  <1>1. PICK s \in Seq(Blocks) : s = stored
    BY DEF CaptureFileInvariant
  <1>2. PICK b \in Seq(Blocks) : b = buffer
    BY DEF CaptureFileInvariant
  <1>3. PICK ln \in Seq(DataLengths) : ln = lengths
    BY DEF CaptureFileInvariant
  <1>4. PICK n \in Nat : n = Len(ln)
    BY LenProperties
  <1>5. PICK fl \in Seq(1 .. n) : fl = flushed
    BY <1>3, <1>4 DEF CaptureFileInvariant
  <1>6. ln \in Seq(Nat) /\ \A i \in 1 .. n : ln[i] \in DataLengths /\ ln[i] \in Nat
    <2>1. \A i \in 1 .. n : ln[i] \in DataLengths /\ ln[i] \in Nat
      BY <1>4, ElementOfSeq
    <2>2. ln = [i \in 1 .. n |-> ln[i]]
      BY <1>4, LenProperties, SeqDef
    <2> QED
      BY <2>1, <2>2, SeqDef
  <1>7. n <= MaxWritten /\ opened \in 0 .. MaxOpened
    BY <1>3, <1>4 DEF CaptureFileInvariant
  <1>8. <<GlobalHeader>> \in Seq(Blocks) /\ <<>> \in Seq(Blocks)
    <2>1. GlobalHeader \in Blocks
      BY DEF Blocks
    <2> QED
      BY <2>1, EmptySeq
  <1>9. writer = "header" =>
           /\ n \in 1 .. MaxWritten
           /\ FileIs(s, fl, ln, n - 1)
           /\ b = (IF s = <<>> THEN <<GlobalHeader>> ELSE <<>>) \o Header(n, ln[n])
           /\ \A k \in 1 .. Len(fl) : fl[k] < n
    BY SMTT(30), <1>1, <1>2, <1>3, <1>4, <1>5, <1>7 DEF CaptureFileInvariant
  <1>10. writer = "spilled" =>
           /\ n \in 1 .. MaxWritten
           /\ s # <<>> /\ b = <<>>
           /\ AtHand(s, fl, ln) \/ \E t \in 1 .. n - 1 : TornAt(s, fl, ln, t)
           /\ \A k \in 1 .. Len(fl) : fl[k] < n
    BY <1>1, <1>2, <1>3, <1>4, <1>5, <1>7 DEF CaptureFileInvariant
  <1>11. writer = "header" =>
           /\ s \o b \in Seq(Blocks) /\ s \o b # <<>>
           /\ AtHand(s \o b, fl, ln) \/ \E t \in 1 .. n - 1 : TornAt(s \o b, fl, ln, t)
    BY ZenonT(60), <1>4, <1>6, <1>9, HeaderReachesFile
  <1>12. CASE OpenToAppend
    <2>1. /\ stored' = s /\ lengths' = ln /\ flushed' = fl /\ writer = "closed"
          /\ writer' = "open" /\ opened' \in 0 .. MaxOpened
          /\ buffer' = IF s = <<>> THEN <<GlobalHeader>> ELSE <<>>
      BY <1>1, <1>3, <1>5, <1>7, <1>12 DEF OpenToAppend
    <2>2. buffer' \in Seq(Blocks)
      BY <1>8, <2>1
    <2>3. FileIs(s, fl, ln, n)
      BY <1>1, <1>3, <1>4, <1>5, <2>1 DEF CaptureFileInvariant
    <2> QED
      BY <1>4, <1>7, <2>1, <2>2, <2>3 DEF CaptureFileInvariant
  <1>13. ASSUME NEW length \in DataLengths, WriteHeader(length) PROVE CaptureFileInvariant'
    <2>1. PICK ln1 : ln1 = Append(ln, length)
      OBVIOUS
    <2>2. /\ ln1 \in Seq(DataLengths) /\ Len(ln1) = n + 1 /\ ln1[n + 1] = length
          /\ Longer(ln, ln1)
      BY <1>4, <2>1, AppendProperties DEF Longer
    <2>3. PICK header \in Seq(Blocks) : header = Header(n + 1, length)
      <3>1. n + 1 \in 1 .. MaxWritten /\ length \in Nat
        BY <1>3, <1>4, <1>13 DEF WriteHeader
      <3> QED
        BY <3>1, HeaderIsBlocks
    <2>4. /\ stored' = s /\ lengths' = ln1 /\ flushed' = fl /\ opened' = opened
          /\ writer = "open" /\ writer' = "header"
          /\ buffer' = b \o header /\ n < MaxWritten
      BY <1>1, <1>2, <1>3, <1>4, <1>5, <1>13, <2>1, <2>2, <2>3 DEF WriteHeader
    <2>5. b = IF s = <<>> THEN <<GlobalHeader>> ELSE <<>>
      BY <1>1, <1>2, <2>4 DEF CaptureFileInvariant
    <2>6. FileIs(s, fl, ln, n)
      BY <1>1, <1>3, <1>4, <1>5, <2>4 DEF CaptureFileInvariant
    <2>7. FileIs(s, fl, ln1, n)
      <3>1. CASE s = <<>>
        BY <2>6, <3>1 DEF FileIs
      <3>2. CASE s # <<>> /\ Intact(s, fl, ln)
        <4>1. Len(s) \in Nat
          BY LenProperties
        <4> QED
          BY <1>4, <2>2, <3>2, <4>1, IntactStays DEF FileIs
      <3>3. CASE s # <<>> /\ \E t \in 1 .. n : TornAt(s, fl, ln, t)
        <4>1. PICK t \in 1 .. n : TornAt(s, fl, ln, t)
          BY <3>3
        <4>2. GoesOn(s, s)
          BY LenProperties DEF GoesOn
        <4>3. TornAt(s, fl, ln1, t)
          BY <1>4, <1>6, <2>2, <4>1, <4>2, TornStays
        <4> QED
          BY <3>3, <4>3 DEF FileIs
      <3> QED
        BY <2>6, <3>1, <3>2, <3>3 DEF FileIs
    <2>8. buffer' \in Seq(Blocks)
      BY <2>4, ConcatProperties
    <2>9. fl \in Seq(1 .. Len(ln1)) /\ \A k \in 1 .. Len(fl) : fl[k] < n + 1
      <3>1. PICK m \in Nat : m = Len(fl) /\ fl = [k \in 1 .. m |-> fl[k]]
        BY LenProperties, SeqDef
      <3>2. \A k \in 1 .. m : fl[k] \in 1 .. n
        BY <3>1, ElementOfSeq
      <3>3. \A k \in 1 .. m : fl[k] < n + 1
        BY SMTT(30), <3>2
      <3>4. 1 .. n \subseteq 1 .. n + 1
        OBVIOUS
      <3>5. fl \in Seq(1 .. n + 1)
        BY <3>4, WiderSeq
      <3> QED
        BY <2>2, <3>1, <3>3, <3>5
    <2>10. Len(ln1) - 1 = n /\ Len(ln1) > 0 /\ Len(ln1) <= MaxWritten
      BY <2>2, <2>4
    <2>11. buffer' = (IF s = <<>> THEN <<GlobalHeader>> ELSE <<>>) \o Header(Len(ln1), ln1[Len(ln1)])
      BY <2>2, <2>3, <2>4, <2>5
    <2> QED
      BY <1>7, <2>2, <2>4, <2>7, <2>8, <2>9, <2>10, <2>11 DEF CaptureFileInvariant
  <1>14. CASE Spill
    <2>1. /\ stored' = s \o b /\ buffer' = <<>> /\ lengths' = ln /\ flushed' = fl /\ opened' = opened
          /\ writer = "header" /\ writer' = "spilled"
      BY <1>1, <1>2, <1>3, <1>5, <1>14 DEF Spill
    <2> QED
      BY <1>4, <1>7, <1>8, <1>9, <1>11, <2>1 DEF CaptureFileInvariant
  <1>15. CASE WriteDataAndFlush
    <2>1. PICK data : data = Data(n, ln[n])
      OBVIOUS
    <2>2. PICK fl1 : fl1 = Append(fl, n)
      OBVIOUS
    <2>3. /\ stored' = s \o b \o data /\ buffer' = <<>> /\ lengths' = ln /\ flushed' = fl1 /\ opened' = opened
          /\ writer \in {"header", "spilled"} /\ writer' = "open"
      BY <1>1, <1>2, <1>3, <1>4, <1>5, <1>15, <2>1, <2>2 DEF WriteDataAndFlush, DataInHand
    <2>4. PICK s1 : s1 = s \o b
      OBVIOUS
    <2>5. /\ s1 \in Seq(Blocks) /\ s1 # <<>> /\ n \in 1 .. MaxWritten
          /\ AtHand(s1, fl, ln) \/ \E t \in 1 .. n - 1 : TornAt(s1, fl, ln, t)
      <3>1. CASE writer = "header"
        BY <1>9, <1>11, <2>4, <3>1
      <3>2. CASE writer = "spilled"
        <4>1. s1 = s
          BY <1>10, <2>4, <3>2, ConcatEmptySeq
        <4> QED
          BY <1>10, <3>2, <4>1
      <3> QED
        BY <2>3, <3>1, <3>2
    <2>6. s1 \o data \in Seq(Blocks) /\ FileIs(s1 \o data, fl1, ln, n)
      BY <1>4, <1>6, <2>1, <2>2, <2>5, DataReachesFile
    <2>7. stored' = s1 \o data
      BY <2>3, <2>4
    <2>8. s1 \o data # <<>>
      <3>1. PICK d \in Seq(Blocks) : d = data
        <4>1. n \in 1 .. MaxWritten /\ ln[n] \in Nat
          BY <1>6, <2>5
        <4>2. PICK length \in Nat : length = ln[n]
          BY <4>1
        <4>3. Data(n, length) \in Seq(Blocks)
          BY <4>1, HeaderIsBlocks
        <4> QED
          BY <2>1, <4>2, <4>3
      <3>2. Len(s1 \o d) = Len(s1) + Len(d) /\ Len(s1) \in Nat /\ Len(d) \in Nat /\ Len(s1) # 0
        BY <2>5, ConcatProperties, LenProperties, EmptySeq
      <3> QED
        BY <3>1, <3>2, EmptySeq
    <2>9. fl1 \in Seq(1 .. n)
      <3>1. n \in 1 .. n
        BY <2>5
      <3> QED
        BY <2>2, <3>1, AppendProperties
    <2> QED
      BY <1>4, <1>7, <1>8, <2>3, <2>6, <2>7, <2>8, <2>9 DEF CaptureFileInvariant
  <1>16. CASE CloseFile
    <2>1. /\ stored' = s \o b /\ buffer' = <<>> /\ lengths' = ln /\ flushed' = fl /\ opened' = opened
          /\ writer = "open" /\ writer' = "closed"
      BY <1>1, <1>2, <1>3, <1>5, <1>16 DEF CloseFile
    <2>2. b = IF s = <<>> THEN <<GlobalHeader>> ELSE <<>>
      BY <1>1, <1>2, <2>1 DEF CaptureFileInvariant
    <2>3. FileIs(s, fl, ln, n)
      BY <1>1, <1>3, <1>4, <1>5, <2>1 DEF CaptureFileInvariant
    <2>4. s \o b \in Seq(Blocks) /\ FileIs(s \o b, fl, ln, n)
      <3>1. CASE s = <<>>
        <4>1. s \o b = <<GlobalHeader>> /\ fl = <<>>
          BY <1>8, <2>2, <2>3, <3>1, ConcatEmptySeq DEF FileIs
        <4>2. <<GlobalHeader>> # <<>>
          OBVIOUS
        <4> QED
          BY <1>8, <4>1, <4>2, GlobalIsIntact DEF FileIs
      <3>2. CASE s # <<>>
        <4>1. s \o b = s
          BY <2>2, <3>2, ConcatEmptySeq
        <4> QED
          BY <2>3, <4>1
      <3> QED
        BY <3>1, <3>2
    <2> QED
      BY <1>4, <1>7, <1>8, <2>1, <2>4 DEF CaptureFileInvariant
  <1>17. CASE WriterKilled
    <2>1. /\ stored' = s /\ buffer' = <<>> /\ lengths' = ln /\ flushed' = fl /\ opened' = opened
          /\ writer # "closed" /\ writer' = "closed"
      BY <1>1, <1>3, <1>5, <1>17 DEF WriterKilled
    <2>2. writer \in {"open", "header", "spilled"}
      BY <2>1 DEF CaptureFileInvariant
    <2>3. FileIs(s, fl, ln, n)
      <3>1. CASE writer = "open"
        BY <1>1, <1>3, <1>4, <1>5, <3>1 DEF CaptureFileInvariant
      <3>2. CASE writer = "header"
        <4>1. \A t \in 1 .. n - 1 : t \in 1 .. n
          OBVIOUS
        <4> QED
          BY <1>9, <3>2, <4>1 DEF FileIs
      <3>3. CASE writer = "spilled"
        <4>1. \A t \in 1 .. n - 1 : t \in 1 .. n
          OBVIOUS
        <4>2. AtHand(s, fl, ln) => TornAt(s, fl, ln, n) /\ n \in 1 .. n
          BY <1>4, <1>10, <3>3, LenProperties, HandTornOff
        <4> QED
          BY <1>10, <3>3, <4>1, <4>2 DEF FileIs
      <3> QED
        BY <2>2, <3>1, <3>2, <3>3
    <2> QED
      BY <1>4, <1>7, <1>8, <2>1, <2>3 DEF CaptureFileInvariant
  <1>18. CASE captureVars' = captureVars
    BY <1>18 DEF CaptureFileInvariant, captureVars
  <1> QED
    BY <1>12, <1>13, <1>14, <1>15, <1>16, <1>17, <1>18 DEF CaptureFileNext

LEMMA CaptureFileAlways ==
    CaptureFileSpec => []CaptureFileInvariant
  <1>1. CaptureFileInit => CaptureFileInvariant
    BY CaptureFileStart
  <1>2. CaptureFileInvariant /\ [CaptureFileNext]_captureVars => CaptureFileInvariant'
    BY CaptureFileKeep
  <1> QED
    BY <1>1, <1>2, PTL DEF CaptureFileSpec

\* A packet that was torn is among those of TornPackets.
LEMMA TornIsTold ==
    ASSUME CaptureFileInvariant, NEW t, TornAt(stored, flushed, lengths, t)
    PROVE  t \in TornPackets
  <1>1. PICK m, pos :
             /\ m \in 0 .. Len(flushed)
             /\ Placed(stored, m, pos, flushed, lengths)
             /\ HoldsHeader(stored, pos[m + 1], t, lengths[t])
             /\ \A k \in 1 .. m : flushed[k] < t
             /\ \A k \in m + 1 .. Len(flushed) : flushed[k] > t
    BY DEF TornAt
  <1>2. PICK n \in Nat : n = Len(flushed) /\ DOMAIN flushed = 1 .. n
    BY LenProperties DEF CaptureFileInvariant
  <1>3. m \in Nat /\ m <= n
    BY <1>1, <1>2
  <1>4. PICK i \in Nat \ {0} : i = pos[m + 1]
    <2>1. m + 1 \in 1 .. m + 1
      BY <1>3
    <2> QED
      BY <1>1, <2>1 DEF Placed
  <1>5. PICK l \in Nat : l = Len(stored) /\ DOMAIN stored = 1 .. l
    BY LenProperties DEF CaptureFileInvariant
  <1>6. i \in 1 .. l /\ stored[i].part = "header" /\ stored[i].packet = t
    <2>1. i + 1 <= l /\ stored[i] = Header(t, lengths[t])[1]
      BY <1>1, <1>4, <1>5 DEF HoldsHeader
    <2>2. Header(t, lengths[t])[1] = [part |-> "header", packet |-> t, half |-> 1,
                                      incl_len |-> Included(lengths[t])]
      BY HeaderIs
    <2> QED
      BY <2>1, <2>2
  <1>7. ASSUME NEW k \in 1 .. n PROVE flushed[k] # t
    <2>1. flushed[k] \in Int
      <3>1. flushed \in Seq(1 .. Len(lengths))
        BY DEF CaptureFileInvariant
      <3> QED
        BY <1>2, <3>1, ElementOfSeq
    <2>2. k \in 1 .. m \/ k \in m + 1 .. n
      BY <1>3
    <2>3. flushed[k] < t \/ flushed[k] > t
      BY <1>1, <1>2, <2>2
    <2>4. CASE t \in Int
      BY <2>1, <2>3, <2>4
    <2>5. CASE t \notin Int
      BY <2>1, <2>5
    <2> QED
      BY <2>4, <2>5
  <1> QED
    BY <1>2, <1>5, <1>6, <1>7 DEF TornPackets

\* The file is a sequence of whole blocks, the buffer never holds more than
\* the headers it has room for (pcap.py 355-425).
THEOREM CaptureFileTypeCorrect == CaptureFileSpec => []CaptureFileTypes
  <1>1. CaptureFileInvariant => CaptureFileTypes
    <2> SUFFICES ASSUME CaptureFileInvariant PROVE CaptureFileTypes
      OBVIOUS
    <2> USE CaptureFileAssumption
    <2>1. PICK n \in Nat : n = Len(lengths) /\ n <= MaxWritten
      BY LenProperties DEF CaptureFileInvariant
    <2>2. flushed \in Seq(1 .. MaxWritten)
      <3>1. flushed \in Seq(1 .. n)
        BY <2>1 DEF CaptureFileInvariant
      <3>2. 1 .. n \subseteq 1 .. MaxWritten
        BY <2>1
      <3> QED
        BY <3>1, <3>2, WiderSeq
    <2>3. /\ <<>> \in Seq(Blocks) /\ Len(<<>>) = 0
          /\ <<GlobalHeader>> \in Seq(Blocks) /\ Len(<<GlobalHeader>>) = 1
      <3>1. GlobalHeader \in Blocks
        BY DEF Blocks
      <3> QED
        BY <3>1, EmptySeq
    <2>4. Len(buffer) <= BufferSize
      <3>1. CASE writer = "closed" \/ writer = "spilled"
        <4>1. Len(buffer) = 0
          BY <3>1, EmptySeq DEF CaptureFileInvariant
        <4> QED
          BY <4>1
      <3>2. CASE writer = "open"
        <4>1. buffer = <<>> \/ buffer = <<GlobalHeader>>
          BY <3>2 DEF CaptureFileInvariant
        <4>2. Len(buffer) = 0 \/ Len(buffer) = 1
          BY <2>3, <4>1
        <4>3. BufferSize \in Nat /\ BufferSize >= 3
          OBVIOUS
        <4>4. PICK l \in {0, 1} : l = Len(buffer)
          BY <4>2
        <4> QED
          BY <4>3, <4>4
      <3>3. CASE writer = "header"
        <4>1. PICK g : g = IF stored = <<>> THEN <<GlobalHeader>> ELSE <<>>
          OBVIOUS
        <4>2. g \in Seq(Blocks) /\ Len(g) <= 1 /\ Len(g) \in Nat
          BY <2>3, <4>1
        <4>3. n \in 1 .. MaxWritten
          BY <2>1, <3>3 DEF CaptureFileInvariant
        <4>4. lengths[n] \in Nat
          <5>1. lengths \in Seq(DataLengths)
            BY DEF CaptureFileInvariant
          <5>2. n \in 1 .. Len(lengths)
            BY <2>1, <4>3
          <5> QED
            BY <5>1, <5>2, ElementOfSeq
        <4>5. PICK header \in Seq(Blocks) : header = Header(n, lengths[n]) /\ Len(header) = 2
          BY <4>3, <4>4, HeaderIsBlocks
        <4>6. buffer = g \o header
          BY <2>1, <3>3, <4>1, <4>5 DEF CaptureFileInvariant
        <4>7. Len(buffer) = Len(g) + 2
          <5>1. g \in Seq(Blocks)
            BY <4>2
          <5>2. Len(g \o header) = Len(g) + Len(header)
            BY <5>1, ConcatProperties
          <5> QED
            BY <4>5, <4>6, <5>2
        <4> QED
          BY <4>2, <4>7
      <3> QED
        BY <3>1, <3>2, <3>3 DEF CaptureFileInvariant
    <2> QED
      BY <2>2, <2>4 DEF CaptureFileTypes, CaptureFileInvariant
  <1> QED
    BY <1>1, CaptureFileAlways, PTL

\* Whatever a killed writer leaves in its buffer or in the file, and however
\* often the file is opened again, the packets for which write() came back
\* before the first one that was torn are read back, each in its place and up
\* to its snap length; where none was torn, nothing else is (pcap.py 355-425).
THEOREM FlushedReadBack == CaptureFileSpec => []LogReadsBack
  <1>1. CaptureFileInvariant => LogReadsBack
    <2> SUFFICES ASSUME CaptureFileInvariant, NEW read, read = PacketsOf(stored)
                 PROVE  /\ \A k \in DOMAIN flushed :
                              (\A t \in TornPackets : flushed[k] < t)
                                => k <= Len(read) /\ read[k] = Data(flushed[k], lengths[flushed[k]])
                        /\ TornPackets = {} => Len(read) = Len(flushed)
      BY DEF LogReadsBack
    <2>1. stored \in Seq(Blocks)
      BY DEF CaptureFileInvariant
    <2>2. PICK n \in Nat : n = Len(flushed) /\ DOMAIN flushed = 1 .. n
      BY LenProperties DEF CaptureFileInvariant
    <2>3. CASE stored = <<>> /\ flushed = <<>>
      <3>1. read = <<>> /\ n = 0
        BY <2>2, <2>3, EmptySeq DEF PacketsOf
      <3> QED
        BY <2>2, <3>1
    <2>4. CASE stored # <<>> /\ Intact(stored, flushed, lengths)
      <3>1. PICK pos : /\ Placed(stored, n, pos, flushed, lengths)
                       /\ pos[n + 1] = Len(stored) + 1
        BY <2>2, <2>4 DEF Intact
      <3>2. /\ n <= Len(read) /\ Len(read) = n
            /\ \A k \in 1 .. n : read[k] = Data(flushed[k], lengths[flushed[k]])
        BY <2>1, <2>4, <3>1, PlacedAreFirst
      <3> QED
        BY <2>2, <3>2
    <2>5. CASE stored # <<>> /\ \E t : TornAt(stored, flushed, lengths, t)
      <3>1. PICK t : TornAt(stored, flushed, lengths, t)
        BY <2>5
      <3>2. t \in TornPackets
        BY <3>1, TornIsTold
      <3>3. PICK m, pos :
                 /\ m \in 0 .. n
                 /\ Placed(stored, m, pos, flushed, lengths)
                 /\ \A k \in m + 1 .. n : flushed[k] > t
        BY <2>2, <3>1 DEF TornAt
      <3>4. m \in Nat
        BY <3>3
      <3>5. m <= Len(read) /\ \A k \in 1 .. m : read[k] = Data(flushed[k], lengths[flushed[k]])
        BY <2>1, <2>5, <3>3, <3>4, PlacedAreFirst
      <3>6. ASSUME NEW k \in 1 .. n, flushed[k] < t PROVE k \in 1 .. m
        <4>1. flushed[k] \in Int /\ t \in Int
          <5>1. flushed \in Seq(1 .. Len(lengths))
            BY DEF CaptureFileInvariant
          <5>2. flushed[k] \in Int
            BY <2>2, <5>1, ElementOfSeq
          <5>3. t \in Int
            <6>1. PICK i \in DOMAIN stored : stored[i].part = "header" /\ stored[i].packet = t
              BY <3>2 DEF TornPackets
            <6>2. stored[i] \in Blocks
              BY <2>1, LenProperties, ElementOfSeq
            <6> QED
              BY <6>1, <6>2 DEF Blocks, GlobalHeader
          <5> QED
            BY <5>2, <5>3
        <4>2. ~(k \in m + 1 .. n)
          <5> SUFFICES ASSUME k \in m + 1 .. n PROVE FALSE
            OBVIOUS
          <5>1. flushed[k] > t
            BY <3>3
          <5> QED
            BY <3>6, <4>1, <5>1
        <4> QED
          BY <3>4, <4>2
      <3>7. ASSUME NEW k \in 1 .. n, \A u \in TornPackets : flushed[k] < u
            PROVE  k <= Len(read) /\ read[k] = Data(flushed[k], lengths[flushed[k]])
        <4>1. k \in 1 .. m
          BY <3>2, <3>6, <3>7
        <4>2. Len(read) \in Int
          <5>1. PICK r : r = ReadFrom(stored)
            OBVIOUS
          <5>2. Len(stored) \in Nat /\ Len(stored) # 0
            BY <2>1, <2>5, LenProperties, EmptySeq
          <5>3. 2 \in 1 .. Len(stored) + 1
            BY <5>2
          <5>4. read = r[2] /\ r[2] \in Seq(Seq(Blocks))
            BY <2>1, <2>5, <5>1, <5>3, ReadingGoesOn, PacketsAreRead
          <5> QED
            BY <5>4, LenProperties
        <4> QED
          BY <3>4, <3>5, <4>1, <4>2
      <3> QED
        BY <2>2, <3>2, <3>7
    <2>6. FileIs(stored, flushed, lengths, Len(lengths))
      <3>1. writer \in {"closed", "open", "header", "spilled"}
        BY DEF CaptureFileInvariant
      <3>2. CASE writer \in {"closed", "open"}
        BY <3>2 DEF CaptureFileInvariant
      <3>3. PICK l \in Nat : l = Len(lengths)
        BY LenProperties DEF CaptureFileInvariant
      <3>4. \A t \in 1 .. l - 1 : t \in 1 .. l
        OBVIOUS
      <3>5. CASE writer = "header"
        BY <3>3, <3>4, <3>5 DEF CaptureFileInvariant, FileIs
      <3>6. CASE writer = "spilled"
        <4>1. AtHand(stored, flushed, lengths) => TornAt(stored, flushed, lengths, l) /\ l \in 1 .. l
          <5>1. Len(flushed) \in Nat
            BY <2>2
          <5>2. l > 0 /\ \A k \in 1 .. Len(flushed) : flushed[k] < Len(lengths)
            BY <3>3, <3>6 DEF CaptureFileInvariant
          <5> QED
            BY <3>3, <5>1, <5>2, HandTornOff
        <4> QED
          BY <3>3, <3>4, <3>6, <4>1 DEF CaptureFileInvariant, FileIs
      <3> QED
        BY <3>1, <3>2, <3>5, <3>6
    <2> QED
      BY <2>3, <2>4, <2>5, <2>6 DEF FileIs
  <1> QED
    BY <1>1, CaptureFileAlways, PTL

-----------------------------------------------------------------------------
(* The packet archive.                                                     *)

\* Keys that order a set.
Keys(S, key) == /\ IsFiniteSet(S)
                /\ key \in [S -> Nat \X Nat]
                /\ \A x, y \in S : key[x] = key[y] => x = y

Below(S, key, x) == {y \in S : Precedes(key[y], key[x])}

LEMMA KeysOrder ==
    ASSUME NEW S, NEW key, Keys(S, key)
    PROVE  /\ \A x \in S : ~Precedes(key[x], key[x])
           /\ \A x, y \in S : x = y \/ Precedes(key[x], key[y]) \/ Precedes(key[y], key[x])
           /\ \A x, y, z \in S : Precedes(key[x], key[y]) /\ Precedes(key[y], key[z])
                                    => Precedes(key[x], key[z])
  <1>1. \A x \in S : key[x] = <<key[x][1], key[x][2]>> /\ key[x][1] \in Nat /\ key[x][2] \in Nat
    BY DEF Keys
  <1>2. \A x, y \in S : key[x][1] = key[y][1] /\ key[x][2] = key[y][2] => x = y
    BY <1>1 DEF Keys
  <1> QED
    BY <1>1, <1>2 DEF Precedes

\* Who has fewer before him comes before.
LEMMA FewerBelow ==
    ASSUME NEW S, NEW key, Keys(S, key), NEW x \in S
    PROVE  /\ Cardinality(Below(S, key, x)) \in 0 .. Cardinality(S) - 1
           /\ Cardinality(S) \in Nat
           /\ \A y \in S : Cardinality(Below(S, key, x)) < Cardinality(Below(S, key, y))
                              <=> Precedes(key[x], key[y])
  <1>1. \A y \in S : /\ IsFiniteSet(Below(S, key, y))
                     /\ Cardinality(Below(S, key, y)) \in Nat
    <2> TAKE y \in S
    <2>1. Below(S, key, y) \subseteq S
      BY DEF Below
    <2>2. IsFiniteSet(S)
      BY DEF Keys
    <2> QED
      BY <2>1, <2>2, FS_Subset, FS_CardinalityType
  <1>2. IsFiniteSet(S) /\ Cardinality(S) \in Nat
    BY FS_CardinalityType DEF Keys
  <1>3. ASSUME NEW T, T \subseteq S, NEW y \in S, x \in T, Below(S, key, y) \subseteq T, y = x \/ Precedes(key[y], key[x]), x \notin Below(S, key, y)
        PROVE  IsFiniteSet(T) => Cardinality(Below(S, key, y)) < Cardinality(T)
    <2> SUFFICES ASSUME IsFiniteSet(T) PROVE Cardinality(Below(S, key, y)) < Cardinality(T)
      OBVIOUS
    <2>1. /\ Cardinality(Below(S, key, y)) <= Cardinality(T)
          /\ Cardinality(Below(S, key, y)) # Cardinality(T)
      BY <1>3, FS_Subset
    <2>2. Cardinality(T) \in Nat
      BY FS_CardinalityType
    <2> QED
      BY <1>1, <2>1, <2>2
  <1>4. Cardinality(Below(S, key, x)) < Cardinality(S)
    <2>1. Below(S, key, x) \subseteq S /\ x \notin Below(S, key, x)
      BY KeysOrder DEF Below
    <2> QED
      BY <1>2, <1>3, <2>1
  <1>5. ASSUME NEW u \in S, NEW v \in S, Precedes(key[u], key[v])
        PROVE  Cardinality(Below(S, key, u)) < Cardinality(Below(S, key, v))
    <2>1. /\ Below(S, key, u) \subseteq Below(S, key, v)
          /\ u \in Below(S, key, v) /\ u \notin Below(S, key, u)
      <3>1. \A z \in S : Precedes(key[z], key[u]) => Precedes(key[z], key[v])
        BY <1>5, KeysOrder
      <3>2. ~Precedes(key[u], key[u])
        BY KeysOrder
      <3> QED
        BY <1>5, <3>1, <3>2 DEF Below
    <2>2. /\ Cardinality(Below(S, key, u)) <= Cardinality(Below(S, key, v))
          /\ Cardinality(Below(S, key, u)) # Cardinality(Below(S, key, v))
      BY <1>1, <2>1, FS_Subset
    <2> QED
      BY <1>1, <2>2
  <1>6. ASSUME NEW y \in S, Cardinality(Below(S, key, x)) < Cardinality(Below(S, key, y))
        PROVE  Precedes(key[x], key[y])
    <2>1. x # y
      BY <1>1, <1>6
    <2>2. ~Precedes(key[y], key[x])
      <3> SUFFICES ASSUME Precedes(key[y], key[x]) PROVE FALSE
        OBVIOUS
      <3>1. Cardinality(Below(S, key, y)) < Cardinality(Below(S, key, x))
        BY <1>5
      <3> QED
        BY <1>1, <1>6, <3>1
    <2> QED
      BY <2>1, <2>2, KeysOrder
  <1> QED
    BY <1>1, <1>2, <1>4, <1>5, <1>6

\* A set that is sorted is a sequence of its elements, each once, that is in order.
InOrder(s, S, key) ==
    /\ s \in Seq(S) /\ DOMAIN s = 1 .. Cardinality(S) /\ Cardinality(S) \in Nat
    /\ \A x \in S : \E k \in DOMAIN s : s[k] = x
    /\ \A j, k \in DOMAIN s : j < k => Precedes(key[s[j]], key[s[k]])
    /\ \A j, k \in DOMAIN s : s[j] = s[k] => j = k

LEMMA SortedIs ==
    ASSUME NEW S, NEW key, Keys(S, key), NEW s, s = Sorted(S, key)
    PROVE  InOrder(s, S, key)
  <1>1. PICK n \in Nat : n = Cardinality(S)
    BY FS_CardinalityType DEF Keys
  <1> DEFINE rank == [x \in S |-> Cardinality(Below(S, key, x))]
  <1>2. \A x \in S : rank[x] \in 0 .. n - 1 /\ rank[x] = Cardinality({y \in S : Precedes(key[y], key[x])})
    BY <1>1, FewerBelow DEF Below
  <1>3. \A x, y \in S : rank[x] < rank[y] <=> Precedes(key[x], key[y])
    BY FewerBelow
  <1>4. rank \in [S -> 0 .. n - 1]
    <2>1. \A x \in S : Cardinality(Below(S, key, x)) \in 0 .. n - 1
      BY <1>1, FewerBelow
    <2> QED
      BY <2>1
  <1> HIDE DEF rank
  <1>5. \A x, y \in S : rank[x] = rank[y] => x = y
    <2> SUFFICES ASSUME NEW x \in S, NEW y \in S, rank[x] = rank[y] PROVE x = y
      OBVIOUS
    <2>1. ~(rank[x] < rank[y]) /\ ~(rank[y] < rank[x])
      <3>1. PICK r \in 0 .. n - 1 : r = rank[x]
        BY <1>2
      <3> QED
        BY <3>1
    <2> QED
      BY <1>3, <2>1, KeysOrder
  <1>6. \A i \in 0 .. n - 1 : \E x \in S : rank[x] = i
    <2>1. rank \in Injection(S, 0 .. n - 1)
      BY <1>4, <1>5 DEF Injection, IsInjective
    <2>2. IsFiniteSet(0 .. n - 1) /\ Cardinality(0 .. n - 1) = n
      BY FS_Interval
    <2>3. rank \in Surjection(S, 0 .. n - 1)
      BY <1>1, <2>1, <2>2, FS_Injection
    <2> QED
      BY <2>3 DEF Surjection
  <1>7. s = [k \in 1 .. n |-> CHOOSE x \in S : Cardinality({y \in S : Precedes(key[y], key[x])}) = k - 1]
    BY <1>1 DEF Sorted
  <1>8. \A k \in 1 .. n : s[k] \in S /\ rank[s[k]] = k - 1
    <2> TAKE k \in 1 .. n
    <2>1. s[k] = CHOOSE x \in S : Cardinality({y \in S : Precedes(key[y], key[x])}) = k - 1
      BY <1>7
    <2>2. k - 1 \in 0 .. n - 1
      OBVIOUS
    <2>3. PICK x \in S : rank[x] = k - 1
      BY <1>6, <2>2
    <2>4. Cardinality({y \in S : Precedes(key[y], key[x])}) = k - 1
      BY <1>2, <2>3
    <2>5. s[k] \in S /\ Cardinality({y \in S : Precedes(key[y], key[s[k]])}) = k - 1
      BY <2>1, <2>4
    <2> QED
      BY <1>2, <2>5
  <1>9. DOMAIN s = 1 .. n /\ s = [k \in 1 .. n |-> s[k]]
    BY <1>7
  <1>10. s \in Seq(S) /\ Len(s) = n
    BY <1>8, <1>9
  <1>11. \A x \in S : \E k \in 1 .. n : s[k] = x
    <2> TAKE x \in S
    <2>1. PICK r \in 0 .. n - 1 : r = rank[x]
      BY <1>2
    <2>2. r + 1 \in 1 .. n /\ (r + 1) - 1 = r
      OBVIOUS
    <2>3. s[r + 1] \in S /\ rank[s[r + 1]] = r
      BY <1>8, <2>2
    <2> QED
      BY <1>5, <2>1, <2>2, <2>3
  <1>12. ASSUME NEW j \in 1 .. n, NEW k \in 1 .. n, j < k
         PROVE  Precedes(key[s[j]], key[s[k]])
    <2>1. rank[s[j]] = j - 1 /\ rank[s[k]] = k - 1 /\ s[j] \in S /\ s[k] \in S /\ j - 1 < k - 1
      BY <1>8, <1>12
    <2> QED
      BY <1>3, <2>1
  <1>13. ASSUME NEW j \in 1 .. n, NEW k \in 1 .. n, s[j] = s[k]
         PROVE  j = k
    BY <1>8, <1>13
  <1> QED
    BY <1>1, <1>9, <1>10, <1>11, <1>12, <1>13 DEF InOrder

-----------------------------------------------------------------------------
(* What a query has still to yield.                                        *)

RowSet == [time : Nat, id : Nat]
TypesOfPackets == {PacketTypes[i] : i \in DOMAIN PacketTypes}

Result == [type : TypesOfPackets, rows : Seq(RowSet)]
Ready == [at : Nat, type : TypesOfPackets, row : RowSet]
Yielded == [type : TypesOfPackets, row : RowSet]

\* Of one type, with all its rows, the rows to come, the round and what was yielded: the rows
\* were yielded from the first on, at most one is in the round, and the others follow it.
Ofs(t, y) == {j \in DOMAIN y : y[j].type = t}
InRound(t, r) == IF \E k \in DOMAIN r : r[k].type = t THEN 1 ELSE 0

Part(t, all, rest, r, y) ==
    LET n == CountTo(Ofs(t, y), Len(y)) IN
    /\ Len(all) = n + InRound(t, r) + Len(rest)
    /\ \A k \in 1 .. Len(rest) : rest[k] = all[n + InRound(t, r) + k]
    /\ \A k \in DOMAIN r : r[k].type = t => r[k].row = all[n + 1]
    /\ \A j \in DOMAIN y : y[j].type = t => y[j].row = all[CountTo(Ofs(t, y), j)]

Distinct(r) == \A j, k \in DOMAIN r : r[j].type = r[k].type => j = k

\* One more is yielded.
LEMMA PartYields ==
    ASSUME NEW t, NEW all \in Seq(RowSet), NEW rest \in Seq(RowSet),
           NEW r \in Seq(Ready), NEW y \in Seq(Yielded), Distinct(r), r # <<>>,
           Part(t, all, rest, r, y),
           NEW z, z = Append(y, [type |-> Head(r).type, row |-> Head(r).row])
    PROVE  Part(t, all, rest, Tail(r), z)
  <1>1. PICK m \in Nat : m = Len(y) /\ DOMAIN y = 1 .. m
    BY LenProperties
  <1>2. PICK h \in Ready : h = Head(r) /\ h = r[1]
    BY HeadTailProperties
  <1>3. PICK l \in Nat : Len(r) = l + 1 /\ DOMAIN r = 1 .. l + 1
    <2>1. Len(r) \in Nat \ {0} /\ DOMAIN r = 1 .. Len(r)
      BY LenProperties, EmptySeq
    <2>2. Len(r) - 1 \in Nat /\ (Len(r) - 1) + 1 = Len(r)
      BY <2>1
    <2> QED
      BY <2>1, <2>2
  <1>4. PICK q : q = Tail(r)
    OBVIOUS
  <1>5. DOMAIN q = 1 .. l /\ \A k \in 1 .. l : q[k] = r[k + 1]
    <2>1. q \in Seq(Ready) /\ Len(q) = l /\ \A k \in 1 .. Len(q) : q[k] = r[k + 1]
      BY <1>3, <1>4, HeadTailProperties
    <2> QED
      BY <2>1, LenProperties
  <1>6. PICK e : e = [type |-> h.type, row |-> h.row]
    OBVIOUS
  <1>7. e \in Yielded
    BY <1>2, <1>6 DEF Ready, Yielded
  <1>8. /\ z \in Seq(Yielded) /\ Len(z) = m + 1 /\ DOMAIN z = 1 .. m + 1
        /\ z[m + 1] = e /\ \A j \in 1 .. m : z[j] = y[j]
    <2>1. z = Append(y, e)
      BY <1>2, <1>6
    <2>2. z \in Seq(Yielded) /\ Len(z) = m + 1 /\ z[m + 1] = e /\ \A j \in 1 .. m : z[j] = y[j]
      BY <1>1, <1>7, <2>1, AppendProperties
    <2> QED
      BY <2>2, LenProperties
  <1>9. \A j \in 0 .. m : CountTo(Ofs(t, z), j) = CountTo(Ofs(t, y), j)
    <2> TAKE j \in 0 .. m
    <2>1. UpTo(Ofs(t, z), j) = UpTo(Ofs(t, y), j)
      <3>1. \A i \in 1 .. j : i \in 1 .. m /\ i \in 1 .. m + 1
        OBVIOUS
      <3> QED
        BY <1>1, <1>8, <3>1 DEF UpTo, Ofs
    <2> QED
      BY <2>1 DEF CountTo
  <1>10. PICK n \in Nat : n = CountTo(Ofs(t, y), m)
    BY CountGrows
  <1>11. CountTo(Ofs(t, z), m) = n
    <2>1. m \in 0 .. m
      OBVIOUS
    <2> QED
      BY <1>9, <1>10, <2>1
  <1>12. e.type = h.type /\ e.row = h.row
    BY <1>6
  <1>13. ASSUME NEW j \in 1 .. m, z[j].type = t PROVE z[j].row = all[CountTo(Ofs(t, z), j)]
    <2>1. j \in 0 .. m /\ j \in DOMAIN y /\ z[j] = y[j]
      BY <1>1, <1>8
    <2>2. y[j].type = t
      BY <1>13, <2>1
    <2>3. y[j].row = all[CountTo(Ofs(t, y), j)]
      BY <2>1, <2>2 DEF Part
    <2> QED
      BY <1>9, <2>1, <2>3
  <1>14. CASE h.type = t
    <2>1. CountTo(Ofs(t, z), m + 1) = n + 1
      <3>1. m + 1 \in Ofs(t, z)
        BY <1>8, <1>12, <1>14 DEF Ofs
      <3> QED
        BY <1>11, <3>1, CountGrows
    <2>2. InRound(t, r) = 1
      <3>1. 1 \in DOMAIN r
        BY <1>3
      <3> QED
        BY <1>2, <1>14, <3>1 DEF InRound
    <2>3. \A k \in DOMAIN q : q[k].type # t
      <3> TAKE k \in DOMAIN q
      <3>1. k \in 1 .. l /\ k + 1 \in DOMAIN r /\ 1 \in DOMAIN r /\ k + 1 # 1 /\ q[k] = r[k + 1]
        BY <1>3, <1>5
      <3> QED
        BY <1>2, <1>14, <3>1 DEF Distinct
    <2>4. InRound(t, q) = 0
      BY <2>3 DEF InRound
    <2>5. e.row = all[n + 1]
      <3>1. 1 \in DOMAIN r
        BY <1>3
      <3> QED
        BY <1>1, <1>2, <1>10, <1>12, <1>14, <3>1 DEF Part
    <2>6. ASSUME NEW j \in DOMAIN z, z[j].type = t PROVE z[j].row = all[CountTo(Ofs(t, z), j)]
      <3>1. CASE j = m + 1
        BY <1>8, <2>1, <2>5, <3>1
      <3>2. CASE j # m + 1
        <4>1. j \in 1 .. m
          BY <1>8, <3>2
        <4> QED
          BY <1>13, <2>6, <4>1
      <3> QED
        BY <3>1, <3>2
    <2>7. Len(rest) \in Nat
      BY LenProperties
    <2>8. PICK c \in Nat : c = n + 1
      OBVIOUS
    <2>9. /\ Len(all) = c + InRound(t, q) + Len(rest)
          /\ \A k \in 1 .. Len(rest) : rest[k] = all[c + InRound(t, q) + k]
      <3>1. Len(all) = n + 1 + Len(rest) /\ \A k \in 1 .. Len(rest) : rest[k] = all[n + 1 + k]
        BY <1>1, <1>10, <2>2 DEF Part
      <3>2. c + 0 = c
        OBVIOUS
      <3> QED
        BY <2>4, <2>8, <3>1, <3>2
    <2>10. \A k \in DOMAIN q : q[k].type = t => q[k].row = all[c + 1]
      BY <2>3
    <2>11. CountTo(Ofs(t, z), Len(z)) = c
      BY <1>8, <2>1, <2>8
    <2> QED
      BY <1>4, <2>6, <2>9, <2>10, <2>11 DEF Part
  <1>15. CASE h.type # t
    <2>1. CountTo(Ofs(t, z), m + 1) = n
      <3>1. m + 1 \notin Ofs(t, z)
        BY <1>8, <1>12, <1>15 DEF Ofs
      <3> QED
        BY <1>11, <3>1, CountGrows
    <2>2. \A k \in DOMAIN r : r[k].type = t => k - 1 \in DOMAIN q /\ q[k - 1] = r[k]
      <3> SUFFICES ASSUME NEW k \in DOMAIN r, r[k].type = t PROVE k - 1 \in DOMAIN q /\ q[k - 1] = r[k]
        OBVIOUS
      <3>1. k # 1
        BY <1>2, <1>15
      <3>2. k - 1 \in 1 .. l /\ (k - 1) + 1 = k
        BY <1>3, <3>1
      <3> QED
        BY <1>5, <3>2
    <2>3. \A k \in DOMAIN q : k + 1 \in DOMAIN r /\ q[k] = r[k + 1]
      BY <1>3, <1>5
    <2>4. InRound(t, q) = InRound(t, r)
      <3>1. (\E k \in DOMAIN q : q[k].type = t) <=> (\E k \in DOMAIN r : r[k].type = t)
        <4>1. ASSUME NEW k \in DOMAIN r, r[k].type = t PROVE \E i \in DOMAIN q : q[i].type = t
          BY <2>2, <4>1
        <4>2. ASSUME NEW k \in DOMAIN q, q[k].type = t PROVE \E i \in DOMAIN r : r[i].type = t
          BY <2>3, <4>2
        <4> QED
          BY <4>1, <4>2
      <3> QED
        BY <3>1 DEF InRound
    <2>5. \A k \in DOMAIN q : q[k].type = t => q[k].row = all[n + 1]
      BY <1>1, <1>10, <2>3 DEF Part
    <2>6. ASSUME NEW j \in DOMAIN z, z[j].type = t PROVE z[j].row = all[CountTo(Ofs(t, z), j)]
      <3>1. j # m + 1
        BY <1>8, <1>12, <1>15, <2>6
      <3>2. j \in 1 .. m
        BY <1>8, <3>1
      <3> QED
        BY <1>13, <2>6, <3>2
    <2>7. /\ Len(all) = n + InRound(t, q) + Len(rest)
          /\ \A k \in 1 .. Len(rest) : rest[k] = all[n + InRound(t, q) + k]
      BY <1>1, <1>10, <2>4 DEF Part
    <2> QED
      BY <1>4, <1>8, <2>1, <2>5, <2>6, <2>7 DEF Part
  <1> QED
    BY <1>14, <1>15

\* A round begins.
LEMMA PartRounds ==
    ASSUME NEW t, NEW all \in Seq(RowSet), NEW rest \in Seq(RowSet), NEW y \in Seq(Yielded),
           Part(t, all, rest, <<>>, y),
           NEW q \in Seq(Ready),
           \A k \in DOMAIN q : q[k].type = t => rest # <<>> /\ q[k].row = Head(rest),
           rest # <<>> => \E k \in DOMAIN q : q[k].type = t,
           NEW more, more = IF rest = <<>> THEN <<>> ELSE Tail(rest)
    PROVE  Part(t, all, more, q, y)
  <1>1. PICK n \in Nat : n = CountTo(Ofs(t, y), Len(y))
    BY CountGrows, LenProperties
  <1>2. InRound(t, <<>>) = 0
    <2>1. DOMAIN <<>> = {}
      BY EmptySeq
    <2> QED
      BY <2>1 DEF InRound
  <1>3. PICK l \in Nat : l = Len(rest)
    BY LenProperties
  <1>4. Len(all) = n + l /\ \A k \in 1 .. l : rest[k] = all[n + k]
    <2>1. Len(all) = n + 0 + l /\ \A k \in 1 .. l : rest[k] = all[n + 0 + k]
      BY <1>1, <1>2, <1>3 DEF Part
    <2>2. n + 0 = n
      OBVIOUS
    <2> QED
      BY <2>1, <2>2
  <1>5. \A j \in DOMAIN y : y[j].type = t => y[j].row = all[CountTo(Ofs(t, y), j)]
    BY DEF Part
  <1>6. CASE rest = <<>>
    <2>1. l = 0 /\ Len(more) = 0
      BY <1>3, <1>6, EmptySeq
    <2>2. InRound(t, q) = 0
      BY <1>6 DEF InRound
    <2>3. PICK a \in Nat : a = InRound(t, q) /\ a = 0
      BY <2>2
    <2>4. Len(all) = n + a + Len(more) /\ \A k \in 1 .. Len(more) : more[k] = all[n + a + k]
      BY <1>4, <2>1, <2>3
    <2> QED
      BY <1>1, <1>5, <1>6, <2>3, <2>4 DEF Part
  <1>7. CASE rest # <<>>
    <2>1. /\ Head(rest) = rest[1] /\ more = Tail(rest) /\ Len(more) = l - 1
          /\ \A k \in 1 .. Len(more) : more[k] = rest[k + 1]
      BY <1>3, <1>7, HeadTailProperties
    <2>2. l # 0
      BY <1>3, <1>7, EmptySeq
    <2>3. PICK a \in Nat : a = InRound(t, q) /\ a = 1
      BY <1>7 DEF InRound
    <2>4. Len(all) = n + a + Len(more)
      <3>1. PICK b \in Nat : b = Len(more) /\ b = l - 1
        BY <2>1, <2>2
      <3>2. n \in Nat /\ l \in Nat /\ b = l - 1 /\ a = 1
        BY <1>1, <1>3, <2>3, <3>1
      <3>3. n + 1 + (l - 1) = n + l
        BY <3>2
      <3> QED
        BY <1>4, <3>1, <3>2, <3>3
    <2>5. \A k \in 1 .. Len(more) : more[k] = all[n + a + k]
      <3> TAKE k \in 1 .. Len(more)
      <3>1. k + 1 \in 1 .. l /\ n + (k + 1) = n + a + k
        BY <2>1, <2>2, <2>3
      <3> QED
        BY <1>4, <2>1, <3>1
    <2>6. \A k \in DOMAIN q : q[k].type = t => q[k].row = all[n + 1]
      <3>1. 1 \in 1 .. l
        BY <2>2
      <3> QED
        BY <1>4, <2>1, <3>1
    <2> QED
      BY <1>1, <1>5, <2>3, <2>4, <2>5, <2>6 DEF Part
  <1> QED
    BY <1>6, <1>7

Ordered(rows) == \A j, k \in DOMAIN rows : j < k => rows[j].time <= rows[k].time

AskedFor(t, a) == \E i \in DOMAIN a : a[i].type = t

\* A query as it was made, its results, the round and what was yielded.
Query(a, c, r, y) ==
    /\ a \in Seq(Result) /\ c \in Seq(Result) /\ r \in Seq(Ready) /\ y \in Seq(Yielded)
    /\ DOMAIN a = DOMAIN c
    /\ Distinct(a) /\ Distinct(r)
    /\ \A i \in DOMAIN a : /\ c[i].type = a[i].type
                           /\ Ordered(a[i].rows)
                           /\ Part(a[i].type, a[i].rows, c[i].rows, r, y)
    /\ \A k \in DOMAIN r : AskedFor(r[k].type, a)
    /\ \A j \in DOMAIN y : AskedFor(y[j].type, a)

LEMMA QueryBegins ==
    ASSUME NEW c \in Seq(Result), Distinct(c), \A i \in DOMAIN c : Ordered(c[i].rows)
    PROVE  Query(c, c, <<>>, <<>>)
  <1>1. <<>> \in Seq(Ready) /\ <<>> \in Seq(Yielded) /\ Len(<<>>) = 0 /\ DOMAIN <<>> = {}
    BY EmptySeq
  <1>2. ASSUME NEW i \in DOMAIN c PROVE Part(c[i].type, c[i].rows, c[i].rows, <<>>, <<>>)
    <2>1. PICK rows \in Seq(RowSet) : rows = c[i].rows
      <3>1. c[i] \in Result
        BY ElementOfSeq, LenProperties
      <3> QED
        BY <3>1 DEF Result
    <2>2. InRound(c[i].type, <<>>) = 0
      BY <1>1 DEF InRound
    <2>3. CountTo(Ofs(c[i].type, <<>>), 0) = 0
      <3>1. UpTo(Ofs(c[i].type, <<>>), 0) = {}
        BY DEF UpTo
      <3> QED
        BY <3>1, FS_EmptySet DEF CountTo
    <2>4. PICK l \in Nat : l = Len(rows)
      BY LenProperties
    <2>5. PICK n \in Nat : n = CountTo(Ofs(c[i].type, <<>>), Len(<<>>)) /\ n = 0
      BY <1>1, <2>3
    <2>6. PICK a \in Nat : a = InRound(c[i].type, <<>>) /\ a = 0
      BY <2>2
    <2>7. l = n + a + l /\ \A k \in 1 .. l : k = n + a + k
      BY <2>5, <2>6
    <2> QED
      BY <1>1, <2>1, <2>4, <2>5, <2>6, <2>7 DEF Part
  <1> QED
    BY <1>1, <1>2 DEF Query, Distinct

LEMMA QueryOfNone == Query(<<>>, <<>>, <<>>, <<>>)
  <1>1. <<>> \in Seq(Result) /\ DOMAIN <<>> = {}
    BY EmptySeq
  <1> QED
    BY <1>1, QueryBegins DEF Distinct

LEMMA QueryYields ==
    ASSUME NEW a, NEW c, NEW r, NEW y, Query(a, c, r, y), r # <<>>,
           NEW z, z = Append(y, [type |-> Head(r).type, row |-> Head(r).row])
    PROVE  Query(a, c, Tail(r), z)
  <1>1. /\ r \in Seq(Ready) /\ y \in Seq(Yielded)
        /\ Distinct(r)
    BY DEF Query
  <1>2. PICK m \in Nat : m = Len(y) /\ DOMAIN y = 1 .. m
    BY <1>1, LenProperties
  <1>3. PICK h \in Ready : h = Head(r) /\ h = r[1] /\ 1 \in DOMAIN r
    <2>1. Len(r) \in Nat \ {0} /\ DOMAIN r = 1 .. Len(r)
      BY <1>1, LenProperties, EmptySeq
    <2>2. 1 \in DOMAIN r
      BY <2>1
    <2> QED
      BY <1>1, <2>2, HeadTailProperties
  <1>4. PICK e \in Yielded : e = [type |-> h.type, row |-> h.row] /\ e.type = h.type
    BY <1>3 DEF Ready, Yielded
  <1>5. /\ z \in Seq(Yielded) /\ DOMAIN z = 1 .. m + 1
        /\ z[m + 1] = e /\ \A j \in 1 .. m : z[j] = y[j]
    <2>1. z = Append(y, e)
      BY <1>3, <1>4
    <2>2. z \in Seq(Yielded) /\ Len(z) = m + 1 /\ z[m + 1] = e /\ \A j \in 1 .. m : z[j] = y[j]
      BY <1>1, <1>2, <2>1, AppendProperties
    <2> QED
      BY <2>2, LenProperties
  <1>6. \A j \in DOMAIN z : AskedFor(z[j].type, a)
    <2> TAKE j \in DOMAIN z
    <2>1. CASE j = m + 1
      BY <1>3, <1>4, <1>5, <2>1 DEF Query
    <2>2. CASE j # m + 1
      <3>1. j \in 1 .. m
        BY <1>5, <2>2
      <3> QED
        BY <1>2, <1>5, <3>1 DEF Query
    <2> QED
      BY <2>1, <2>2
  <1>7. PICK q : q = Tail(r)
    OBVIOUS
  <1>8. q \in Seq(Ready) /\ \A k \in DOMAIN q : k + 1 \in DOMAIN r /\ q[k] = r[k + 1] /\ k \in Nat
    <2>1. q \in Seq(Ready) /\ Len(q) = Len(r) - 1 /\ \A k \in 1 .. Len(q) : q[k] = r[k + 1]
      BY <1>1, <1>7, HeadTailProperties
    <2>2. Len(r) \in Nat /\ DOMAIN r = 1 .. Len(r) /\ DOMAIN q = 1 .. Len(q)
      BY <1>1, <2>1, LenProperties
    <2> QED
      BY <2>1, <2>2
  <1>9. Distinct(q)
    <2> SUFFICES ASSUME NEW j \in DOMAIN q, NEW k \in DOMAIN q, q[j].type = q[k].type PROVE j = k
      BY DEF Distinct
    <2>1. j + 1 = k + 1
      BY <1>1, <1>8 DEF Distinct
    <2> QED
      BY <1>8, <2>1
  <1>10. \A k \in DOMAIN q : AskedFor(q[k].type, a)
    BY <1>8 DEF Query
  <1>11. ASSUME NEW i \in DOMAIN a PROVE Part(a[i].type, a[i].rows, c[i].rows, q, z)
    <2>1. PICK all \in Seq(RowSet), rest \in Seq(RowSet) : all = a[i].rows /\ rest = c[i].rows
      <3>1. a \in Seq(Result) /\ c \in Seq(Result) /\ i \in DOMAIN c
        BY DEF Query
      <3>2. a[i] \in Result /\ c[i] \in Result
        BY <3>1, ElementOfSeq, LenProperties
      <3> QED
        BY <3>2 DEF Result
    <2>2. Part(a[i].type, all, rest, r, y)
      BY <2>1 DEF Query
    <2> QED
      BY <1>1, <1>7, <2>1, <2>2, PartYields
  <1> QED
    BY <1>5, <1>6, <1>7, <1>8, <1>9, <1>10, <1>11 DEF Query

HeadsOf(c) == {[at |-> i, type |-> c[i].type, row |-> Head(c[i].rows)] :
                  i \in {k \in DOMAIN c : c[k].rows # <<>>}}

LEMMA HeadsHaveKeys ==
    ASSUME NEW c \in Seq(Result)
    PROVE  /\ HeadsOf(c) \subseteq Ready
           /\ Keys(HeadsOf(c), [h \in HeadsOf(c) |-> <<h.row.time, h.at>>])
  <1>1. \A i \in DOMAIN c : i \in Nat /\ c[i].type \in TypesOfPackets /\ c[i].rows \in Seq(RowSet)
    <2>1. \A i \in DOMAIN c : i \in Nat /\ c[i] \in Result
      BY ElementOfSeq, LenProperties
    <2> QED
      BY <2>1 DEF Result
  <1>2. \A i \in DOMAIN c : c[i].rows # <<>> => Head(c[i].rows) \in RowSet
    BY <1>1, HeadTailProperties
  <1>3. HeadsOf(c) \subseteq Ready
    BY <1>1, <1>2 DEF HeadsOf, Ready
  <1>4. PICK H : H = HeadsOf(c)
    OBVIOUS
  <1>5. \A h \in H : h.at \in DOMAIN c /\ h = [at |-> h.at, type |-> c[h.at].type, row |-> Head(c[h.at].rows)]
    BY <1>4 DEF HeadsOf
  <1>6. IsFiniteSet(H)
    <2> DEFINE f == [h \in H |-> h.at]
    <2>1. f \in [H -> DOMAIN c]
      BY <1>5
    <2>2. \A g, h \in H : f[g] = f[h] => g = h
      BY <1>5
    <2> HIDE DEF f
    <2>3. f \in Injection(H, DOMAIN c)
      BY <2>1, <2>2 DEF Injection, IsInjective
    <2>4. IsFiniteSet(DOMAIN c)
      <3>1. DOMAIN c = 1 .. Len(c) /\ Len(c) \in Nat
        BY LenProperties
      <3> QED
        BY <3>1, FS_Interval
    <2> QED
      BY <2>3, <2>4, FS_Injection
  <1> DEFINE key == [h \in H |-> <<h.row.time, h.at>>]
  <1>7. \A h \in H : h.row.time \in Nat /\ h.at \in Nat
    BY <1>3, <1>4 DEF Ready, RowSet
  <1>8. key \in [H -> Nat \X Nat]
    BY <1>7
  <1>9. \A g, h \in H : key[g] = key[h] => g.at = h.at
    OBVIOUS
  <1>10. \A g, h \in H : key[g] = key[h] => g = h
    BY <1>5, <1>9
  <1> HIDE DEF key
  <1>11. Keys(H, key)
    BY <1>6, <1>8, <1>10 DEF Keys
  <1> QED
    BY <1>3, <1>4, <1>11 DEF key

LEMMA QueryRounds ==
    ASSUME NEW a, NEW c, NEW y, Query(a, c, <<>>, y),
           NEW q, q = Sorted(HeadsOf(c), [h \in HeadsOf(c) |-> <<h.row.time, h.at>>]),
           NEW d, d = [i \in DOMAIN c |-> [c[i] EXCEPT !.rows = IF @ = <<>> THEN <<>> ELSE Tail(@)]]
    PROVE  Query(a, d, q, y)
  <1>1. /\ a \in Seq(Result) /\ c \in Seq(Result) /\ y \in Seq(Yielded)
        /\ DOMAIN a = DOMAIN c
    BY DEF Query
  <1>2. PICK n \in Nat : n = Len(c) /\ DOMAIN c = 1 .. n
    BY <1>1, LenProperties
  <1>3. \A i \in 1 .. n : /\ a[i].type \in TypesOfPackets /\ a[i].rows \in Seq(RowSet)
                          /\ c[i] = [type |-> c[i].type, rows |-> c[i].rows]
                          /\ c[i].type = a[i].type /\ c[i].rows \in Seq(RowSet)
    <2>1. \A i \in 1 .. n : a[i] \in Result /\ c[i] \in Result /\ c[i].type = a[i].type
      BY <1>1, <1>2, ElementOfSeq, LenProperties DEF Query
    <2> QED
      BY <2>1 DEF Result
  <1>4. PICK H : H = HeadsOf(c)
    OBVIOUS
  <1>5. PICK key : key = [h \in H |-> <<h.row.time, h.at>>]
    OBVIOUS
  <1>6. H \subseteq Ready /\ Keys(H, key) /\ q = Sorted(H, key)
    BY <1>1, <1>4, <1>5, HeadsHaveKeys
  <1>7. PICK m : /\ q \in Seq(H) /\ DOMAIN q = 1 .. m /\ m \in Nat
                 /\ \A x \in H : \E k \in DOMAIN q : q[k] = x
                 /\ \A j, k \in DOMAIN q : q[j] = q[k] => j = k
    <2>1. InOrder(q, H, key)
      BY <1>6, SortedIs
    <2>2. PICK m : m = Cardinality(H)
      OBVIOUS
    <2> QED
      BY <2>1, <2>2 DEF InOrder
  <1>8. q \in Seq(Ready) /\ \A k \in DOMAIN q : q[k] \in H
    <2>1. \A k \in DOMAIN q : q[k] \in H
      BY <1>7, ElementOfSeq, LenProperties
    <2>2. Len(q) = m /\ q = [k \in 1 .. m |-> q[k]]
      BY <1>7, LenProperties
    <2>3. \A k \in 1 .. m : q[k] \in Ready
      BY <1>6, <1>7, <2>1
    <2> QED
      BY SMTT(30), <1>7, <2>1, <2>2, <2>3
  <1>9. \A h \in H : /\ h.at \in 1 .. n /\ c[h.at].rows # <<>>
                     /\ h = [at |-> h.at, type |-> c[h.at].type, row |-> Head(c[h.at].rows)]
                     /\ h.type = c[h.at].type /\ h.row = Head(c[h.at].rows)
    BY <1>2, <1>4 DEF HeadsOf
  <1>10. \A i \in 1 .. n : c[i].rows # <<>> => \E h \in H : h.at = i /\ h.type = c[i].type
    <2> SUFFICES ASSUME NEW i \in 1 .. n, c[i].rows # <<>> PROVE \E h \in H : h.at = i /\ h.type = c[i].type
      OBVIOUS
    <2>1. [at |-> i, type |-> c[i].type, row |-> Head(c[i].rows)] \in H
      BY <1>2, <1>4 DEF HeadsOf
    <2> QED
      BY <2>1
  <1>11. \A i, j \in 1 .. n : a[i].type = a[j].type => i = j
    BY <1>1, <1>2 DEF Query, Distinct
  <1>12. Distinct(q)
    <2> SUFFICES ASSUME NEW j \in DOMAIN q, NEW k \in DOMAIN q, q[j].type = q[k].type PROVE j = k
      BY DEF Distinct
    <2>1. PICK g \in H, h \in H : g = q[j] /\ h = q[k] /\ g.type = h.type
      BY <1>8
    <2>2. g.at = h.at
      <3>1. PICK u \in 1 .. n : u = g.at /\ g.type = a[u].type
        BY <1>3, <1>9
      <3>2. PICK v \in 1 .. n : v = h.at /\ h.type = a[v].type
        BY <1>3, <1>9
      <3>3. a[u].type = a[v].type
        BY <2>1, <3>1, <3>2
      <3>4. u = v
        BY <1>11, <3>3
      <3> QED
        BY <3>1, <3>2, <3>4
    <2>3. g = h
      BY <1>9, <2>2
    <2> QED
      BY <1>7, <2>1, <2>3
  <1>13. \A k \in DOMAIN q : AskedFor(q[k].type, a)
    <2> TAKE k \in DOMAIN q
    <2>1. PICK h \in H : h = q[k]
      BY <1>8
    <2>2. h.at \in DOMAIN a /\ a[h.at].type = h.type
      BY <1>1, <1>2, <1>3, <1>9
    <2> QED
      BY <2>1, <2>2 DEF AskedFor
  <1>14. \A i \in 1 .. n : /\ d[i].type = c[i].type
                           /\ d[i].rows = IF c[i].rows = <<>> THEN <<>> ELSE Tail(c[i].rows)
                           /\ d[i] = [type |-> d[i].type, rows |-> d[i].rows]
    <2> TAKE i \in 1 .. n
    <2>1. PICK e : e = c[i]
      OBVIOUS
    <2>2. PICK t, rows : t = e.type /\ rows = e.rows /\ e = [type |-> t, rows |-> rows]
      BY <1>3, <2>1
    <2>3. PICK more : more = IF rows = <<>> THEN <<>> ELSE Tail(rows)
      OBVIOUS
    <2>4. d[i] = [e EXCEPT !.rows = more]
      BY <1>2, <2>1, <2>2, <2>3
    <2>5. [e EXCEPT !.rows = more] = [type |-> t, rows |-> more]
      BY <2>2
    <2>6. PICK f : f = d[i] /\ f = [type |-> t, rows |-> more]
      BY <2>4, <2>5
    <2>7. f.type = t /\ f.rows = more
      BY <2>6
    <2>8. f = [type |-> f.type, rows |-> f.rows]
      BY <2>6, <2>7
    <2> QED
      BY <2>1, <2>2, <2>3, <2>6, <2>7, <2>8
  <1>15. d \in Seq(Result) /\ DOMAIN d = 1 .. n
    <2>1. \A i \in 1 .. n : d[i] \in Result
      <3> TAKE i \in 1 .. n
      <3>1. d[i].type \in TypesOfPackets
        BY <1>3, <1>14
      <3>2. d[i].rows \in Seq(RowSet)
        <4>1. PICK rows \in Seq(RowSet) : rows = c[i].rows
          BY <1>3
        <4>2. PICK more : more = d[i].rows /\ more = IF rows = <<>> THEN <<>> ELSE Tail(rows)
          BY <1>14, <4>1
        <4>3. CASE rows = <<>>
          BY <4>2, <4>3, EmptySeq
        <4>4. CASE rows # <<>>
          BY ZenonT(60), <4>2, <4>4, HeadTailProperties
        <4> QED
          BY <4>3, <4>4
      <3>3. PICK f : f = d[i] /\ f = [type |-> f.type, rows |-> f.rows]
        BY <1>14
      <3>4. f \in Result
        BY <3>1, <3>2, <3>3 DEF Result
      <3> QED
        BY <3>3, <3>4
    <2>2. DOMAIN d = 1 .. n /\ d = [i \in 1 .. n |-> d[i]]
      BY <1>2
    <2> QED
      BY <2>1, <2>2
  <1>16. ASSUME NEW i \in 1 .. n PROVE Part(a[i].type, a[i].rows, d[i].rows, q, y)
    <2>1. PICK all \in Seq(RowSet), rest \in Seq(RowSet) : all = a[i].rows /\ rest = c[i].rows
      BY <1>3
    <2>2. PICK t : t = a[i].type
      OBVIOUS
    <2>3. Part(t, all, rest, <<>>, y)
      BY <1>1, <1>2, <2>1, <2>2 DEF Query
    <2>4. \A k \in DOMAIN q : q[k].type = t => rest # <<>> /\ q[k].row = Head(rest)
      <3> SUFFICES ASSUME NEW k \in DOMAIN q, q[k].type = t PROVE rest # <<>> /\ q[k].row = Head(rest)
        OBVIOUS
      <3>1. PICK h \in H : h = q[k]
        BY <1>8
      <3>2. h.at = i
        <4>1. PICK u \in 1 .. n : u = h.at /\ h.type = a[u].type
          BY ZenonT(60), <1>3, <1>9
        <4>2. a[u].type = a[i].type
          BY <2>2, <3>1, <4>1
        <4>3. u = i
          BY <1>11, <4>2
        <4> QED
          BY <4>1, <4>3
      <3> QED
        BY <1>9, <2>1, <3>1, <3>2
    <2>5. rest # <<>> => \E k \in DOMAIN q : q[k].type = t
      <3> SUFFICES ASSUME rest # <<>> PROVE \E k \in DOMAIN q : q[k].type = t
        OBVIOUS
      <3>1. PICK h \in H : h.at = i /\ h.type = c[i].type
        BY <1>10, <2>1
      <3>2. PICK k \in DOMAIN q : q[k] = h
        BY <1>7
      <3> QED
        BY <1>3, <2>2, <3>1, <3>2
    <2>6. PICK more : more = (IF rest = <<>> THEN <<>> ELSE Tail(rest)) /\ more = d[i].rows
      BY ZenonT(60), <1>14, <2>1
    <2>7. Part(t, all, more, q, y)
      BY <1>1, <1>8, <2>3, <2>4, <2>5, <2>6, PartRounds
    <2> QED
      BY <2>1, <2>2, <2>6, <2>7
  <1> QED
    BY <1>1, <1>2, <1>3, <1>8, <1>12, <1>13, <1>14, <1>15, <1>16 DEF Query

\* The rows of a type that are in a range, as the backend returns them.
LEMMA ByTimeIs ==
    ASSUME NEW rows, IsFiniteSet(rows), rows \subseteq RowSet,
           NEW from, NEW to, NEW s, s = ByTime(InRange(rows, from, to))
    PROVE  s \in Seq(RowSet) /\ Ordered(s)
  <1>1. PICK S : S = InRange(rows, from, to) /\ S \subseteq rows
    BY DEF InRange
  <1>2. IsFiniteSet(S) /\ S \subseteq RowSet
    BY <1>1, FS_Subset
  <1> DEFINE key == [r \in S |-> <<r.time, r.id>>]
  <1>3. key \in [S -> Nat \X Nat]
    BY <1>2 DEF RowSet
  <1>4. \A x, y \in S : key[x] = key[y] => x = y
    <2> SUFFICES ASSUME NEW x \in S, NEW y \in S, key[x] = key[y] PROVE x = y
      OBVIOUS
    <2>1. x \in RowSet /\ y \in RowSet /\ x.time = y.time /\ x.id = y.id
      BY <1>2
    <2> QED
      BY <2>1 DEF RowSet
  <1>5. s = Sorted(S, key)
    BY <1>1 DEF ByTime
  <1>6. \A x \in S : key[x][1] = x.time
    OBVIOUS
  <1> HIDE DEF key
  <1>7. InOrder(s, S, key)
    BY <1>2, <1>3, <1>4, <1>5, SortedIs DEF Keys
  <1>8. PICK m \in Nat : DOMAIN s = 1 .. m /\ s \in Seq(S)
    BY <1>7 DEF InOrder
  <1>9. \A k \in 1 .. m : s[k] \in S /\ s[k] \in RowSet
    BY <1>2, <1>8, ElementOfSeq, LenProperties
  <1>10. s = [k \in 1 .. m |-> s[k]]
    BY <1>8, LenProperties
  <1>11. Ordered(s)
    <2> SUFFICES ASSUME NEW j \in 1 .. m, NEW k \in 1 .. m, j < k PROVE s[j].time <= s[k].time
      BY <1>8 DEF Ordered
    <2>1. Precedes(key[s[j]], key[s[k]])
      BY <1>7, <1>8 DEF InOrder
    <2>2. key[s[j]][1] = s[j].time /\ key[s[k]][1] = s[k].time
      BY <1>6, <1>9
    <2>3. s[j].time \in Nat /\ s[k].time \in Nat
      BY <1>9 DEF RowSet
    <2> QED
      BY <2>1, <2>2, <2>3 DEF Precedes
  <1> QED
    BY <1>8, <1>9, <1>10, <1>11

TablesInv == /\ inserted \in Nat
             /\ \A t \in DOMAIN tables : IsFiniteSet(tables[t]) /\ tables[t] \subseteq RowSet

ArchiveInv == TablesInv /\ Query(asked, cursors, round, yielded)

LEMMA StoreKeeps ==
    ASSUME TablesInv, NEW t, NEW rows, IsFiniteSet(rows), rows \subseteq RowSet, Store(t, rows), inserted' \in Nat
    PROVE  TablesInv'
  <1> SUFFICES ASSUME NEW u \in DOMAIN tables' PROVE IsFiniteSet(tables'[u]) /\ tables'[u] \subseteq RowSet
    BY DEF TablesInv
  <1>1. u \in DOMAIN tables \cup {t} /\ tables'[u] = IF u = t THEN rows ELSE tables[u]
    BY DEF Store
  <1> QED
    BY <1>1 DEF TablesInv

LEMMA InsertKeeps ==
    ASSUME TablesInv, NEW t, NEW time \in Times, InsertAtTime(t, time)
    PROVE  TablesInv'
  <1>1. inserted' = inserted + 1 /\ inserted' \in Nat
    BY DEF InsertAtTime, Inserting, TablesInv
  <1>2. PICK row \in RowSet : row = [time |-> time, id |-> inserted']
    BY <1>1, PacketArchiveAssumption DEF RowSet
  <1>3. IsFiniteSet(Rows(t)) /\ Rows(t) \subseteq RowSet
    BY FS_EmptySet DEF Rows, TablesInv
  <1>4. PICK kept : kept = {r \in Rows(t) : r.time # time}
    OBVIOUS
  <1>5. IsFiniteSet(kept) /\ kept \subseteq RowSet
    BY <1>3, <1>4, FS_Subset
  <1>6. \A rows : IsFiniteSet(rows) /\ rows \subseteq RowSet => IsFiniteSet(rows \cup {row}) /\ rows \cup {row} \subseteq RowSet
    BY FS_AddElement
  <1>7. CASE t \in DOMAIN tables /\ Store(t, tables[t] \cup {row})
    <2>1. IsFiniteSet(tables[t] \cup {row}) /\ tables[t] \cup {row} \subseteq RowSet
      BY <1>6, <1>7 DEF TablesInv
    <2> QED
      BY <1>1, <1>7, <2>1, StoreKeeps
  <1>8. CASE Store(t, kept \cup {row})
    <2>1. IsFiniteSet(kept \cup {row}) /\ kept \cup {row} \subseteq RowSet
      BY <1>5, <1>6
    <2> QED
      BY <1>1, <1>8, <2>1, StoreKeeps
  <1> QED
    BY <1>2, <1>4, <1>7, <1>8 DEF InsertAtTime

\* The types of a query are given once each.
Chosen(types) == /\ types \in Seq(TypesOfPackets)
                 /\ \A i, j \in DOMAIN types : types[i] = types[j] => i = j

LEMMA SelectionsAreChosen ==
    ASSUME NEW types \in Selections
    PROVE  Chosen(types) /\ Chosen(<<>>)
  <1>1. PICK p : p = PacketTypes
    OBVIOUS
  <1>2. p \in Seq(TypesOfPackets) /\ \A i, j \in DOMAIN p : p[i] = p[j] => i = j
    BY <1>1, PacketArchiveAssumption DEF TypesOfPackets
  <1>3. PICK n \in Nat : n = Len(p) /\ DOMAIN p = 1 .. n
    BY <1>2, LenProperties
  <1>4. PICK i \in 1 .. n, j \in 1 .. n : types = SubSeq(p, i, j)
    <2>1. \E i, j \in DOMAIN PacketTypes : types = SubSeq(PacketTypes, i, j)
      BY DEF Selections
    <2> QED
      BY <1>1, <1>3, <2>1
  <1>5. \A k \in i .. j : p[k] \in TypesOfPackets /\ k \in 1 .. n
    <2>1. \A k \in i .. j : k \in 1 .. n
      OBVIOUS
    <2> QED
      BY <1>2, <1>3, <2>1, ElementOfSeq
  <1>6. i \in Int /\ j \in Int
    OBVIOUS
  <1>7. /\ types \in Seq(TypesOfPackets)
        /\ Len(types) = IF i <= j THEN j - i + 1 ELSE 0
        /\ \A k \in 1 .. j - i + 1 : types[k] = p[i + k - 1]
    BY <1>4, <1>5, <1>6, SubSeqProperties
  <1>8. \A k \in DOMAIN types : k \in 1 .. j - i + 1 /\ i + k - 1 \in 1 .. n
    <2>1. DOMAIN types = 1 .. Len(types)
      BY <1>7, LenProperties
    <2> QED
      BY <1>7, <2>1
  <1>9. ASSUME NEW k \in DOMAIN types, NEW l \in DOMAIN types, types[k] = types[l]
        PROVE  k = l
    <2>1. p[i + k - 1] = p[i + l - 1] /\ i + k - 1 \in 1 .. n /\ i + l - 1 \in 1 .. n
      BY <1>7, <1>8, <1>9
    <2>2. i + k - 1 = i + l - 1
      BY <1>2, <1>3, <2>1
    <2>3. k \in 1 .. j - i + 1 /\ l \in 1 .. j - i + 1
      BY <1>8
    <2> QED
      BY <2>2, <2>3
  <1>10. Chosen(<<>>)
    BY EmptySeq DEF Chosen
  <1> QED
    BY <1>7, <1>9, <1>10 DEF Chosen

LEMMA AskKeeps ==
    ASSUME ArchiveInv, NEW types, Chosen(types), NEW from, NEW to, Ask(types, from, to)
    PROVE  ArchiveInv'
  <1>1. PICK c : c = [i \in DOMAIN types |->
                         [type |-> types[i], rows |-> ByTime(InRange(Rows(types[i]), from, to))]]
    OBVIOUS
  <1>2. cursors' = c /\ asked' = c /\ round' = <<>> /\ yielded' = <<>>
    BY <1>1 DEF Ask
  <1>3. TablesInv'
    BY DEF Ask, ArchiveInv, TablesInv
  <1>4. PICK n \in Nat : n = Len(types) /\ DOMAIN types = 1 .. n
    BY LenProperties DEF Chosen
  <1>5. ASSUME NEW i \in 1 .. n
        PROVE  c[i] \in Result /\ c[i].type = types[i] /\ Ordered(c[i].rows)
    <2>1. PICK rows : rows = Rows(types[i]) /\ IsFiniteSet(rows) /\ rows \subseteq RowSet
      BY FS_EmptySet DEF Rows, ArchiveInv, TablesInv
    <2>2. PICK s : s = ByTime(InRange(rows, from, to)) /\ s \in Seq(RowSet) /\ Ordered(s)
      BY <2>1, ByTimeIs
    <2>3. types[i] \in TypesOfPackets
      BY <1>4, ElementOfSeq DEF Chosen
    <2>4. PICK e : e = c[i] /\ e = [type |-> types[i], rows |-> s]
      BY <1>1, <1>4, <2>1, <2>2
    <2>5. e \in Result /\ e.type = types[i] /\ e.rows = s
      BY <2>2, <2>3, <2>4 DEF Result
    <2> QED
      BY <2>2, <2>4, <2>5
  <1>6. DOMAIN c = 1 .. n /\ c = [i \in 1 .. n |-> c[i]]
    BY <1>1, <1>4
  <1>7. c \in Seq(Result)
    BY <1>5, <1>6
  <1>8. Distinct(c)
    BY <1>4, <1>5, <1>6 DEF Distinct, Chosen
  <1>9. Query(c, c, <<>>, <<>>)
    BY <1>5, <1>6, <1>7, <1>8, QueryBegins
  <1> QED
    BY <1>2, <1>3, <1>9 DEF ArchiveInv

LEMMA ArchiveStarts == ArchiveInit => ArchiveInv
  <1> SUFFICES ASSUME ArchiveInit PROVE ArchiveInv
    OBVIOUS
  <1>1. DOMAIN <<>> = {}
    BY EmptySeq
  <1>2. TablesInv
    BY <1>1 DEF ArchiveInit, TablesInv
  <1>3. Query(asked, cursors, round, yielded)
    BY QueryOfNone DEF ArchiveInit
  <1> QED
    BY <1>2, <1>3 DEF ArchiveInv

LEMMA ArchiveKeeps == ArchiveInv /\ [ArchiveNext]_archiveVars => ArchiveInv'
  <1> SUFFICES ASSUME ArchiveInv, [ArchiveNext]_archiveVars PROVE ArchiveInv'
    OBVIOUS
  <1>1. CASE DictionaryGrows
    <2>1. TablesInv'
      BY <1>1 DEF DictionaryGrows, ArchiveInv, TablesInv
    <2>2. asked' = <<>> /\ cursors' = <<>> /\ round' = <<>> /\ yielded' = <<>>
      BY <1>1 DEF DictionaryGrows
    <2> QED
      BY <2>1, <2>2, QueryOfNone DEF ArchiveInv
  <1>2. CASE Connect
    <2>1. tables' = tables \/ tables' = [t \in Known |-> {}]
      BY <1>2 DEF Connect
    <2>2. inserted' = inserted
      BY <1>2 DEF Connect
    <2>3. TablesInv'
      BY <2>1, <2>2, FS_EmptySet DEF ArchiveInv, TablesInv
    <2>4. asked' = asked /\ cursors' = cursors /\ round' = round /\ yielded' = yielded
      BY <1>2 DEF Connect
    <2> QED
      BY <2>3, <2>4 DEF ArchiveInv
  <1>3. ASSUME NEW t, NEW time \in Times, InsertAtTime(t, time) PROVE ArchiveInv'
    <2>1. TablesInv'
      BY <1>3, InsertKeeps DEF ArchiveInv
    <2>2. asked' = asked /\ cursors' = cursors /\ round' = round /\ yielded' = yielded
      BY <1>3 DEF InsertAtTime, Inserting, archiveVars
    <2> QED
      BY <2>1, <2>2 DEF ArchiveInv
  <1>4. ASSUME NEW t, InsertRaises(t) PROVE ArchiveInv'
    <2>1. inserted' = inserted + 1 /\ tables' = tables
      BY <1>4 DEF InsertRaises, Inserting
    <2>2. TablesInv'
      BY <2>1 DEF ArchiveInv, TablesInv
    <2>3. asked' = asked /\ cursors' = cursors /\ round' = round /\ yielded' = yielded
      BY <1>4 DEF InsertRaises, Inserting
    <2> QED
      BY <2>2, <2>3 DEF ArchiveInv
  <1>5. ASSUME NEW types \in Selections, NEW from \in Times, NEW to \in Times,
               QuerySqlite(types, from, to) \/ QueryInflux(types, from, to)
        PROVE  ArchiveInv'
    <2>1. Chosen(types) /\ Chosen(<<>>)
      BY SelectionsAreChosen
    <2>2. Ask(types, from, to) \/ Ask(<<>>, from, to)
      BY <1>5 DEF QuerySqlite, QueryInflux
    <2>3. CASE Ask(types, from, to)
      BY <2>1, <2>3, AskKeeps
    <2>4. CASE Ask(<<>>, from, to)
      BY <2>1, <2>4, AskKeeps
    <2> QED
      BY <2>2, <2>3, <2>4
  <1>6. CASE NextRound
    <2>1. PICK a, c, y : a = asked /\ c = cursors /\ y = yielded
      OBVIOUS
    <2>2. PICK q : q = Sorted(HeadsOf(c), [h \in HeadsOf(c) |-> <<h.row.time, h.at>>])
      OBVIOUS
    <2>3. PICK d : d = [i \in DOMAIN c |-> [c[i] EXCEPT !.rows = IF @ = <<>> THEN <<>> ELSE Tail(@)]]
      OBVIOUS
    <2>4. round = <<>> /\ Query(a, c, <<>>, y)
      BY <1>6, <2>1 DEF NextRound, AtRound, ArchiveInv
    <2>5. Query(a, d, q, y)
      BY <2>2, <2>3, <2>4, QueryRounds
    <2>6. Heads = HeadsOf(c)
      BY <2>1 DEF Heads, HeadsOf
    <2>7. round' = q /\ cursors' = d
      BY <1>6, <2>1, <2>2, <2>3, <2>6 DEF NextRound
    <2>8. asked' = a /\ yielded' = y
      BY <1>6, <2>1 DEF NextRound
    <2>9. TablesInv'
      BY <1>6 DEF NextRound, ArchiveInv, TablesInv
    <2> QED
      BY <2>5, <2>7, <2>8, <2>9 DEF ArchiveInv
  <1>7. CASE YieldPacket
    <2>1. PICK a, c, r, y : a = asked /\ c = cursors /\ r = round /\ y = yielded
      OBVIOUS
    <2>2. PICK z : z = Append(y, [type |-> Head(r).type, row |-> Head(r).row])
      OBVIOUS
    <2>3. r # <<>> /\ Query(a, c, r, y)
      BY <1>7, <2>1 DEF YieldPacket, ArchiveInv
    <2>4. Query(a, c, Tail(r), z)
      BY <2>2, <2>3, QueryYields
    <2>5. round' = Tail(r) /\ yielded' = z /\ asked' = a /\ cursors' = c
      BY <1>7, <2>1, <2>2 DEF YieldPacket
    <2>6. TablesInv'
      BY <1>7 DEF YieldPacket, ArchiveInv, TablesInv
    <2> QED
      BY <2>4, <2>5, <2>6 DEF ArchiveInv
  <1>8. CASE GeneratorRaises \/ UNCHANGED archiveVars
    <2>1. /\ tables' = tables /\ inserted' = inserted
          /\ asked' = asked /\ cursors' = cursors /\ round' = round /\ yielded' = yielded
      BY <1>8 DEF GeneratorRaises, archiveVars
    <2> QED
      BY <2>1 DEF ArchiveInv, TablesInv
  <1> QED
    BY <1>1, <1>2, <1>3, <1>4, <1>5, <1>6, <1>7, <1>8 DEF ArchiveNext

LEMMA ResultsAreYielded == ArchiveInv => QueryYieldsEach
  <1> SUFFICES ASSUME ArchiveInv PROVE QueryYieldsEach
    OBVIOUS
  <1>1. PICK a, c, r, y : a = asked /\ c = cursors /\ r = round /\ y = yielded
    OBVIOUS
  <1>2. Query(a, c, r, y)
    BY <1>1 DEF ArchiveInv
  <1>3. PICK m \in Nat : m = Len(y) /\ DOMAIN y = 1 .. m
    BY <1>2, LenProperties DEF Query
  <1>4. \A t : \A k \in 0 .. m : YieldedOf(t, k) = UpTo(Ofs(t, y), k)
    <2> TAKE t
    <2> TAKE k \in 0 .. m
    <2>1. \A j \in 1 .. k : j \in 1 .. m
      OBVIOUS
    <2> QED
      BY <1>1, <1>3, <2>1 DEF YieldedOf, UpTo, Ofs
  <1>5. ASSUME NEW i \in DOMAIN a, NEW t, t = a[i].type, NEW rows, rows = a[i].rows
        PROVE  /\ Exhausted => Cardinality(YieldedOf(t, m)) = Len(rows)
               /\ \A j \in YieldedOf(t, m) : /\ Cardinality(YieldedOf(t, j)) <= Len(rows)
                                            /\ y[j].row = rows[Cardinality(YieldedOf(t, j))]
               /\ Ordered(rows)
    <2>1. Part(t, rows, c[i].rows, r, y) /\ Ordered(rows)
      BY <1>2, <1>5 DEF Query
    <2>2. PICK rest : rest = c[i].rows /\ rest \in Seq(RowSet)
      <3>1. i \in DOMAIN c
        BY <1>2 DEF Query
      <3>2. c[i] \in Result
        BY <1>2, <3>1, ElementOfSeq DEF Query
      <3> QED
        BY <3>2 DEF Result
    <2>3. PICK n \in Nat : n = CountTo(Ofs(t, y), m)
      BY CountGrows
    <2>4. PICK k \in Nat : k = InRound(t, r)
      BY DEF InRound
    <2>5. PICK l \in Nat : l = Len(rest)
      BY <2>2, LenProperties
    <2>6. Len(rows) = n + k + l
      BY <1>3, <2>1, <2>2, <2>3, <2>4, <2>5 DEF Part
    <2>7. m \in 0 .. m
      OBVIOUS
    <2>8. YieldedOf(t, m) = UpTo(Ofs(t, y), m) /\ Cardinality(YieldedOf(t, m)) = n
      BY <1>4, <2>3, <2>7 DEF CountTo
    <2>9. ASSUME Exhausted PROVE Len(rows) = n
      <3>1. i \in DOMAIN cursors
        BY <1>1, <1>2 DEF Query
      <3>2. rest = <<>> /\ r = <<>>
        BY <1>1, <2>2, <2>9, <3>1 DEF Exhausted, ZipLongest
      <3>3. DOMAIN <<>> = {} /\ Len(<<>>) = 0
        BY EmptySeq
      <3>4. k = 0
        BY <2>4, <3>2, <3>3 DEF InRound
      <3>5. l = 0
        BY <2>5, <3>2, <3>3
      <3> QED
        BY <2>6, <3>4, <3>5
    <2>10. ASSUME NEW j \in YieldedOf(t, m)
           PROVE  /\ Cardinality(YieldedOf(t, j)) <= Len(rows)
                  /\ y[j].row = rows[Cardinality(YieldedOf(t, j))]
      <3>1. j \in 1 .. m /\ j \in 0 .. m /\ y[j].type = t
        BY <1>1 DEF YieldedOf
      <3>2. PICK u, v : u = UpTo(Ofs(t, y), j) /\ v = UpTo(Ofs(t, y), m)
        OBVIOUS
      <3>3. YieldedOf(t, j) = u /\ Cardinality(YieldedOf(t, j)) = CountTo(Ofs(t, y), j)
        BY <1>4, <3>1, <3>2 DEF CountTo
      <3>4. IsFiniteSet(v)
        <4>1. IsFiniteSet(1 .. m)
          BY FS_Interval
        <4> QED
          BY <3>2, <4>1, FS_Subset DEF UpTo
      <3>5. u \subseteq v
        <4>1. 1 .. j \subseteq 1 .. m
          BY <3>1
        <4> QED
          BY <3>2, <4>1 DEF UpTo
      <3>6. Cardinality(u) \in Nat /\ Cardinality(u) <= Cardinality(v)
        BY <3>4, <3>5, FS_Subset, FS_CardinalityType
      <3>7. Cardinality(v) = n
        BY <2>3, <3>2 DEF CountTo
      <3>8. Cardinality(u) <= Len(rows)
        BY <2>6, <3>6, <3>7
      <3> QED
        BY <1>3, <2>1, <3>1, <3>3, <3>8 DEF Part
    <2> QED
      BY <2>1, <2>8, <2>9, <2>10
  <1>6. \A j \in DOMAIN y : \E i \in DOMAIN a : a[i].type = y[j].type
    BY <1>2 DEF Query, AskedFor
  <1> QED
    BY <1>1, <1>3, <1>5, <1>6 DEF QueryYieldsEach, Ordered

\* Whatever the dictionary, the selection of types and the times, and whatever is inserted
\* meanwhile: the generator of a query has yielded the first packets of each type that were in
\* its range, each once and in the order of their times, and all of them when it came to its
\* end rather than to an exception (db.py:480-502, 805-863).
THEOREM QueriesYieldEach == ArchiveSpec => []QueryYieldsEach
  <1>1. ArchiveSpec => []ArchiveInv
    BY ArchiveStarts, ArchiveKeeps, PTL DEF ArchiveSpec
  <1> QED
    BY <1>1, ResultsAreYielded, PTL

LEMMA ArchiveTypesKept == ArchiveTypes /\ [ArchiveNext]_archiveVars => ArchiveTypes'
  <1> SUFFICES ASSUME ArchiveTypes, [ArchiveNext]_archiveVars PROVE ArchiveTypes'
    OBVIOUS
  <1>1. FirstTypes \in Nat /\ Len(PacketTypes) \in Nat /\ MaxInserted \in Nat /\ MaxQueries \in Nat
    BY PacketArchiveAssumption, LenProperties
  <1>2. CASE DictionaryGrows
    <2>1. nknown' \in FirstTypes .. Len(PacketTypes)
      BY <1>1, <1>2 DEF DictionaryGrows, ArchiveTypes
    <2>2. Known \subseteq Known'
      BY <1>1, <1>2 DEF DictionaryGrows, ArchiveTypes, Known
    <2> QED
      BY <1>2, <2>1, <2>2 DEF DictionaryGrows, ArchiveTypes
  <1>3. CASE Connect
    <2>1. Known' = Known
      BY <1>3 DEF Connect, Known
    <2>2. DOMAIN tables' \subseteq Known
      BY <1>3 DEF Connect, ArchiveTypes
    <2> QED
      BY <1>3, <2>1, <2>2 DEF Connect, ArchiveTypes
  <1>4. ASSUME NEW t, Inserting(t), tables' = tables \/ \E rows : Store(t, rows)
        PROVE  ArchiveTypes'
    <2>1. Known' = Known /\ t \in Known
      BY <1>4 DEF Inserting, Known
    <2>2. DOMAIN tables' \subseteq Known
      BY <1>4, <2>1 DEF Store, ArchiveTypes
    <2>3. inserted' \in 0 .. MaxInserted
      BY <1>1, <1>4 DEF Inserting, ArchiveTypes
    <2> QED
      BY <1>4, <2>1, <2>2, <2>3 DEF Inserting, ArchiveTypes
  <1>5. ASSUME NEW types, NEW from, NEW to, Ask(types, from, to),
               \A i \in DOMAIN types : types[i] \in Known
        PROVE  ArchiveTypes'
    <2>1. Known' = Known
      BY <1>5 DEF Ask, Known
    <2>2. queries' \in 0 .. MaxQueries
      BY <1>1, <1>5 DEF Ask, ArchiveTypes
    <2> QED
      BY <1>5, <2>1, <2>2 DEF Ask, ArchiveTypes
  <1>6. ASSUME NEW types, NEW from, NEW to, QuerySqlite(types, from, to) \/ QueryInflux(types, from, to)
        PROVE  ArchiveTypes'
    <2>1. \A i \in DOMAIN types : types[i] \in Known
      BY <1>6 DEF QuerySqlite, QueryInflux
    <2>2. \A i \in DOMAIN <<>> : <<>>[i] \in Known
      BY EmptySeq
    <2>3. Ask(types, from, to) \/ Ask(<<>>, from, to)
      BY <1>6 DEF QuerySqlite, QueryInflux
    <2> QED
      BY <1>5, <2>1, <2>2, <2>3
  <1>7. CASE NextRound \/ GeneratorRaises \/ YieldPacket \/ UNCHANGED archiveVars
    <2>1. /\ nknown' = nknown /\ connected' = connected /\ tables' = tables
          /\ inserted' = inserted /\ queries' = queries /\ failed' = failed
          /\ broken' = broken \/ broken' = TRUE
      BY <1>7 DEF NextRound, GeneratorRaises, YieldPacket, archiveVars
    <2> QED
      BY <2>1 DEF ArchiveTypes, Known
  <1> QED
    BY <1>2, <1>3, <1>4, <1>6, <1>7 DEF ArchiveNext, InsertAtTime, InsertRaises

\* There are tables for packets of the dictionary only, however it grows (db.py:645-693), and
\* only such tables can be missing from a query.
THEOREM ArchiveTypeCorrect == ArchiveSpec => []ArchiveTypes
  <1>1. ArchiveInit => ArchiveTypes
    <2>1. DOMAIN <<>> = {}
      BY EmptySeq
    <2>2. FirstTypes \in 1 .. Len(PacketTypes) /\ MaxInserted \in Nat /\ MaxQueries \in Nat
      BY PacketArchiveAssumption
    <2>3. Len(PacketTypes) \in Nat
      BY PacketArchiveAssumption, LenProperties
    <2>4. FirstTypes \in FirstTypes .. Len(PacketTypes) /\ 0 \in 0 .. MaxInserted /\ 0 \in 0 .. MaxQueries
      BY <2>2, <2>3
    <2> QED
      BY <2>1, <2>4 DEF ArchiveInit, ArchiveTypes
  <1> QED
    BY <1>1, ArchiveTypesKept, PTL DEF ArchiveSpec

-----------------------------------------------------------------------------
(* Tables.                                                                 *)

\* The number that a cell is encoded as has the cell's name, or is the cell.
LEMMA CellsReadBack ==
    ASSUME NEW column, IsColumn(column), NEW cell \in Cells, EncodesCell(column, cell)
    PROVE  /\ CellNumber(column, cell) \in Int
           /\ Packs(column.type, CellNumber(column, cell))
           /\ CellName(column, CellNumber(column, cell)) = CellName(column, cell)
  <1>1. Packs(column.type, CellNumber(column, cell)) /\ CellNumber(column, cell) \notin CellNames
    BY DEF EncodesCell
  <1>2. CASE column.enum = NoMap
    BY <1>1, <1>2 DEF CellNumber, CellName, Cells
  <1>3. CASE column.enum # NoMap
    <2> DEFINE named == {n \in DOMAIN column.enum : column.enum[n] = cell}
    <2>1. /\ IsFiniteSet(DOMAIN column.enum) /\ DOMAIN column.enum \subseteq Int
          /\ \A n \in DOMAIN column.enum : column.enum[n] \in CellNames
      BY <1>3 DEF IsColumn
    <2>2. CASE named = {}
      <3>1. CellNumber(column, cell) = cell
        BY <2>2 DEF CellNumber
      <3> QED
        BY <1>1, <3>1 DEF Cells
    <2>3. CASE named # {}
      <3>1. IsFiniteSet(named) /\ named \subseteq Int
        BY <2>1, FS_Subset
      <3>2. PICK m \in named : \A k \in named : k <= m
        BY <2>3, <3>1, GreatestOfFinite
      <3> DEFINE IsLast(n) == column.enum[n] = cell /\ \A k \in DOMAIN column.enum : column.enum[k] = cell => k <= n
      <3>3. m \in DOMAIN column.enum /\ IsLast(m)
        BY <3>2
      <3>4. CellNumber(column, cell) = CHOOSE n \in DOMAIN column.enum : IsLast(n)
        BY <1>3, <3>3 DEF CellNumber
      <3>5. CellNumber(column, cell) \in DOMAIN column.enum /\ IsLast(CellNumber(column, cell))
        <4> HIDE DEF IsLast
        <4> QED
          BY <3>3, <3>4
      <3>6. CellName(column, CellNumber(column, cell)) = cell
        BY <1>3, <3>5 DEF CellName
      <3>7. cell \in CellNames /\ cell \notin DOMAIN column.enum
        BY <2>1, <3>5, TablesAssumption
      <3>8. CellName(column, cell) = cell
        BY <3>7 DEF CellName
      <3> QED
        BY <1>1, <2>1, <3>5, <3>6, <3>8
    <2> QED
      BY <2>2, <2>3
  <1> QED
    BY <1>2, <1>3

\* The columns of a row.
LEMMA ColumnsAre ==
    ASSUME NEW columns, AreColumns(columns)
    PROVE  /\ Len(columns) \in Nat /\ DOMAIN columns = 1 .. Len(columns)
           /\ \A i \in 1 .. Len(columns) : /\ IsColumn(columns[i])
                                           /\ columns[i].type \in PrimitiveTypes
                                           /\ columns[i].type.nbytes \in Nat \ {0}
           /\ FieldsEnd(columns, 0) = 0
           /\ \A i \in 0 .. Len(columns) : FieldsEnd(columns, i) \in Nat
           /\ \A i \in 1 .. Len(columns) :
                 FieldsEnd(columns, i) = FieldsEnd(columns, i - 1) + columns[i].type.nbytes
  <1>1. Len(columns) \in Nat /\ DOMAIN columns = 1 .. Len(columns)
    <2>1. columns \in Seq({columns[i] : i \in DOMAIN columns})
      BY DEF AreColumns
    <2> QED
      BY <2>1, LenProperties
  <1>2. ASSUME NEW i \in 1 .. Len(columns)
        PROVE  /\ IsColumn(columns[i]) /\ columns[i].type \in PrimitiveTypes
               /\ columns[i].type.nbytes \in Nat \ {0}
    <2>1. IsColumn(columns[i])
      BY <1>1 DEF AreColumns
    <2>2. columns[i].type \in PrimitiveTypes
      BY <2>1 DEF IsColumn
    <2> QED
      BY <2>1, <2>2 DEF PrimitiveTypes
  <1> QED
    BY <1>1, <1>2, FieldsEndIs

\* The bytes of a row, and of each of its cells when none is missing.
LEMMA RowsHave ==
    ASSUME NEW columns, AreColumns(columns), NEW row \in Seq(Cells), EncodesRow(columns, row)
    PROVE  /\ RowBytes(columns, row) \in Seq(Byte)
           /\ Len(row) >= Len(columns) =>
                 /\ Len(RowBytes(columns, row)) = FieldsEnd(columns, Len(columns))
                 /\ \A i \in 1 .. Len(columns) :
                       FoundAt(RowBytes(columns, row), FieldsEnd(columns, i - 1), CellBytes(columns[i], row[i]))
  <1>1. PICK n \in Nat, l \in Nat : n = Len(columns) /\ l = Len(row)
    <2>1. Len(columns) \in Nat /\ Len(row) \in Nat
      BY ColumnsAre, LenProperties
    <2> QED
      BY <2>1
  <1>2. PICK m \in Nat : m = Upto(Len(columns), Len(row)) /\ m <= n /\ m <= l /\ (l >= n => m = n)
    <2>1. Upto(n, l) \in Nat /\ Upto(n, l) <= n /\ Upto(n, l) <= l /\ (l >= n => Upto(n, l) = n)
      BY DEF Upto
    <2> QED
      BY <1>1, <2>1
  <1>3. ASSUME NEW i \in 1 .. m
        PROVE  /\ CellBytes(columns[i], row[i]) \in Seq(Byte)
               /\ Len(CellBytes(columns[i], row[i])) = columns[i].type.nbytes
    <2>1. i \in 1 .. Len(columns) /\ i \in 1 .. Len(row) /\ i \in Zipped(columns, row)
      BY <1>1, <1>2 DEF Zipped
    <2>2. IsColumn(columns[i]) /\ columns[i].type \in PrimitiveTypes /\ EncodesCell(columns[i], row[i])
      BY <2>1, ColumnsAre DEF EncodesRow
    <2>3. row[i] \in Cells
      BY <2>1, ElementOfSeq
    <2>4. CellNumber(columns[i], row[i]) \in Int
      BY <2>2, <2>3, CellsReadBack
    <2> QED
      BY <2>2, <2>4, EncodedBytes DEF CellBytes
  <1> DEFINE parts == [i \in 1 .. m |-> CellBytes(columns[i], row[i])]
  <1>4. parts \in Seq(Seq(Byte)) /\ Len(parts) = m
    <2>1. parts \in [1 .. m -> Seq(Byte)]
      BY <1>3
    <2> QED
      BY <2>1
  <1>5. \A i \in 1 .. m : parts[i] = CellBytes(columns[i], row[i])
    OBVIOUS
  <1>6. RowBytes(columns, row) = Together(parts)
    BY <1>2 DEF RowBytes, Zipped
  <1> HIDE DEF parts
  <1>7. PICK ends \in [0 .. m -> Nat] :
           /\ PartsEnd(parts, ends) /\ ends[m] = Len(Together(parts))
           /\ \A i \in 1 .. m : FoundAt(Together(parts), ends[i - 1], parts[i])
    BY <1>4, TogetherHas
  <1>8. PartsEnd(parts, [i \in 0 .. n |-> FieldsEnd(columns, i)])
    <2> DEFINE g == [i \in 0 .. n |-> FieldsEnd(columns, i)]
    <2>1. g[0] = 0
      BY <1>1, ColumnsAre
    <2>2. ASSUME NEW i \in 1 .. m PROVE g[i] = g[i - 1] + Len(parts[i])
      <3>1. i \in 1 .. n /\ i \in 0 .. n /\ i - 1 \in 0 .. n
        BY <1>2
      <3>2. FieldsEnd(columns, i) = FieldsEnd(columns, i - 1) + columns[i].type.nbytes
        BY <1>1, <3>1, ColumnsAre
      <3>3. Len(parts[i]) = columns[i].type.nbytes
        BY <1>3, <1>5
      <3> QED
        BY <3>1, <3>2, <3>3
    <2> HIDE DEF g
    <2>3. PartsEnd(parts, g)
      BY <1>4, <2>1, <2>2 DEF PartsEnd
    <2> QED
      BY <2>3 DEF g
  <1>9. \A i \in 0 .. m : ends[i] = FieldsEnd(columns, i)
    <2> DEFINE g == [i \in 0 .. n |-> FieldsEnd(columns, i)]
    <2>1. \A i \in 0 .. m : g[i] = FieldsEnd(columns, i)
      BY <1>2
    <2>2. PartsEnd(parts, g)
      BY <1>8
    <2> HIDE DEF g
    <2>3. \A i \in 0 .. m : ends[i] = g[i]
      BY <1>4, <1>7, <2>2, EndsAre
    <2> QED
      BY <2>1, <2>3
  <1>10. ASSUME l >= n
         PROVE  /\ Len(Together(parts)) = FieldsEnd(columns, n)
                /\ \A i \in 1 .. n :
                      FoundAt(Together(parts), FieldsEnd(columns, i - 1), CellBytes(columns[i], row[i]))
    <2>1. m = n /\ m \in 0 .. m
      BY <1>2, <1>10
    <2>2. ASSUME NEW i \in 1 .. n
          PROVE  FoundAt(Together(parts), FieldsEnd(columns, i - 1), CellBytes(columns[i], row[i]))
      <3>1. i \in 1 .. m /\ i - 1 \in 0 .. m
        BY <2>1
      <3> QED
        BY <1>5, <1>7, <1>9, <3>1
    <2>3. Len(Together(parts)) = FieldsEnd(columns, n)
      BY <1>7, <1>9, <2>1
    <2> QED
      BY <2>2, <2>3
  <1>11. Together(parts) \in Seq(Byte)
    BY <1>4, TogetherHas
  <1> QED
    BY <1>1, <1>6, <1>10, <1>11

\* What the columns of the rows are.
LEMMA RowsColumnsAre ==
    ASSUME table \in TableDefinitions, NEW k \in Nat \ {0}
    PROVE  /\ AreColumns(RowsColumns(k)) /\ Len(RowsColumns(k)) \in Nat \ {0}
           /\ HeaderRows \in {0, 1}
           /\ k > HeaderRows => RowsColumns(k) = table.columns
  <1>1. AreColumns(table.header) /\ AreColumns(table.columns) /\ Len(table.columns) > 0
    BY TablesAssumption
  <1>2. Len(table.columns) \in Nat /\ Len(table.header) \in Nat
    BY <1>1, ColumnsAre
  <1>3. CASE k <= HeaderRows
    <2>1. HeaderRows = 1 /\ table.header # <<>> /\ RowsColumns(k) = table.header
      BY <1>3 DEF HeaderRows, RowsColumns
    <2>2. Len(table.header) # 0
      <3>1. table.header \in Seq({table.header[i] : i \in DOMAIN table.header})
        BY <1>1 DEF AreColumns
      <3> QED
        BY <2>1, <3>1, EmptySeq
    <2> QED
      BY <1>1, <1>2, <1>3, <2>1, <2>2
  <1>4. CASE ~(k <= HeaderRows)
    BY <1>1, <1>2, <1>4 DEF HeaderRows, RowsColumns
  <1> QED
    BY <1>3, <1>4

\* The bytes of a text, and of each of its rows.
RowEnds(text, ends) ==
    /\ ends \in [0 .. Len(text) -> Nat] /\ ends[0] = 0 /\ ends[Len(text)] = Len(Encoded(text))
    /\ \A k \in 1 .. Len(text) : /\ ends[k] = ends[k - 1] + Len(RowBytes(RowsColumns(k), text[k]))
                                 /\ FoundAt(Encoded(text), ends[k - 1], RowBytes(RowsColumns(k), text[k]))

LEMMA TextsHave ==
    ASSUME table \in TableDefinitions, NEW text \in Seq(Seq(Cells)), RowsEncode(text)
    PROVE  Encoded(text) \in Seq(Byte) /\ \E ends : RowEnds(text, ends)
  <1>1. PICK n \in Nat : n = Len(text) /\ DOMAIN text = 1 .. n
    BY LenProperties
  <1>2. ASSUME NEW k \in 1 .. n PROVE RowBytes(RowsColumns(k), text[k]) \in Seq(Byte)
    <2>1. k \in Nat \ {0} /\ k \in DOMAIN text
      BY <1>1
    <2>2. AreColumns(RowsColumns(k))
      BY <2>1, RowsColumnsAre
    <2>3. EncodesRow(RowsColumns(k), text[k])
      BY <2>1 DEF RowsEncode
    <2>4. text[k] \in Seq(Cells)
      BY <1>1, ElementOfSeq
    <2> QED
      BY <2>2, <2>3, <2>4, RowsHave
  <1> DEFINE parts == [k \in 1 .. n |-> RowBytes(RowsColumns(k), text[k])]
  <1>3. parts \in Seq(Seq(Byte)) /\ Len(parts) = n
    <2>1. parts \in [1 .. n -> Seq(Byte)]
      BY <1>2
    <2> QED
      BY <2>1
  <1>4. \A k \in 1 .. n : parts[k] = RowBytes(RowsColumns(k), text[k])
    OBVIOUS
  <1>5. Encoded(text) = Together(parts)
    BY <1>1 DEF Encoded
  <1> HIDE DEF parts
  <1>6. PICK ends \in [0 .. n -> Nat] :
           /\ PartsEnd(parts, ends) /\ ends[n] = Len(Together(parts))
           /\ \A k \in 1 .. n : FoundAt(Together(parts), ends[k - 1], parts[k])
    BY <1>3, TogetherHas
  <1>7. Together(parts) \in Seq(Byte)
    BY <1>3, TogetherHas
  <1>8. RowEnds(text, ends)
    <2>1. ends[0] = 0 /\ \A k \in 1 .. n : ends[k] = ends[k - 1] + Len(parts[k])
      BY <1>3, <1>6 DEF PartsEnd
    <2>2. \A k \in 1 .. n : /\ ends[k] = ends[k - 1] + Len(RowBytes(RowsColumns(k), text[k]))
                            /\ FoundAt(Encoded(text), ends[k - 1], RowBytes(RowsColumns(k), text[k]))
      BY <1>4, <1>5, <1>6, <2>1
    <2> QED
      BY <1>1, <1>5, <1>6, <2>1, <2>2 DEF RowEnds
  <1> QED
    BY <1>5, <1>7, <1>8

\* A file that begins as the bytes do, and has zeros behind them.
BeginsAs(file, bytes) ==
    \A k \in 1 .. Len(file) : file[k] = IF k <= Len(bytes) THEN bytes[k] ELSE 0

LEMMA FoundInFile ==
    ASSUME NEW file \in Seq(Byte), NEW bytes \in Seq(Byte), BeginsAs(file, bytes),
           NEW at \in Nat, NEW part \in Seq(Byte), FoundAt(bytes, at, part), at + Len(part) <= Len(file)
    PROVE  FoundAt(file, at, part)
  <1>1. PICK n \in Nat, m \in Nat, l \in Nat : n = Len(file) /\ m = Len(bytes) /\ l = Len(part)
    <2>1. Len(file) \in Nat /\ Len(bytes) \in Nat /\ Len(part) \in Nat
      BY LenProperties
    <2> QED
      BY <2>1
  <1>2. at + l <= m /\ at + l <= n /\ \A k \in 1 .. l : bytes[at + k] = part[k]
    BY <1>1 DEF FoundAt
  <1>3. \A k \in 1 .. n : file[k] = IF k <= m THEN bytes[k] ELSE 0
    BY <1>1 DEF BeginsAs
  <1>4. ASSUME NEW k \in 1 .. l PROVE file[at + k] = part[k]
    <2>1. at + k \in 1 .. n /\ at + k <= m
      BY <1>2
    <2> QED
      BY <1>2, <1>3, <2>1
  <1> QED
    BY <1>1, <1>2, <1>4 DEF FoundAt

\* A column that is all there has the bytes of its type.
LEMMA ColumnBytesAre ==
    ASSUME NEW file \in Seq(Byte), NEW columns, AreColumns(columns), NEW at \in Nat,
           NEW i \in ColumnsRead(columns, file, at)
    PROVE  /\ i \in 1 .. Len(columns)
           /\ columns[i].type \in PrimitiveTypes
           /\ ColumnBytes(columns, file, at, i) \in Seq(Byte)
           /\ Len(ColumnBytes(columns, file, at, i)) = columns[i].type.nbytes
           /\ \A k \in 1 .. columns[i].type.nbytes :
                 ColumnBytes(columns, file, at, i)[k] = file[(at + FieldsEnd(columns, i - 1)) + k]
  <1>1. i \in 1 .. Len(columns) /\ at + FieldsEnd(columns, i) <= Len(file)
    BY ColumnsAre DEF ColumnsRead
  <1>2. i - 1 \in 0 .. Len(columns) /\ i \in 0 .. Len(columns)
    BY <1>1, ColumnsAre
  <1>3. PICK from \in Nat, to \in Nat, n \in Nat :
           /\ from = at + FieldsEnd(columns, i - 1) /\ to = at + FieldsEnd(columns, i)
           /\ n = columns[i].type.nbytes /\ to = from + n
    <2>1. /\ FieldsEnd(columns, i - 1) \in Nat /\ FieldsEnd(columns, i) \in Nat
          /\ columns[i].type.nbytes \in Nat
          /\ FieldsEnd(columns, i) = FieldsEnd(columns, i - 1) + columns[i].type.nbytes
      BY <1>1, <1>2, ColumnsAre
    <2>2. PICK x \in Nat, y \in Nat, n \in Nat :
             x = FieldsEnd(columns, i - 1) /\ y = FieldsEnd(columns, i) /\ n = columns[i].type.nbytes
      BY <2>1
    <2>3. at + x \in Nat /\ at + y \in Nat /\ at + y = (at + x) + n
      BY <2>1, <2>2
    <2> QED
      BY <2>2, <2>3
  <1>4. from <= to /\ to <= Len(file) /\ to - from = n
    BY <1>1, <1>3
  <1>5. /\ Slice(file, from, to) \in Seq(Byte) /\ Len(Slice(file, from, to)) = to - from
        /\ \A k \in 1 .. to - from : Slice(file, from, to)[k] = file[from + k]
    BY <1>4, SliceIs
  <1>6. ColumnBytes(columns, file, at, i) = Slice(file, from, to)
    BY <1>3 DEF ColumnBytes
  <1>7. columns[i].type \in PrimitiveTypes
    BY <1>1, ColumnsAre
  <1> QED
    BY <1>1, <1>3, <1>4, <1>5, <1>6, <1>7

\* A row that is all there reads back; one of the padding is zeros.
LEMMA RowReadsBack ==
    ASSUME NEW file \in Seq(Byte), NEW bytes \in Seq(Byte), BeginsAs(file, bytes), NEW at \in Nat,
           NEW columns, AreColumns(columns), NEW row \in Seq(Cells), EncodesRow(columns, row),
           Len(row) >= Len(columns), FoundAt(bytes, at, RowBytes(columns, row)),
           NEW i \in ColumnsRead(columns, file, at)
    PROVE  Row(columns, file, at)[i] = CellName(columns[i], row[i])
  <1>1. i \in 1 .. Len(columns) /\ columns[i].type \in PrimitiveTypes /\ IsColumn(columns[i])
    BY ColumnBytesAre, ColumnsAre
  <1>2. PICK from \in Nat : from = FieldsEnd(columns, i - 1)
    <2>1. i - 1 \in 0 .. Len(columns)
      BY <1>1, ColumnsAre
    <2> QED
      BY <2>1, ColumnsAre
  <1>3. i \in 1 .. Len(row) /\ i \in Zipped(columns, row)
    <2>1. Len(row) \in Nat /\ Len(columns) \in Nat
      BY LenProperties, ColumnsAre
    <2> QED
      BY <1>1, <2>1 DEF Zipped, Upto
  <1>4. EncodesCell(columns[i], row[i]) /\ row[i] \in Cells
    BY <1>3, ElementOfSeq DEF EncodesRow
  <1>5. PICK number \in Int : /\ number = CellNumber(columns[i], row[i])
                              /\ Packs(columns[i].type, number)
                              /\ CellName(columns[i], number) = CellName(columns[i], row[i])
    BY <1>1, <1>4, CellsReadBack
  <1>6. PICK cell \in Seq(Byte) : /\ cell = CellBytes(columns[i], row[i])
                                  /\ cell = encode(columns[i].type, number)
                                  /\ Len(cell) = columns[i].type.nbytes
    BY <1>1, <1>5, EncodedBytes DEF CellBytes
  <1>7. FoundAt(RowBytes(columns, row), from, cell)
    BY <1>1, <1>2, <1>6, RowsHave
  <1>8. FoundAt(bytes, at + from, cell)
    <2>1. RowBytes(columns, row) \in Seq(Byte)
      BY RowsHave
    <2> QED
      BY <1>7, <2>1, FoundWithin
  <1>9. (at + from) + Len(cell) = at + FieldsEnd(columns, i) /\ at + FieldsEnd(columns, i) <= Len(file)
    <2>1. FieldsEnd(columns, i) = from + columns[i].type.nbytes /\ columns[i].type.nbytes \in Nat
      BY <1>1, <1>2, ColumnsAre
    <2>2. at + FieldsEnd(columns, i) <= Len(file)
      BY DEF ColumnsRead
    <2> QED
      BY <1>6, <2>1, <2>2
  <1>10. FoundAt(file, at + from, cell)
    <2>1. at + from \in Nat /\ (at + from) + Len(cell) <= Len(file)
      BY <1>9
    <2> QED
      BY <1>8, <2>1, FoundInFile
  <1>11. ColumnBytes(columns, file, at, i) = cell
    <2>1. Slice(file, at + from, (at + from) + Len(cell)) = cell
      BY <1>10, SliceFound
    <2> QED
      BY <1>2, <1>9, <2>1 DEF ColumnBytes
  <1>12. decode(columns[i].type, cell) = number
    BY <1>1, <1>5, <1>6, DecodesEncoded
  <1> QED
    BY <1>5, <1>11, <1>12 DEF Row

LEMMA BytesOfZero ==
    ASSUME NEW n \in Nat
    PROVE  /\ BytesOf(n, 0) \in Seq(Byte) /\ Len(BytesOf(n, 0)) = n
           /\ \A k \in 1 .. n : BytesOf(n, 0)[k] = 0
  <1>1. PICK p \in Nat : p = 0
    OBVIOUS
  <1>2. /\ BytesOf(n, p) \in Seq(Byte) /\ Len(BytesOf(n, p)) = n
        /\ \A k \in 1 .. n : BytesOf(n, p)[k] = (p \div Patterns[n - k]) % 256
    BY BytesAre
  <1>3. ASSUME NEW k \in 1 .. n PROVE (p \div Patterns[n - k]) % 256 = 0
    <2>1. n - k \in Nat
      OBVIOUS
    <2>2. PICK q \in Nat \ {0} : q = Patterns[n - k]
      BY <2>1, PatternsAre
    <2>3. 0 \div q = 0
      OBVIOUS
    <2> QED
      BY <1>1, <2>2, <2>3
  <1> QED
    BY <1>1, <1>2, <1>3

LEMMA ZerosOf ==
    ASSUME NEW type \in PrimitiveTypes, NEW bytes \in Seq(Byte), Len(bytes) = type.nbytes,
           \A k \in 1 .. type.nbytes : bytes[k] = 0
    PROVE  decode(type, bytes) = 0
  <1>1. PICK n \in Nat \ {0} : n = type.nbytes
    BY DEF PrimitiveTypes
  <1>2. encode(type, 0) \in Seq(Byte) /\ Len(encode(type, 0)) = n
    BY <1>1, EncodedBytes
  <1>3. PICK q \in Nat \ {0} : q = Patterns[n] /\ 0 % q = 0
    <2>1. n \in Nat
      OBVIOUS
    <2>2. PICK q \in Nat \ {0} : q = Patterns[n]
      BY <2>1, PatternsAre
    <2>3. 0 % q = 0
      OBVIOUS
    <2> QED
      BY <2>2, <2>3
  <1>4. encode(type, 0) = InOrderOf(type, BytesOf(n, 0))
    BY <1>1, <1>3 DEF encode
  <1>5. /\ BytesOf(n, 0) \in Seq(Byte) /\ Len(BytesOf(n, 0)) = n
        /\ \A k \in 1 .. n : BytesOf(n, 0)[k] = 0
    BY BytesOfZero
  <1> DEFINE b == BytesOf(n, 0)
  <1>6. \A k \in 1 .. n : InOrderOf(type, b)[k] = 0
    <2> HIDE DEF b
    <2>1. ASSUME NEW k \in 1 .. n PROVE [i \in 1 .. n |-> b[n + 1 - i]][k] = 0
      BY <1>5 DEF b
    <2> QED
      BY <1>5, <2>1 DEF InOrderOf, b
  <1> HIDE DEF b
  <1>7. encode(type, 0) = bytes
    BY <1>1, <1>2, <1>4, <1>6, SeqEqual DEF b
  <1>8. Packs(type, 0)
    <2>1. Patterns[n] \div 2 \in Nat \ {0}
      BY HalfOfPatterns
    <2>2. PICK h \in Nat \ {0} : h = Patterns[n] \div 2
      BY <2>1
    <2> QED
      BY <1>1, <1>3, <2>2 DEF Packs
  <1> QED
    BY <1>7, <1>8, DecodesEncoded

LEMMA RowOfZeros ==
    ASSUME NEW file \in Seq(Byte), NEW bytes \in Seq(Byte), BeginsAs(file, bytes), NEW at \in Nat,
           Len(bytes) <= at, NEW columns, AreColumns(columns), NEW i \in ColumnsRead(columns, file, at)
    PROVE  Row(columns, file, at)[i] = CellName(columns[i], 0)
  <1> DEFINE read == ColumnBytes(columns, file, at, i)
  <1>1. /\ i \in 1 .. Len(columns) /\ columns[i].type \in PrimitiveTypes
        /\ read \in Seq(Byte) /\ Len(read) = columns[i].type.nbytes
        /\ \A k \in 1 .. columns[i].type.nbytes : read[k] = file[(at + FieldsEnd(columns, i - 1)) + k]
    BY ColumnBytesAre
  <1>2. PICK n \in Nat, m \in Nat, from \in Nat, l \in Nat :
           /\ n = Len(file) /\ m = Len(bytes) /\ from = FieldsEnd(columns, i - 1)
           /\ l = columns[i].type.nbytes /\ (at + from) + l <= n
    <2>1. Len(file) \in Nat /\ Len(bytes) \in Nat
      BY LenProperties
    <2>2. i - 1 \in 0 .. Len(columns)
      BY <1>1, ColumnsAre
    <2>3. /\ FieldsEnd(columns, i - 1) \in Nat /\ columns[i].type.nbytes \in Nat
          /\ FieldsEnd(columns, i) = FieldsEnd(columns, i - 1) + columns[i].type.nbytes
      BY <1>1, <2>2, ColumnsAre
    <2>4. at + FieldsEnd(columns, i) <= Len(file)
      BY DEF ColumnsRead
    <2>5. (at + FieldsEnd(columns, i - 1)) + columns[i].type.nbytes <= Len(file)
      BY <2>1, <2>3, <2>4
    <2> QED
      BY <2>1, <2>3, <2>5
  <1>3. \A k \in 1 .. n : file[k] = IF k <= m THEN bytes[k] ELSE 0
    BY <1>2 DEF BeginsAs
  <1>4. ASSUME NEW k \in 1 .. l PROVE file[(at + from) + k] = 0
    <2>1. (at + from) + k \in 1 .. n /\ ~((at + from) + k <= m)
      BY <1>2
    <2> QED
      BY <1>3, <2>1
  <1> HIDE DEF read
  <1>5. \A k \in 1 .. columns[i].type.nbytes : read[k] = 0
    BY <1>1, <1>2, <1>4
  <1>6. decode(columns[i].type, read) = 0
    BY <1>1, <1>5, ZerosOf
  <1> QED
    BY <1>6 DEF Row, read

\* The rows that the decoder may have: those of a table that raises may lack columns.
RowShapes == UNION {[D -> Cells] : D \in SUBSET Nat}
ReadStates == {s \in [rows : Seq(RowShapes), at : Nat, end : {"no", "end", Raises}] :
                  s.end # Raises => s.rows \in Seq(Seq(Cells))}

LEMMA StateIs ==
    ASSUME NEW rows \in Seq(RowShapes), NEW at \in Nat, NEW end \in {"no", "end", Raises},
           end # Raises => rows \in Seq(Seq(Cells))
    PROVE  [rows |-> rows, at |-> at, end |-> end] \in ReadStates
  <1> DEFINE s == [rows |-> rows, at |-> at, end |-> end]
  <1>1. s \in [rows : Seq(RowShapes), at : Nat, end : {"no", "end", Raises}]
    OBVIOUS
  <1>2. s.end = end /\ s.rows = rows
    OBVIOUS
  <1> HIDE DEF s
  <1>3. s \in ReadStates
    BY <1>1, <1>2 DEF ReadStates
  <1> QED
    BY <1>3 DEF s

LEMMA RowIs ==
    ASSUME NEW file \in Seq(Byte), NEW columns, AreColumns(columns), NEW at \in Nat
    PROVE  /\ Row(columns, file, at) \in RowShapes
           /\ DOMAIN Row(columns, file, at) = ColumnsRead(columns, file, at)
           /\ ColumnsRead(columns, file, at) = DOMAIN columns => Row(columns, file, at) \in Seq(Cells)
  <1> DEFINE D == ColumnsRead(columns, file, at)
             r == Row(columns, file, at)
  <1>1. D \subseteq 1 .. Len(columns) /\ Len(columns) \in Nat /\ DOMAIN columns = 1 .. Len(columns)
    BY ColumnsAre DEF ColumnsRead
  <1>2. ASSUME NEW i \in D
        PROVE  CellName(columns[i], decode(columns[i].type, ColumnBytes(columns, file, at, i))) \in Cells
    <2>1. /\ i \in 1 .. Len(columns) /\ columns[i].type \in PrimitiveTypes
          /\ ColumnBytes(columns, file, at, i) \in Seq(Byte)
          /\ Len(ColumnBytes(columns, file, at, i)) = columns[i].type.nbytes
      BY ColumnBytesAre
    <2>2. IsColumn(columns[i])
      BY <2>1, ColumnsAre
    <2>3. PICK number \in Int : number = decode(columns[i].type, ColumnBytes(columns, file, at, i))
      BY <2>1, DecodedPacks DEF Unpacks
    <2>4. CellName(columns[i], number) \in Cells
      BY <2>2 DEF CellName, IsColumn, Cells
    <2> QED
      BY <2>3, <2>4
  <1>3. r \in [D -> Cells]
    BY <1>2 DEF Row
  <1>4. D \in SUBSET Nat
    BY <1>1
  <1> HIDE DEF r, D
  <1>5. r \in RowShapes /\ DOMAIN r = D
    BY <1>3, <1>4 DEF RowShapes
  <1>6. ASSUME D = DOMAIN columns PROVE r \in Seq(Cells)
    <2>1. PICK n \in Nat : n = Len(columns) /\ r \in [1 .. n -> Cells]
      BY <1>1, <1>3, <1>6
    <2> QED
      BY <2>1
  <1> QED
    BY <1>5, <1>6 DEF r, D

\* What a step of the decoder does.
LEMMA DecodeRowIs ==
    ASSUME table \in TableDefinitions, NEW file \in Seq(Byte), NEW s \in ReadStates, s.end = "no",
           NEW k \in Nat, k = Len(s.rows),
           NEW columns, columns = RowsColumns(k + 1)
    PROVE  /\ ColumnsRead(columns, file, s.at) = DOMAIN columns =>
                 DecodeRow(file, s) = [rows |-> Append(s.rows, Row(columns, file, s.at)),
                                       at   |-> s.at + FieldsEnd(columns, Len(columns)),
                                       end  |-> "no"]
           /\ ColumnsRead(columns, file, s.at) = {} =>
                 DecodeRow(file, s) = [rows |-> s.rows, at |-> s.at,
                                       end  |-> IF k >= HeaderRows THEN "end" ELSE Raises]
  <1>1. /\ AreColumns(columns) /\ Len(columns) \in Nat \ {0}
    <2>1. k + 1 \in Nat \ {0}
      OBVIOUS
    <2> QED
      BY <2>1, RowsColumnsAre
  <1>2. DOMAIN columns # {}
    <2>1. 1 \in DOMAIN columns
      BY <1>1, ColumnsAre
    <2> QED
      BY <2>1
  <1> DEFINE read == ColumnsRead(columns, file, s.at)
             row == Row(columns, file, s.at)
  <1>3. s = [rows |-> s.rows, at |-> s.at, end |-> "no"]
    BY DEF ReadStates
  <1>4. DecodeRow(file, s) =
           CASE s.end # "no" -> s
             [] s.end = "no" /\ read = DOMAIN columns ->
                   [s EXCEPT !.rows = Append(@, row), !.at = @ + FieldsEnd(columns, Len(columns))]
             [] OTHER ->
                   [s EXCEPT !.rows = IF read = {} THEN @ ELSE Append(@, row),
                             !.end = IF EndsRow(columns, file, s.at) /\ Len(s.rows) >= HeaderRows
                                     THEN "end" ELSE Raises]
    BY DEF DecodeRow
  <1>5. EndsRow(columns, file, s.at) <=> read = {}
    BY DEF EndsRow
  <1> HIDE DEF read, row
  <1>6. ASSUME read = DOMAIN columns
        PROVE  DecodeRow(file, s) = [rows |-> Append(s.rows, row),
                                     at   |-> s.at + FieldsEnd(columns, Len(columns)), end |-> "no"]
    <2>1. DecodeRow(file, s) =
             [s EXCEPT !.rows = Append(@, row), !.at = @ + FieldsEnd(columns, Len(columns))]
      BY <1>4, <1>6
    <2> QED
      BY <1>3, <2>1
  <1>7. ASSUME read # DOMAIN columns
        PROVE  DecodeRow(file, s) =
                  [s EXCEPT !.rows = IF read = {} THEN @ ELSE Append(@, row),
                            !.end = IF EndsRow(columns, file, s.at) /\ Len(s.rows) >= HeaderRows
                                    THEN "end" ELSE Raises]
    BY <1>4, <1>7
  <1>8. ASSUME read = {}
        PROVE  DecodeRow(file, s) = [rows |-> s.rows, at |-> s.at,
                                     end |-> IF k >= HeaderRows THEN "end" ELSE Raises]
    <2>1. read # DOMAIN columns
      BY <1>2, <1>8
    <2> QED
      BY <1>3, <1>5, <1>7, <1>8, <2>1
  <1> QED
    BY <1>6, <1>8 DEF read, row

LEMMA DecodeRowRaises ==
    ASSUME NEW file, NEW s \in ReadStates, s.end = "no", NEW columns, columns = RowsColumns(Len(s.rows) + 1),
           ColumnsRead(columns, file, s.at) # {}, ColumnsRead(columns, file, s.at) # DOMAIN columns
    PROVE  DecodeRow(file, s) = [rows |-> Append(s.rows, Row(columns, file, s.at)),
                                 at |-> s.at, end |-> Raises]
  <1> DEFINE read == ColumnsRead(columns, file, s.at)
             row == Row(columns, file, s.at)
  <1>1. DecodeRow(file, s) =
           [s EXCEPT !.rows = IF read = {} THEN @ ELSE Append(@, row),
                     !.end = IF EndsRow(columns, file, s.at) /\ Len(s.rows) >= HeaderRows
                             THEN "end" ELSE Raises]
    BY DEF DecodeRow
  <1>2. ~EndsRow(columns, file, s.at) /\ read # {}
    BY DEF EndsRow
  <1>3. s = [rows |-> s.rows, at |-> s.at, end |-> "no"]
    BY DEF ReadStates
  <1> HIDE DEF read, row
  <1>4. DecodeRow(file, s) = [rows |-> Append(s.rows, row), at |-> s.at, end |-> Raises]
    BY <1>1, <1>2, <1>3
  <1> QED
    BY <1>4 DEF row

LEMMA DecodeRowStays ==
    ASSUME NEW file, NEW s, s.end # "no"
    PROVE  DecodeRow(file, s) = s
  BY DEF DecodeRow

LEMMA DecodeRowKeeps ==
    ASSUME table \in TableDefinitions, NEW file \in Seq(Byte), NEW s \in ReadStates
    PROVE  DecodeRow(file, s) \in ReadStates
  <1>1. CASE s.end # "no"
    BY <1>1, DecodeRowStays
  <1>2. CASE s.end = "no"
    <2>1. s.rows \in Seq(RowShapes) /\ s.rows \in Seq(Seq(Cells)) /\ s.at \in Nat
      BY <1>2 DEF ReadStates, Raises
    <2>2. PICK k \in Nat : k = Len(s.rows)
      BY <2>1, LenProperties
    <2>3. PICK columns : columns = RowsColumns(k + 1)
      OBVIOUS
    <2>4. AreColumns(columns) /\ Len(columns) \in Nat \ {0}
      <3>1. k + 1 \in Nat \ {0}
        OBVIOUS
      <3> QED
        BY <2>3, <3>1, RowsColumnsAre
    <2> DEFINE row == Row(columns, file, s.at)
    <2>5. /\ row \in RowShapes
          /\ ColumnsRead(columns, file, s.at) = DOMAIN columns => row \in Seq(Cells)
      BY <2>1, <2>4, RowIs
    <2>6. FieldsEnd(columns, Len(columns)) \in Nat
      BY <2>4, ColumnsAre
    <2>7. Append(s.rows, row) \in Seq(RowShapes)
      BY <2>1, <2>5, AppendProperties
    <2>8. CASE ColumnsRead(columns, file, s.at) = DOMAIN columns
      <3>1. DecodeRow(file, s) = [rows |-> Append(s.rows, row),
                                  at |-> s.at + FieldsEnd(columns, Len(columns)), end |-> "no"]
        BY <1>2, <2>2, <2>3, <2>8, DecodeRowIs
      <3>2. Append(s.rows, row) \in Seq(Seq(Cells))
        BY <2>1, <2>5, <2>8, AppendProperties
      <3>3. s.at + FieldsEnd(columns, Len(columns)) \in Nat
        BY <2>1, <2>6
      <3> HIDE DEF row
      <3>4. [rows |-> Append(s.rows, row), at |-> s.at + FieldsEnd(columns, Len(columns)), end |-> "no"]
               \in ReadStates
        BY <2>7, <3>2, <3>3, StateIs
      <3> QED
        BY <3>1, <3>4
    <2>9. CASE ColumnsRead(columns, file, s.at) = {}
      <3>1. DecodeRow(file, s) = [rows |-> s.rows, at |-> s.at,
                                  end |-> IF k >= HeaderRows THEN "end" ELSE Raises]
        BY <1>2, <2>2, <2>3, <2>9, DecodeRowIs
      <3>2. [rows |-> s.rows, at |-> s.at, end |-> IF k >= HeaderRows THEN "end" ELSE Raises]
               \in ReadStates
        BY <2>1, StateIs
      <3> QED
        BY <3>1, <3>2
    <2>10. CASE ColumnsRead(columns, file, s.at) # {} /\ ColumnsRead(columns, file, s.at) # DOMAIN columns
      <3>1. DecodeRow(file, s) = [rows |-> Append(s.rows, row), at |-> s.at, end |-> Raises]
        BY <1>2, <2>2, <2>3, <2>10, DecodeRowRaises
      <3> HIDE DEF row
      <3>2. [rows |-> Append(s.rows, row), at |-> s.at, end |-> Raises] \in ReadStates
        BY <2>1, <2>7, StateIs
      <3> QED
        BY <3>1, <3>2
    <2> QED
      BY <2>8, <2>9, <2>10
  <1> QED
    BY <1>1, <1>2

\* The decoder, step by step.
DecodesAs(file, n, f) == /\ f \in [0 .. n -> ReadStates]
                         /\ f[0] = NothingRead
                         /\ \A i \in 1 .. n : f[i] = DecodeRow(file, f[i - 1])

LEMMA DecodedIs ==
    ASSUME table \in TableDefinitions, NEW file \in Seq(Byte)
    PROVE  \E f : DecodesAs(file, Len(file) + 1, f) /\ Decoded(file) = f[Len(file) + 1]
  <1>1. PICK n \in Nat : n = Len(file) + 1
    <2>1. Len(file) \in Nat
      BY LenProperties
    <2> QED
      BY <2>1
  <1> DEFINE step == [x \in Nat \X ReadStates |-> DecodeRow(file, x[2])]
  <1>2. step \in [Nat \X ReadStates -> ReadStates]
    BY DecodeRowKeeps
  <1>3. \A i \in Nat, s \in ReadStates : step[<<i, s>>] = DecodeRow(file, s)
    OBVIOUS
  <1> HIDE DEF step
  <1>4. NothingRead \in ReadStates
    <2>1. <<>> \in Seq(RowShapes) /\ <<>> \in Seq(Seq(Cells)) /\ 0 \in Nat
      BY EmptySeq
    <2> QED
      BY <2>1, StateIs DEF NothingRead
  <1>5. PICK g \in [Nat -> ReadStates] : Follows(g, NothingRead, step)
    BY <1>2, <1>4, Recursion
  <1>6. g[0] = NothingRead
    BY <1>5 DEF Follows
  <1>7. ASSUME NEW i \in Nat PROVE g[i + 1] = DecodeRow(file, g[i])
    BY <1>3, <1>5 DEF Follows
  <1> DEFINE body(t) == [i \in 0 .. n |-> IF i = 0 THEN NothingRead ELSE DecodeRow(file, t[i - 1])]
             after == CHOOSE t : t = body(t)
             f == [i \in 0 .. n |-> g[i]]
  <1>8. Decoded(file) = after[n]
    BY <1>1 DEF Decoded
  <1>9. DecodesAs(file, n, f)
    <2>1. \A i \in 0 .. n : f[i] = g[i] /\ g[i] \in ReadStates
      BY <1>5
    <2>2. f \in [0 .. n -> ReadStates] /\ f[0] = g[0]
      BY <2>1
    <2> HIDE DEF f
    <2>3. ASSUME NEW i \in 1 .. n PROVE f[i] = DecodeRow(file, f[i - 1])
      <3>1. i - 1 \in Nat /\ (i - 1) + 1 = i /\ i \in 0 .. n /\ i - 1 \in 0 .. n
        OBVIOUS
      <3>2. g[(i - 1) + 1] = DecodeRow(file, g[i - 1])
        BY <1>7, <3>1
      <3> QED
        BY <2>1, <3>1, <3>2
    <2> QED
      BY <1>6, <2>2, <2>3 DEF DecodesAs
  <1>10. f = [i \in 0 .. n |-> f[i]]
    OBVIOUS
  <1> HIDE DEF f
  <1>11. f = body(f)
    <2>1. ASSUME NEW i \in 0 .. n PROVE f[i] = IF i = 0 THEN NothingRead ELSE DecodeRow(file, f[i - 1])
      BY <1>9 DEF DecodesAs
    <2>2. [i \in 0 .. n |-> f[i]] = [i \in 0 .. n |-> IF i = 0 THEN NothingRead ELSE DecodeRow(file, f[i - 1])]
      BY <2>1, Zenon
    <2> QED
      BY <1>10, <2>2, Zenon
  <1>12. after = body(after)
    <2> HIDE DEF body
    <2> QED
      BY <1>11
  <1> HIDE DEF after
  <1> DEFINE Same(i) == after[i] = f[i]
             T == {i \in Nat : i <= n => Same(i)}
  <1>13. 0 \in T
    <2>1. Same(0)
      BY <1>9, <1>12 DEF DecodesAs
    <2> HIDE DEF Same
    <2> QED
      BY <2>1
  <1>14. ASSUME NEW i \in Nat, i \in T PROVE i + 1 \in T
    <2>1. CASE i + 1 <= n
      <3>1. i + 1 \in 0 .. n /\ i + 1 \in 1 .. n /\ (i + 1) - 1 = i /\ i + 1 # 0 /\ i <= n
        BY <2>1
      <3>2. after[i + 1] = DecodeRow(file, after[i])
        BY <1>12, <3>1
      <3>3. f[i + 1] = DecodeRow(file, f[i])
        <4>1. f[i + 1] = DecodeRow(file, f[(i + 1) - 1])
          BY <1>9, <3>1 DEF DecodesAs
        <4> QED
          BY <3>1, <4>1
      <3>4. after[i] = f[i]
        BY <1>14, <3>1
      <3>5. Same(i + 1)
        BY <3>2, <3>3, <3>4
      <3> HIDE DEF Same
      <3> QED
        BY <3>5
    <2>2. CASE ~(i + 1 <= n)
      <3> HIDE DEF Same
      <3> QED
        BY <2>2
    <2> QED
      BY <2>1, <2>2
  <1> HIDE DEF T
  <1>15. \A i \in Nat : i \in T
    BY <1>13, <1>14, SetInduction
  <1>16. Decoded(file) = f[n]
    BY <1>8, <1>15 DEF T
  <1> QED
    BY <1>1, <1>9, <1>16

\* The rows that belong to a text and the padding behind it.
RowOf(text, k) == IF k <= Len(text) THEN Normal(text)[k]
                  ELSE [i \in DOMAIN table.columns |-> CellName(table.columns[i], 0)]
RowsRight(text, rows) == \A k \in 1 .. Len(rows) : rows[k] = RowOf(text, k)

\* What has been read is right, and as far as rows go that is where the next begins.
ReadRight(text, ends, s) ==
    /\ s.end # Raises => RowsRight(text, s.rows)
    /\ s.end = "no" => IF Len(s.rows) <= Len(text) THEN s.at = ends[Len(s.rows)]
                       ELSE Len(Encoded(text)) <= s.at

EncodesText(text) == /\ table \in TableDefinitions /\ text \in Seq(Seq(Cells))
                /\ RowsEncode(text) /\ Fits(text)

LEMMA RowOfText ==
    ASSUME NEW text, EncodesText(text), NEW ends, RowEnds(text, ends), NEW k \in 1 .. Len(text),
           NEW file \in Seq(Byte), BeginsAs(file, Encoded(text)),
           NEW columns, columns = RowsColumns(k), ColumnsRead(columns, file, ends[k - 1]) = DOMAIN columns
    PROVE  /\ Row(columns, file, ends[k - 1]) = Normal(text)[k]
           /\ ends[k] = ends[k - 1] + FieldsEnd(columns, Len(columns))
  <1>1. text \in Seq(Seq(Cells)) /\ table \in TableDefinitions /\ DOMAIN text = 1 .. Len(text)
    BY LenProperties DEF EncodesText
  <1>2. k \in Nat \ {0} /\ k - 1 \in 0 .. Len(text) /\ Len(text) \in Nat
    BY <1>1, LenProperties
  <1>3. AreColumns(columns)
    BY <1>1, <1>2, RowsColumnsAre
  <1>4. PICK row \in Seq(Cells) : row = text[k]
    BY <1>1, ElementOfSeq
  <1>5. EncodesRow(columns, row) /\ Len(row) >= Len(columns)
    BY <1>1, <1>4 DEF EncodesText, RowsEncode, Fits
  <1>6. PICK at \in Nat : at = ends[k - 1]
    BY <1>2 DEF RowEnds
  <1>7. /\ ends[k] = at + Len(RowBytes(columns, row))
        /\ FoundAt(Encoded(text), at, RowBytes(columns, row))
    BY <1>4, <1>6 DEF RowEnds
  <1>8. Len(RowBytes(columns, row)) = FieldsEnd(columns, Len(columns))
    BY <1>3, <1>5, RowsHave
  <1>9. Encoded(text) \in Seq(Byte)
    BY <1>1, TextsHave DEF EncodesText
  <1>10. ASSUME NEW i \in DOMAIN columns
         PROVE  Row(columns, file, at)[i] = CellName(columns[i], row[i])
    <2>1. i \in ColumnsRead(columns, file, at)
      BY <1>6
    <2> QED
      BY <1>3, <1>5, <1>7, <1>9, <2>1, RowReadsBack
  <1>11. Row(columns, file, at) = [i \in DOMAIN columns |-> Row(columns, file, at)[i]]
    BY <1>6 DEF Row
  <1>12. Normal(text)[k] = [i \in DOMAIN columns |-> CellName(columns[i], row[i])]
    BY <1>1, <1>4 DEF Normal, CellName
  <1>13. [i \in DOMAIN columns |-> Row(columns, file, at)[i]] = [i \in DOMAIN columns |-> CellName(columns[i], row[i])]
    BY <1>10, Zenon
  <1> QED
    BY <1>6, <1>7, <1>8, <1>11, <1>12, <1>13

LEMMA RowOfPadding ==
    ASSUME NEW text, EncodesText(text), NEW k \in Nat, Len(text) < k,
           NEW file \in Seq(Byte), BeginsAs(file, Encoded(text)), NEW at \in Nat, Len(Encoded(text)) <= at,
           NEW columns, columns = RowsColumns(k), ColumnsRead(columns, file, at) = DOMAIN columns
    PROVE  Row(columns, file, at) = [i \in DOMAIN table.columns |-> CellName(table.columns[i], 0)]
  <1>1. text \in Seq(Seq(Cells)) /\ table \in TableDefinitions /\ Len(text) \in Nat
    BY LenProperties DEF EncodesText
  <1>2. k \in Nat \ {0}
    BY <1>1
  <1>3. k > HeaderRows
    <2>1. HeaderRows = 1 => text # <<>>
      BY DEF EncodesText, RowsEncode
    <2>2. HeaderRows = 1 => Len(text) # 0
      BY <1>1, <2>1, EmptySeq
    <2>3. HeaderRows \in {0, 1}
      BY <1>1, <1>2, RowsColumnsAre
    <2> QED
      BY <1>1, <1>2, <2>2, <2>3
  <1>4. columns = table.columns /\ AreColumns(columns)
    BY <1>1, <1>2, <1>3, RowsColumnsAre
  <1>5. Encoded(text) \in Seq(Byte)
    BY <1>1, TextsHave DEF EncodesText
  <1>6. ASSUME NEW i \in DOMAIN columns PROVE Row(columns, file, at)[i] = CellName(columns[i], 0)
    <2>1. i \in ColumnsRead(columns, file, at)
      OBVIOUS
    <2> QED
      BY <1>4, <1>5, <2>1, RowOfZeros
  <1>7. Row(columns, file, at) = [i \in DOMAIN columns |-> Row(columns, file, at)[i]]
    BY DEF Row
  <1>8. [i \in DOMAIN columns |-> Row(columns, file, at)[i]] = [i \in DOMAIN columns |-> CellName(columns[i], 0)]
    BY <1>6, Zenon
  <1> QED
    BY <1>4, <1>7, <1>8

LEMMA AppendedRow ==
    ASSUME NEW text, NEW rows \in Seq(RowShapes), RowsRight(text, rows),
           NEW k \in Nat, k = Len(rows), NEW row \in RowShapes, row = RowOf(text, k + 1)
    PROVE  Len(Append(rows, row)) = k + 1 /\ RowsRight(text, Append(rows, row))
  <1> DEFINE more == Append(rows, row)
  <1>1. /\ Len(more) = k + 1 /\ \A i \in 1 .. k : more[i] = rows[i]
        /\ more[k + 1] = row
    BY AppendProperties
  <1> HIDE DEF more
  <1>2. \A i \in 1 .. k : rows[i] = RowOf(text, i)
    BY DEF RowsRight
  <1>3. ASSUME NEW i \in 1 .. k + 1 PROVE more[i] = RowOf(text, i)
    <2>1. CASE i = k + 1
      BY <1>1, <2>1
    <2>2. CASE i # k + 1
      <3>1. i \in 1 .. k
        BY <2>2
      <3> QED
        BY <1>1, <1>2, <3>1
    <2> QED
      BY <2>1, <2>2
  <1>4. RowsRight(text, more)
    BY <1>1, <1>3 DEF RowsRight
  <1> QED
    BY <1>1, <1>4 DEF more

LEMMA ReadRightStep ==
    ASSUME NEW text, EncodesText(text), NEW ends, RowEnds(text, ends),
           NEW file \in Seq(Byte), BeginsAs(file, Encoded(text)),
           NEW s \in ReadStates, ReadRight(text, ends, s)
    PROVE  ReadRight(text, ends, DecodeRow(file, s))
  <1>1. CASE s.end # "no"
    BY <1>1, DecodeRowStays
  <1>2. CASE s.end = "no"
    <2>1. /\ text \in Seq(Seq(Cells)) /\ table \in TableDefinitions
          /\ s.rows \in Seq(RowShapes) /\ s.at \in Nat
      BY DEF EncodesText, ReadStates
    <2>2. PICK k \in Nat, l \in Nat : k = Len(s.rows) /\ l = Len(text)
      BY <2>1, LenProperties
    <2>3. PICK columns : columns = RowsColumns(k + 1)
      OBVIOUS
    <2>4. AreColumns(columns) /\ Len(columns) \in Nat \ {0}
      <3>1. k + 1 \in Nat \ {0}
        OBVIOUS
      <3> QED
        BY <2>1, <2>3, <3>1, RowsColumnsAre
    <2>5. PICK at \in Nat, size \in Nat : at = s.at /\ size = FieldsEnd(columns, Len(columns))
      BY <2>1, <2>4, ColumnsAre
    <2>6. PICK whole \in Nat : whole = Len(Encoded(text))
      <3>1. Encoded(text) \in Seq(Byte)
        BY <2>1, TextsHave DEF EncodesText
      <3> QED
        BY <3>1, LenProperties
    <2>7. /\ RowsRight(text, s.rows)
          /\ k <= l => at = ends[k]
          /\ ~(k <= l) => whole <= at
      BY <1>2, <2>2, <2>5, <2>6 DEF ReadRight, Raises
    <2>8. ends[l] = whole
      BY <2>2, <2>6 DEF RowEnds
    <2> DEFINE row == Row(columns, file, at)
    <2>9. row \in RowShapes
      BY <2>4, RowIs
    <2>10. CASE ColumnsRead(columns, file, s.at) = DOMAIN columns
      <3>1. DecodeRow(file, s) = [rows |-> Append(s.rows, row), at |-> at + size, end |-> "no"]
        BY <1>2, <2>1, <2>2, <2>3, <2>5, <2>10, DecodeRowIs
      <3>2. ASSUME k + 1 <= l PROVE row = RowOf(text, k + 1) /\ at + size = ends[k + 1]
        <4>1. k + 1 \in 1 .. Len(text) /\ (k + 1) - 1 = k /\ k <= l
          BY <2>2, <3>2
        <4>2. /\ Row(columns, file, ends[(k + 1) - 1]) = Normal(text)[k + 1]
              /\ ends[k + 1] = ends[(k + 1) - 1] + FieldsEnd(columns, Len(columns))
          BY <2>3, <2>5, <2>7, <2>10, <4>1, RowOfText
        <4> QED
          BY <2>2, <2>5, <2>7, <3>2, <4>1, <4>2 DEF RowOf
      <3>3. ASSUME ~(k + 1 <= l) PROVE row = RowOf(text, k + 1) /\ whole <= at
        <4>1. k + 1 \in Nat /\ Len(text) < k + 1 /\ (k <= l => k = l)
          BY <2>2, <3>3
        <4>2. whole <= at
          BY <2>7, <2>8, <4>1
        <4>3. row = [i \in DOMAIN table.columns |-> CellName(table.columns[i], 0)]
          BY <2>3, <2>5, <2>6, <2>10, <4>1, <4>2, RowOfPadding
        <4> QED
          BY <2>2, <3>3, <4>2, <4>3 DEF RowOf
      <3>4. row = RowOf(text, k + 1)
        BY <3>2, <3>3
      <3>5. Len(Append(s.rows, row)) = k + 1 /\ RowsRight(text, Append(s.rows, row))
        BY <2>1, <2>2, <2>7, <2>9, <3>4, AppendedRow
      <3>6. IF k + 1 <= l THEN at + size = ends[k + 1] ELSE whole <= at + size
        BY <3>2, <3>3
      <3> HIDE DEF row
      <3> QED
        BY <2>2, <2>6, <3>1, <3>5, <3>6 DEF ReadRight
    <2>11. CASE ColumnsRead(columns, file, s.at) = {}
      <3>1. DecodeRow(file, s) = [rows |-> s.rows, at |-> s.at,
                                  end |-> IF k >= HeaderRows THEN "end" ELSE Raises]
        BY <1>2, <2>1, <2>2, <2>3, <2>11, DecodeRowIs
      <3> QED
        BY <2>7, <3>1 DEF ReadRight, Raises
    <2>12. CASE ColumnsRead(columns, file, s.at) # {} /\ ColumnsRead(columns, file, s.at) # DOMAIN columns
      <3>1. DecodeRow(file, s) = [rows |-> Append(s.rows, Row(columns, file, s.at)), at |-> s.at, end |-> Raises]
        BY <1>2, <2>2, <2>3, <2>12, DecodeRowRaises
      <3> QED
        BY <3>1 DEF ReadRight, Raises
    <2> QED
      BY <2>10, <2>11, <2>12
  <1> QED
    BY <1>1, <1>2

LEMMA AllReadRight ==
    ASSUME NEW text, EncodesText(text), NEW ends, RowEnds(text, ends),
           NEW file \in Seq(Byte), BeginsAs(file, Encoded(text)),
           NEW n \in Nat, NEW f, DecodesAs(file, n, f)
    PROVE  \A i \in 0 .. n : ReadRight(text, ends, f[i])
  <1> DEFINE T == {i \in Nat : i <= n => ReadRight(text, ends, f[i])}
  <1>1. 0 \in T
    <2>1. f[0] = NothingRead
      BY DEF DecodesAs
    <2>2. Len(<<>>) = 0 /\ 0 <= Len(text) /\ ends[0] = 0
      <3>1. Len(text) \in Nat
        BY LenProperties DEF EncodesText
      <3> QED
        BY <3>1, EmptySeq DEF RowEnds
    <2>3. ReadRight(text, ends, f[0])
      BY <2>1, <2>2 DEF ReadRight, RowsRight, NothingRead, Raises
    <2> QED
      BY <2>3
  <1>2. ASSUME NEW i \in Nat, i \in T PROVE i + 1 \in T
    <2>1. CASE i + 1 <= n
      <3>1. i + 1 \in 1 .. n /\ (i + 1) - 1 = i /\ i <= n /\ i \in 0 .. n
        BY <2>1
      <3>2. f[i + 1] = DecodeRow(file, f[i]) /\ f[i] \in ReadStates
        BY <3>1 DEF DecodesAs
      <3>3. ReadRight(text, ends, f[i])
        BY <1>2, <3>1
      <3>4. ReadRight(text, ends, f[i + 1])
        BY <3>2, <3>3, ReadRightStep
      <3> QED
        BY <3>4
    <2>2. CASE ~(i + 1 <= n)
      BY <2>2
    <2> QED
      BY <2>1, <2>2
  <1> HIDE DEF T
  <1>3. \A i \in Nat : i \in T
    BY <1>1, <1>2, SetInduction
  <1> QED
    BY <1>3 DEF T

\* All the rows are read when no byte is missing.
LEMMA RowThere ==
    ASSUME NEW text, EncodesText(text), NEW ends, RowEnds(text, ends), NEW k \in 1 .. Len(text),
           NEW file \in Seq(Byte), Len(file) = Len(Encoded(text)),
           NEW columns, columns = RowsColumns(k)
    PROVE  /\ ColumnsRead(columns, file, ends[k - 1]) = DOMAIN columns
           /\ ends[k - 1] + 1 <= ends[k]
  <1>1. text \in Seq(Seq(Cells)) /\ table \in TableDefinitions /\ DOMAIN text = 1 .. Len(text)
    BY LenProperties DEF EncodesText
  <1>2. k \in Nat \ {0} /\ k - 1 \in 0 .. Len(text) /\ k \in 0 .. Len(text) /\ Len(text) \in Nat
    BY <1>1, LenProperties
  <1>3. AreColumns(columns)
    BY <1>1, <1>2, RowsColumnsAre
  <1>4. PICK n \in Nat \ {0} : n = Len(columns)
    BY <1>1, <1>2, RowsColumnsAre
  <1>5. PICK row \in Seq(Cells) : row = text[k]
    BY <1>1, ElementOfSeq
  <1>6. EncodesRow(columns, row) /\ Len(row) >= Len(columns)
    BY <1>1, <1>5 DEF EncodesText, RowsEncode, Fits
  <1>7. PICK from \in Nat, to \in Nat : from = ends[k - 1] /\ to = ends[k]
    BY <1>2 DEF RowEnds
  <1>8. PICK size \in Nat : size = FieldsEnd(columns, n)
    BY <1>3, <1>4, ColumnsAre
  <1>9. Len(RowBytes(columns, row)) = size
    BY <1>3, <1>4, <1>6, <1>8, RowsHave
  <1>10. to = from + size /\ from + size <= Len(file)
    BY <1>5, <1>7, <1>9 DEF RowEnds, FoundAt
  <1>11. PICK whole \in Nat : whole = Len(file)
    BY LenProperties
  <1>12. /\ DOMAIN columns = 1 .. n
         /\ \A i \in 1 .. n : columns[i].type.nbytes \in Nat \ {0}
         /\ \A i \in 0 .. n : FieldsEnd(columns, i) \in Nat
         /\ FieldsEnd(columns, 0) = 0
         /\ \A i \in 1 .. n : FieldsEnd(columns, i) = FieldsEnd(columns, i - 1) + columns[i].type.nbytes
    BY <1>3, <1>4, ColumnsAre
  <1>13. \A i \in 1 .. n : columns[i].type.nbytes \in Nat
    BY <1>12
  <1>14. ASSUME NEW i \in 1 .. n PROVE FieldsEnd(columns, i) <= size
    <2>1. i \in 0 .. n /\ n \in i .. n
      OBVIOUS
    <2> QED
      BY <1>8, <1>13, <2>1, FieldsEndGrows
  <1>15. ASSUME NEW i \in 1 .. n PROVE from + FieldsEnd(columns, i) <= whole
    <2>1. PICK e \in Nat : e = FieldsEnd(columns, i)
      BY <1>12
    <2> QED
      BY <1>10, <1>11, <1>14, <2>1
  <1>16. ColumnsRead(columns, file, from) = DOMAIN columns
    BY <1>11, <1>12, <1>15 DEF ColumnsRead
  <1>17. 1 <= size
    <2>1. 1 \in 1 .. n /\ 1 - 1 = 0
      OBVIOUS
    <2>2. FieldsEnd(columns, 1) = columns[1].type.nbytes /\ columns[1].type.nbytes \in Nat \ {0}
      BY <1>12, <2>1
    <2>3. FieldsEnd(columns, 1) <= size
      BY <1>14, <2>1
    <2> QED
      BY <2>2, <2>3
  <1> QED
    BY <1>7, <1>10, <1>16, <1>17

\* So that there are no more of them than bytes.
LEMMA FewRows ==
    ASSUME NEW text, EncodesText(text)
    PROVE  Len(text) <= Len(Encoded(text))
  <1>1. text \in Seq(Seq(Cells)) /\ table \in TableDefinitions
    BY DEF EncodesText
  <1>2. Encoded(text) \in Seq(Byte)
    BY <1>1, TextsHave DEF EncodesText
  <1>3. PICK ends : RowEnds(text, ends)
    BY <1>1, TextsHave DEF EncodesText
  <1>4. PICK n \in Nat : n = Len(text)
    BY <1>1, LenProperties
  <1> DEFINE T == {i \in Nat : i <= n => i <= ends[i]}
  <1>5. 0 \in T
    BY <1>3 DEF RowEnds
  <1>6. ASSUME NEW i \in Nat, i \in T PROVE i + 1 \in T
    <2>1. CASE i + 1 <= n
      <3>1. i + 1 \in 1 .. Len(text) /\ (i + 1) - 1 = i /\ i \in 0 .. Len(text) /\ i + 1 \in 0 .. Len(text)
        BY <1>4, <2>1
      <3>2. ends[(i + 1) - 1] + 1 <= ends[i + 1]
        BY <1>2, <1>3, <3>1, RowThere
      <3>3. PICK x \in Nat, y \in Nat : x = ends[i] /\ y = ends[i + 1]
        BY <1>3, <3>1 DEF RowEnds
      <3>4. i <= x
        BY <1>4, <1>6, <3>1, <3>3
      <3>5. i + 1 <= y
        BY <3>1, <3>2, <3>3, <3>4
      <3> QED
        BY <3>3, <3>5
    <2>2. CASE ~(i + 1 <= n)
      BY <2>2
    <2> QED
      BY <2>1, <2>2
  <1> HIDE DEF T
  <1>7. n \in T
    BY <1>5, <1>6, SetInduction
  <1> QED
    BY <1>3, <1>4, <1>7 DEF T, RowEnds

\* One row more, or the end of the file behind the last.
LEMMA ReadsOne ==
    ASSUME NEW text, EncodesText(text), NEW ends, RowEnds(text, ends),
           NEW file \in Seq(Byte), Len(file) = Len(Encoded(text)),
           NEW s \in ReadStates, ReadRight(text, ends, s), s.end = "no",
           NEW k \in Nat, k = Len(s.rows), k < Len(text)
    PROVE  DecodeRow(file, s).end = "no" /\ Len(DecodeRow(file, s).rows) = k + 1
  <1>1. /\ text \in Seq(Seq(Cells)) /\ table \in TableDefinitions
        /\ s.rows \in Seq(RowShapes) /\ s.at \in Nat
    BY DEF EncodesText, ReadStates
  <1>2. PICK l \in Nat : l = Len(text)
    BY <1>1, LenProperties
  <1>3. k + 1 \in 1 .. Len(text) /\ (k + 1) - 1 = k /\ k + 1 \in Nat \ {0} /\ k <= l
    BY <1>2
  <1>4. PICK columns : columns = RowsColumns(k + 1)
    OBVIOUS
  <1>5. AreColumns(columns)
    BY <1>1, <1>3, <1>4, RowsColumnsAre
  <1>6. s.at = ends[k]
    BY <1>2, <1>3 DEF ReadRight
  <1>7. ColumnsRead(columns, file, ends[(k + 1) - 1]) = DOMAIN columns
    BY <1>3, <1>4, RowThere
  <1>8. ColumnsRead(columns, file, s.at) = DOMAIN columns
    BY <1>3, <1>6, <1>7
  <1>9. DecodeRow(file, s) = [rows |-> Append(s.rows, Row(columns, file, s.at)),
                              at   |-> s.at + FieldsEnd(columns, Len(columns)),
                              end  |-> "no"]
    BY <1>1, <1>4, <1>8, DecodeRowIs
  <1>10. Row(columns, file, s.at) \in RowShapes
    BY <1>1, <1>5, RowIs
  <1>11. Len(Append(s.rows, Row(columns, file, s.at))) = k + 1
    BY <1>1, <1>10, AppendProperties
  <1> QED
    BY <1>9, <1>11

LEMMA ReadsTheEnd ==
    ASSUME NEW text, EncodesText(text), NEW ends, RowEnds(text, ends), text # <<>>,
           NEW file \in Seq(Byte), Len(file) = Len(Encoded(text)),
           NEW s \in ReadStates, ReadRight(text, ends, s), s.end = "no", Len(s.rows) = Len(text)
    PROVE  DecodeRow(file, s).end = "end" /\ DecodeRow(file, s).rows = s.rows
  <1>1. /\ text \in Seq(Seq(Cells)) /\ table \in TableDefinitions
        /\ s.rows \in Seq(RowShapes)
    BY DEF EncodesText, ReadStates
  <1>2. PICK l \in Nat \ {0} : l = Len(text)
    BY <1>1, EmptySeq
  <1>3. PICK columns : columns = RowsColumns(l + 1)
    OBVIOUS
  <1>4. AreColumns(columns)
    <2>1. l + 1 \in Nat \ {0}
      OBVIOUS
    <2> QED
      BY <1>1, <1>3, <2>1, RowsColumnsAre
  <1>5. PICK whole \in Nat : whole = Len(file)
    BY LenProperties
  <1>6. s.at = whole
    <2>1. ends[l] = whole
      BY <1>2, <1>5 DEF RowEnds
    <2>2. s.at = ends[l]
      BY <1>2 DEF ReadRight
    <2> QED
      BY <2>1, <2>2
  <1>7. /\ DOMAIN columns = 1 .. Len(columns) /\ Len(columns) \in Nat
        /\ \A i \in 1 .. Len(columns) : columns[i].type.nbytes \in Nat \ {0}
        /\ \A i \in 0 .. Len(columns) : FieldsEnd(columns, i) \in Nat
        /\ \A i \in 1 .. Len(columns) : FieldsEnd(columns, i) = FieldsEnd(columns, i - 1) + columns[i].type.nbytes
    BY <1>4, ColumnsAre
  <1>8. ASSUME NEW i \in DOMAIN columns PROVE ~(s.at + FieldsEnd(columns, i) <= Len(file))
    <2>1. i \in 1 .. Len(columns) /\ i \in 0 .. Len(columns) /\ i - 1 \in 0 .. Len(columns)
      BY <1>7
    <2>2. PICK x \in Nat, y \in Nat, n \in Nat \ {0} :
             x = FieldsEnd(columns, i - 1) /\ y = FieldsEnd(columns, i) /\ n = columns[i].type.nbytes
      BY <1>7, <2>1
    <2>3. y = x + n
      BY <1>7, <2>1, <2>2
    <2> QED
      BY <1>5, <1>6, <2>2, <2>3
  <1>9. ColumnsRead(columns, file, s.at) = {}
    BY <1>8 DEF ColumnsRead
  <1>10. DecodeRow(file, s) = [rows |-> s.rows, at |-> s.at,
                               end  |-> IF l >= HeaderRows THEN "end" ELSE Raises]
    BY <1>1, <1>2, <1>3, <1>9, DecodeRowIs
  <1>11. l >= HeaderRows
    <2>1. HeaderRows \in {0, 1}
      BY <1>1, <1>2, RowsColumnsAre
    <2> QED
      BY <2>1
  <1> QED
    BY <1>10, <1>11

\* The rows of a text, and no more.
LEMMA RowsAreNormal ==
    ASSUME NEW text, EncodesText(text), NEW rows \in Seq(RowShapes), RowsRight(text, rows), Len(rows) = Len(text)
    PROVE  rows = Normal(text)
  <1>1. text \in Seq(Seq(Cells))
    BY DEF EncodesText
  <1>2. PICK n \in Nat : n = Len(text)
    BY <1>1, LenProperties
  <1>3. DOMAIN rows = 1 .. n /\ DOMAIN text = 1 .. n /\ rows = [k \in 1 .. n |-> rows[k]]
    BY <1>1, <1>2, LenProperties
  <1>4. DOMAIN Normal(text) = 1 .. n
    BY <1>3 DEF Normal
  <1>5. \E F : Normal(text) = [k \in 1 .. n |-> F[k]]
    <2>1. Normal(text) = [k \in 1 .. n |-> Normal(text)[k]]
      BY <1>3 DEF Normal
    <2> QED
      BY <2>1
  <1>6. Normal(text) = [k \in 1 .. n |-> Normal(text)[k]]
    BY <1>4, <1>5
  <1>7. \A k \in 1 .. n : rows[k] = Normal(text)[k]
    BY <1>2 DEF RowsRight, RowOf
  <1>8. [k \in 1 .. n |-> rows[k]] = [k \in 1 .. n |-> Normal(text)[k]]
    BY <1>7, Zenon
  <1> QED
    BY <1>3, <1>6, <1>8

\* A file with all the bytes of a text reads back.
LEMMA ReadsAll ==
    ASSUME NEW text, EncodesText(text), text # <<>>,
           NEW file \in Seq(Byte), BeginsAs(file, Encoded(text)), Len(file) = Len(Encoded(text))
    PROVE  Decoded(file).end = "end" /\ Decoded(file).rows = Normal(text)
  <1>1. text \in Seq(Seq(Cells)) /\ table \in TableDefinitions
    BY DEF EncodesText
  <1>2. PICK ends : RowEnds(text, ends)
    BY <1>1, TextsHave DEF EncodesText
  <1>3. PICK l \in Nat : l = Len(text)
    BY <1>1, LenProperties
  <1>4. PICK n \in Nat : n = Len(file) + 1 /\ l + 1 <= n
    <2>1. PICK m \in Nat : m = Len(file)
      BY LenProperties
    <2>2. l <= m
      BY <1>3, <2>1, FewRows
    <2> QED
      BY <2>1, <2>2
  <1>5. PICK f : DecodesAs(file, n, f) /\ Decoded(file) = f[n]
    BY <1>1, <1>4, DecodedIs
  <1>6. \A i \in 0 .. n : ReadRight(text, ends, f[i]) /\ f[i] \in ReadStates
    BY <1>2, <1>5, AllReadRight DEF DecodesAs
  <1>7. f[0] = NothingRead /\ \A i \in 1 .. n : f[i] = DecodeRow(file, f[i - 1])
    BY <1>5 DEF DecodesAs
  <1> DEFINE Read(i) == f[i].end = "no" /\ Len(f[i].rows) = i
             T == {i \in Nat : i <= l => Read(i)}
  <1>8. 0 \in T
    <2>1. Read(0)
      BY <1>7, EmptySeq DEF NothingRead
    <2> QED
      BY <2>1
  <1>9. ASSUME NEW i \in Nat, i \in T PROVE i + 1 \in T
    <2>1. CASE i + 1 <= l
      <3>1. i + 1 \in 1 .. n /\ (i + 1) - 1 = i /\ i \in 0 .. n /\ i <= l /\ i < Len(text)
        BY <1>3, <1>4, <2>1
      <3>2. Read(i)
        BY <1>9, <3>1
      <3>3. f[i + 1] = DecodeRow(file, f[i])
        BY <1>7, <3>1
      <3>4. DecodeRow(file, f[i]).end = "no" /\ Len(DecodeRow(file, f[i]).rows) = i + 1
        BY <1>2, <1>6, <3>1, <3>2, ReadsOne
      <3>5. Read(i + 1)
        BY <3>3, <3>4
      <3> HIDE DEF Read
      <3> QED
        BY <3>5
    <2>2. CASE ~(i + 1 <= l)
      BY <2>2
    <2> QED
      BY <2>1, <2>2
  <1> HIDE DEF T
  <1>10. l \in T
    BY <1>8, <1>9, SetInduction
  <1>11. Read(l) /\ l \in 0 .. n /\ l + 1 \in 0 .. n /\ l + 1 \in 1 .. n /\ (l + 1) - 1 = l
    BY <1>4, <1>10 DEF T
  <1> DEFINE Ended(s) == s.end = "end" /\ s.rows = f[l].rows
  <1>12. Ended(f[l + 1])
    <2>1. f[l + 1] = DecodeRow(file, f[l])
      BY <1>7, <1>11
    <2>2. Len(f[l].rows) = Len(text) /\ f[l].end = "no" /\ f[l] \in ReadStates /\ ReadRight(text, ends, f[l])
      BY <1>3, <1>6, <1>11
    <2>3. DecodeRow(file, f[l]).end = "end" /\ DecodeRow(file, f[l]).rows = f[l].rows
      BY <1>2, <2>2, ReadsTheEnd
    <2> QED
      BY <2>1, <2>3
  <1> DEFINE U == {d \in Nat : l + 1 + d <= n => Ended(f[l + 1 + d])}
  <1>13. 0 \in U
    <2>1. l + 1 + 0 = l + 1
      OBVIOUS
    <2> HIDE DEF Ended
    <2> QED
      BY <1>12, <2>1
  <1>14. ASSUME NEW d \in Nat, d \in U PROVE d + 1 \in U
    <2>1. CASE l + 1 + (d + 1) <= n
      <3>1. l + 1 + (d + 1) \in 1 .. n /\ (l + 1 + (d + 1)) - 1 = l + 1 + d /\ l + 1 + d <= n
        BY <2>1
      <3>2. Ended(f[l + 1 + d])
        BY <1>14, <3>1
      <3>3. f[l + 1 + (d + 1)] = DecodeRow(file, f[l + 1 + d])
        BY <1>7, <3>1
      <3>4. DecodeRow(file, f[l + 1 + d]) = f[l + 1 + d]
        BY <3>2, DecodeRowStays
      <3>5. Ended(f[l + 1 + (d + 1)])
        BY <3>2, <3>3, <3>4
      <3> HIDE DEF Ended
      <3> QED
        BY <3>5
    <2>2. CASE ~(l + 1 + (d + 1) <= n)
      BY <2>2
    <2> QED
      BY <2>1, <2>2
  <1> HIDE DEF U
  <1>15. n - (l + 1) \in Nat /\ l + 1 + (n - (l + 1)) = n
    BY <1>4
  <1>16. n - (l + 1) \in U
    BY <1>13, <1>14, <1>15, SetInduction
  <1>17. Ended(f[n])
    <2> HIDE DEF Ended
    <2> QED
      BY <1>15, <1>16 DEF U
  <1>18. f[l].rows = Normal(text)
    <2>1. f[l].rows \in Seq(RowShapes)
      BY <1>6, <1>11 DEF ReadStates
    <2>2. RowsRight(text, f[l].rows)
      BY <1>6, <1>11 DEF ReadRight, Raises
    <2> QED
      BY <1>3, <1>11, <2>1, <2>2, RowsAreNormal
  <1> QED
    BY <1>5, <1>17, <1>18

\* The first of the bytes, and padding, decode to the first of the rows and rows of zeros.
LEMMA ReadsTheFirst ==
    ASSUME NEW text, EncodesText(text), NEW file \in Seq(Byte), BeginsAs(file, Encoded(text)),
           Decoded(file).end = "end"
    PROVE  RowsRight(text, Decoded(file).rows)
  <1>1. text \in Seq(Seq(Cells)) /\ table \in TableDefinitions
    BY DEF EncodesText
  <1>2. PICK ends : RowEnds(text, ends)
    BY <1>1, TextsHave DEF EncodesText
  <1>3. PICK n \in Nat : n = Len(file) + 1
    BY LenProperties
  <1>4. PICK f : DecodesAs(file, n, f) /\ Decoded(file) = f[n]
    BY <1>1, <1>3, DecodedIs
  <1>5. ReadRight(text, ends, f[n])
    <2>1. n \in 0 .. n
      OBVIOUS
    <2> QED
      BY <1>2, <1>4, <2>1, AllReadRight
  <1> QED
    BY <1>4, <1>5 DEF ReadRight, Raises

LEMMA FirstOfRows ==
    ASSUME NEW text, EncodesText(text), NEW rows \in Seq(RowShapes), RowsRight(text, rows)
    PROVE  IsPrefix(rows, Normal(text) \o [k \in 1 .. Len(rows) |->
                             [i \in DOMAIN table.columns |-> CellName(table.columns[i], 0)]])
  <1>1. text \in Seq(Seq(Cells))
    BY DEF EncodesText
  <1>2. PICK n \in Nat, m \in Nat : n = Len(text) /\ m = Len(rows)
    BY <1>1, LenProperties
  <1> DEFINE zero == [i \in DOMAIN table.columns |-> CellName(table.columns[i], 0)]
             first == Normal(text)
  <1>3. PICK zeros : zeros = [k \in 1 .. m |-> zero]
    OBVIOUS
  <1>4. DOMAIN text = 1 .. n
    BY <1>1, <1>2, LenProperties
  <1>5. DOMAIN first = 1 .. n /\ first = [k \in 1 .. n |-> first[k]]
    BY <1>4 DEF Normal
  <1> DEFINE S == {first[k] : k \in 1 .. n} \cup {zero} \cup RowShapes
  <1>6. \A k \in 1 .. m : rows[k] = IF k <= n THEN first[k] ELSE zero
    BY <1>2 DEF RowsRight, RowOf
  <1>7. zero \in S /\ (\A k \in 1 .. n : first[k] \in S) /\ rows \in Seq(S)
    <2>1. RowShapes \subseteq S
      OBVIOUS
    <2> HIDE DEF S
    <2>2. rows \in [1 .. m -> S]
      <3>1. rows \in [1 .. m -> RowShapes]
        BY <1>2, LenProperties
      <3> QED
        BY <2>1, <3>1
    <2>3. rows \in Seq(S)
      BY <2>2
    <2> QED
      BY <2>3 DEF S
  <1> HIDE DEF S, zero, first
  <1>8. first \in Seq(S) /\ Len(first) = n
    <2>1. first \in [1 .. n -> S]
      BY <1>5, <1>7
    <2>2. first \in Seq(S)
      BY <2>1
    <2>3. 1 .. Len(first) = 1 .. n /\ Len(first) \in Nat
      BY <1>5, <2>2, LenProperties
    <2> QED
      BY <2>2, <2>3
  <1>9. zeros \in Seq(S) /\ Len(zeros) = m
    BY <1>3, <1>7
  <1>10. /\ Len(first \o zeros) = n + m
         /\ \A k \in 1 .. n + m : (first \o zeros)[k] = IF k <= n THEN first[k] ELSE zeros[k - n]
    BY <1>8, <1>9, ConcatProperties
  <1>11. ASSUME NEW k \in 1 .. m PROVE rows[k] = (first \o zeros)[k]
    <2>1. k \in 1 .. n + m
      OBVIOUS
    <2>2. CASE k <= n
      BY <1>6, <1>10, <2>1, <2>2
    <2>3. CASE ~(k <= n)
      <3>1. k - n \in 1 .. m
        BY <2>3
      <3>2. zeros[k - n] = zero
        BY <1>3, <3>1
      <3> QED
        BY <1>6, <1>10, <2>1, <2>3, <3>2
    <2> QED
      BY <2>2, <2>3
  <1> DEFINE whole == first \o zeros
  <1>12. \A k \in 1 .. m : rows[k] = whole[k] /\ whole[k] \in S
    <2>1. \A k \in 1 .. m : rows[k] \in S
      BY <1>2, <1>7, ElementOfSeq
    <2> QED
      BY <1>11, <2>1
  <1>13. Len(whole) = n + m
    BY <1>10
  <1> HIDE DEF whole
  <1>14. SubSeq(rows, 1, m) = rows
    BY <1>2, SubSeqFull
  <1>15. /\ SubSeq(whole, 1, m) \in Seq(S) /\ Len(SubSeq(whole, 1, m)) = m
         /\ \A k \in 1 .. m : SubSeq(whole, 1, m)[k] = whole[k]
    <2>1. 1 \in Int /\ m \in Int /\ m - 1 + 1 = m /\ (IF 1 <= m THEN m - 1 + 1 ELSE 0) = m
      OBVIOUS
    <2>2. /\ SubSeq(whole, 1, m) \in Seq(S)
          /\ Len(SubSeq(whole, 1, m)) = IF 1 <= m THEN m - 1 + 1 ELSE 0
          /\ \A k \in 1 .. m - 1 + 1 : SubSeq(whole, 1, m)[k] = whole[1 + k - 1]
      BY <1>12, <2>1, SubSeqProperties
    <2>3. \A k \in 1 .. m : 1 + k - 1 = k
      OBVIOUS
    <2> QED
      BY <2>1, <2>2, <2>3
  <1>16. rows = SubSeq(whole, 1, m)
    <2>1. PICK part \in Seq(S) : part = SubSeq(whole, 1, m)
      BY <1>15
    <2>2. Len(part) = m /\ Len(rows) = m /\ \A k \in 1 .. m : part[k] = rows[k]
      BY <1>2, <1>12, <1>15, <2>1
    <2>3. part = rows
      BY <1>7, <2>2
    <2> QED
      BY <2>1, <2>3
  <1>17. IsPrefix(rows, whole)
    BY <1>2, <1>13, <1>14, <1>16 DEF IsPrefix
  <1> QED
    BY <1>2, <1>3, <1>17 DEF whole, first, zero

\* Nothing decodes to nothing.
LEMMA NothingDecoded ==
    ASSUME table \in TableDefinitions
    PROVE  Decoded(<<>>).rows = <<>>
  <1>1. PICK file \in Seq(Byte) : file = <<>> /\ Len(file) = 0
    BY EmptySeq
  <1>2. PICK f : DecodesAs(file, 1, f) /\ Decoded(file) = f[1]
    <2>1. Len(file) + 1 = 1
      BY <1>1
    <2> QED
      BY <2>1, DecodedIs
  <1>3. f[1] = DecodeRow(file, NothingRead) /\ NothingRead \in ReadStates
    <2>1. 1 \in 1 .. 1 /\ 1 - 1 = 0 /\ 0 \in 0 .. 1
      OBVIOUS
    <2> QED
      BY <1>2, <2>1 DEF DecodesAs
  <1>4. NothingRead.end = "no" /\ NothingRead.rows = <<>> /\ NothingRead.at = 0 /\ Len(<<>>) = 0
    BY EmptySeq DEF NothingRead
  <1>5. PICK columns : columns = RowsColumns(1)
    OBVIOUS
  <1>6. AreColumns(columns)
    <2>1. 1 \in Nat \ {0}
      OBVIOUS
    <2> QED
      BY <1>5, <2>1, RowsColumnsAre
  <1>7. ASSUME NEW i \in DOMAIN columns PROVE ~(0 + FieldsEnd(columns, i) <= 0)
    <2>1. /\ i \in 1 .. Len(columns) /\ i - 1 \in 0 .. Len(columns) /\ i \in 0 .. Len(columns)
      BY <1>6, ColumnsAre
    <2>2. PICK x \in Nat, y \in Nat, n \in Nat \ {0} :
             x = FieldsEnd(columns, i - 1) /\ y = FieldsEnd(columns, i) /\ n = columns[i].type.nbytes
      BY <1>6, <2>1, ColumnsAre
    <2>3. y = x + n
      BY <1>6, <2>1, <2>2, ColumnsAre
    <2> QED
      BY <2>2, <2>3
  <1>8. ColumnsRead(columns, file, NothingRead.at) = {}
    BY <1>1, <1>4, <1>7 DEF ColumnsRead
  <1>9. 0 \in Nat /\ 0 = Len(NothingRead.rows) /\ columns = RowsColumns(0 + 1)
    BY <1>4, <1>5
  <1>10. DecodeRow(file, NothingRead).rows = NothingRead.rows
    <2>1. DecodeRow(file, NothingRead) = [rows |-> NothingRead.rows, at |-> NothingRead.at,
                                          end  |-> IF 0 >= HeaderRows THEN "end" ELSE Raises]
      BY <1>3, <1>4, <1>8, <1>9, DecodeRowIs
    <2> QED
      BY <2>1
  <1> QED
    BY <1>1, <1>2, <1>3, <1>4, <1>10

\* What has been decoded is a text.
LEMMA DecodedIsText ==
    ASSUME table \in TableDefinitions, NEW file \in Seq(Byte), Decoded(file).end = "end"
    PROVE  Decoded(file).rows \in Seq(Seq(Cells)) /\ Decoded(file).rows \in Seq(RowShapes)
  <1>1. PICK n \in Nat : n = Len(file) + 1
    BY LenProperties
  <1>2. PICK f : DecodesAs(file, n, f) /\ Decoded(file) = f[n]
    BY <1>1, DecodedIs
  <1>3. f[n] \in ReadStates
    BY <1>2 DEF DecodesAs
  <1> QED
    BY <1>2, <1>3 DEF ReadStates, Raises

LEMMA RowsOfDecoded ==
    ASSUME table \in TableDefinitions, NEW file \in Seq(Byte)
    PROVE  Decoded(file).rows \in Seq(RowShapes)
  <1>1. PICK n \in Nat : n = Len(file) + 1
    BY LenProperties
  <1>2. PICK f : DecodesAs(file, n, f) /\ Decoded(file) = f[n]
    BY <1>1, DecodedIs
  <1>3. f[n] \in ReadStates
    BY <1>2 DEF DecodesAs
  <1> QED
    BY <1>2, <1>3 DEF ReadStates

\* The file of bytes has those of the text it was encoded from, or the first of them, and
\* padding of zeros behind them.
TableWritten == /\ binary \in Seq(Byte)
           /\ size0 \in Nat
           /\ Len(binary) <= size0
           /\ source0 \in Seq(Seq(Cells))
           /\ \/ source0 = <<>> /\ binary = <<>>
              \/ RowsEncode(source0) /\ BeginsAs(binary, Encoded(source0))

TableInv == /\ table \in TableDefinitions
             /\ runs \in 0 .. MaxRuns
             /\ source \in Seq(Seq(Cells))
             /\ decoded \in Seq(Seq(Cells))
             /\ TableWritten

LEMMA FirstOf ==
    ASSUME NEW S, NEW s \in Seq(S), NEW n \in 0 .. Len(s)
    PROVE  /\ SubSeq(s, 1, n) \in Seq(S) /\ Len(SubSeq(s, 1, n)) = n
           /\ \A k \in 1 .. n : SubSeq(s, 1, n)[k] = s[k]
  <1>1. Len(s) \in Nat /\ n \in Nat /\ 1 \in Int /\ n \in Int
    BY LenProperties
  <1>2. \A k \in 1 .. n : s[k] \in S
    BY <1>1, ElementOfSeq
  <1>3. /\ SubSeq(s, 1, n) \in Seq(S)
        /\ Len(SubSeq(s, 1, n)) = IF 1 <= n THEN n - 1 + 1 ELSE 0
        /\ \A k \in 1 .. n - 1 + 1 : SubSeq(s, 1, n)[k] = s[1 + k - 1]
    BY <1>1, <1>2, SubSeqProperties
  <1>4. (IF 1 <= n THEN n - 1 + 1 ELSE 0) = n /\ n - 1 + 1 = n /\ \A k \in 1 .. n : 1 + k - 1 = k
    BY <1>1
  <1> QED
    BY <1>3, <1>4

LEMMA RestOf ==
    ASSUME NEW S, NEW s \in Seq(S)
    PROVE  SubSeq(s, 2, Len(s)) \in Seq(S)
  <1>1. Len(s) \in Int /\ 2 \in Int
    BY LenProperties
  <1>2. \A k \in 2 .. Len(s) : s[k] \in S
    <2>1. \A k \in 2 .. Len(s) : k \in 1 .. Len(s)
      BY <1>1
    <2> QED
      BY <2>1, ElementOfSeq
  <1> QED
    BY <1>1, <1>2, SubSeqProperties

LEMMA PaddedIs ==
    ASSUME NEW bytes \in Seq(Byte), table.size \in Nat
    PROVE  Padded(bytes) \in Seq(Byte) /\ BeginsAs(Padded(bytes), bytes)
  <1>1. PICK n \in Nat, size \in Nat : n = Len(bytes) /\ size = table.size
    BY LenProperties
  <1>2. PICK zeros : zeros = [i \in 1 .. size - n |-> 0]
    OBVIOUS
  <1>3. PICK m \in Nat : 1 .. size - n = 1 .. m
    <2>1. CASE n <= size
      <3>1. size - n \in Nat
        BY <2>1
      <3> QED
        BY <3>1
    <2>2. CASE ~(n <= size)
      <3>1. 1 .. size - n = 1 .. 0
        BY <2>2
      <3> QED
        BY <3>1
    <2> QED
      BY <2>1, <2>2
  <1>4. zeros \in [1 .. m -> Byte] /\ \A k \in 1 .. m : zeros[k] = 0
    <2>1. 0 \in Byte
      BY DEF Byte
    <2> QED
      BY <1>2, <1>3, <2>1
  <1>5. zeros \in Seq(Byte)
    BY <1>4
  <1>6. Len(zeros) = m
    BY <1>4
  <1>7. /\ bytes \o zeros \in Seq(Byte) /\ Len(bytes \o zeros) = n + m
        /\ \A k \in 1 .. n + m : (bytes \o zeros)[k] = IF k <= n THEN bytes[k] ELSE zeros[k - n]
    BY <1>1, <1>5, <1>6, ConcatProperties
  <1>8. ASSUME NEW k \in 1 .. n + m PROVE (bytes \o zeros)[k] = IF k <= n THEN bytes[k] ELSE 0
    <2>1. CASE k <= n
      BY <1>7, <2>1
    <2>2. CASE ~(k <= n)
      <3>1. k - n \in 1 .. m
        BY <2>2
      <3> QED
        BY <1>4, <1>7, <2>2, <3>1
    <2> QED
      BY <2>1, <2>2
  <1>9. Padded(bytes) = bytes \o zeros
    BY <1>1, <1>2 DEF Padded
  <1> HIDE DEF Padded
  <1>10. BeginsAs(bytes \o zeros, bytes)
    BY <1>1, <1>7, <1>8 DEF BeginsAs
  <1> QED
    BY <1>7, <1>9, <1>10

LEMMA BytesBegin ==
    ASSUME NEW bytes \in Seq(Byte)
    PROVE  BeginsAs(bytes, bytes)
  BY DEF BeginsAs

LEMMA SizesAre == table \in TableDefinitions => table.size \in Nat
  BY TablesAssumption

\* Writing a file: of what is to be written, the first bytes are.
LEMMA Writing ==
    ASSUME TableInv, RowsEncode(source), NEW bytes \in Seq(Byte), BeginsAs(bytes, Encoded(source)),
           EncodeInto(bytes)
    PROVE  TableInv'
  <1>1. PICK n \in 0 .. Len(bytes) : binary' = SubSeq(bytes, 1, n)
    BY DEF EncodeInto
  <1>2. /\ runs < MaxRuns /\ runs' = runs + 1 /\ source0' = source /\ size0' = Len(bytes)
        /\ table' = table /\ source' = source /\ decoded' = decoded
    BY DEF EncodeInto, Running
  <1>3. PICK part \in Seq(Byte) : /\ part = SubSeq(bytes, 1, n) /\ Len(part) = n
                                  /\ \A k \in 1 .. n : part[k] = bytes[k]
    BY FirstOf
  <1>4. PICK m \in Nat : m = Len(bytes)
    BY LenProperties
  <1>5. n \in Nat /\ n <= m
    BY <1>4
  <1>6. BeginsAs(part, Encoded(source))
    <2>1. \A k \in 1 .. n : k \in 1 .. m
      BY <1>5
    <2> QED
      BY <1>3, <1>4, <2>1 DEF BeginsAs
  <1>7. BeginsAs(binary', Encoded(source0)')
    <2>1. Encoded(source0)' = Encoded(source)
      BY <1>2 DEF Encoded, RowsColumns, HeaderRows
    <2> QED
      BY <1>1, <1>3, <1>6, <2>1
  <1>8. RowsEncode(source0)'
    BY <1>2 DEF RowsEncode, RowsColumns, HeaderRows
  <1>9. source \in Seq(Seq(Cells)) /\ decoded \in Seq(Seq(Cells)) /\ table \in TableDefinitions
    BY DEF TableInv
  <1>10. BeginsAs(binary, Encoded(source0))'
    BY <1>7 DEF BeginsAs
  <1>11. TableWritten'
    <2>1. binary' \in Seq(Byte) /\ size0' \in Nat /\ Len(binary)' <= size0'
      BY <1>1, <1>2, <1>3, <1>4, <1>5
    <2>2. source0' \in Seq(Seq(Cells))
      BY <1>2, <1>9
    <2> QED
      BY <1>8, <1>10, <2>1, <2>2 DEF TableWritten
  <1>12. runs' \in 0 .. MaxRuns
    BY <1>2, TablesAssumption DEF TableInv
  <1> QED
    BY <1>2, <1>9, <1>11, <1>12 DEF TableInv

LEMMA TableWrittenKeeps ==
    ASSUME TableWritten, UNCHANGED <<table, binary, source0, size0>>
    PROVE  TableWritten'
  <1>1. RowsEncode(source0)' <=> RowsEncode(source0)
    BY DEF RowsEncode, RowsColumns, HeaderRows
  <1>2. Encoded(source0)' = Encoded(source0)
    BY DEF Encoded, RowsColumns, HeaderRows
  <1>3. BeginsAs(binary, Encoded(source0))' <=> BeginsAs(binary, Encoded(source0))
    BY <1>2 DEF BeginsAs
  <1> QED
    BY <1>1, <1>3 DEF TableWritten

LEMMA TableStart == TablesInit => TableInv
  <1> SUFFICES ASSUME TablesInit PROVE TableInv
    OBVIOUS
  <1>1. <<>> \in Seq(Byte) /\ <<>> \in Seq(Seq(Cells)) /\ Len(<<>>) = 0
    BY EmptySeq
  <1>2. source \in Seq(Seq(Cells)) /\ 0 \in 0 .. MaxRuns
    BY TablesAssumption DEF TablesInit
  <1>3. TableWritten
    BY <1>1 DEF TablesInit, TableWritten
  <1> QED
    BY <1>1, <1>2, <1>3 DEF TablesInit, TableInv

LEMMA TableStep == TableInv /\ [TablesNext]_tableVars => TableInv'
  <1> SUFFICES ASSUME TableInv, [TablesNext]_tableVars PROVE TableInv'
    OBVIOUS
  <1>1. table \in TableDefinitions /\ source \in Seq(Seq(Cells)) /\ decoded \in Seq(Seq(Cells))
        /\ binary \in Seq(Byte) /\ TableWritten
    BY DEF TableInv, TableWritten
  <1>2. ASSUME RowsEncode(source) PROVE Encoded(source) \in Seq(Byte)
    BY <1>1, <1>2, TextsHave
  <1>3. CASE EncodeToFile
    <2>1. RowsEncode(source) /\ EncodeInto(Encoded(source))
      BY <1>3 DEF EncodeToFile
    <2> QED
      BY <1>2, <2>1, BytesBegin, Writing
  <1>4. CASE EncodeTool
    <2>1. RowsEncode(source) /\ EncodeInto(Padded(Encoded(source)))
      BY <1>4 DEF EncodeTool
    <2>2. Padded(Encoded(source)) \in Seq(Byte) /\ BeginsAs(Padded(Encoded(source)), Encoded(source))
      BY <1>1, <1>2, <2>1, SizesAre, PaddedIs
    <2> QED
      BY <2>1, <2>2, Writing
  <1>5. CASE EncodeNothing
    <2>1. /\ UNCHANGED <<table, source, binary, source0, size0, decoded>>
          /\ runs < MaxRuns /\ runs' = runs + 1
      BY <1>5 DEF EncodeNothing, Running
    <2>2. runs' \in 0 .. MaxRuns
      BY <2>1, TablesAssumption DEF TableInv
    <2> QED
      BY <1>1, <2>1, <2>2, TableWrittenKeeps DEF TableInv
  <1>6. ASSUME NEW rows \in Seq(Seq(Cells)), DecodeInto(rows) PROVE TableInv'
    <2>1. PICK n \in 0 .. Len(rows) : decoded' = SubSeq(rows, 1, n)
      BY <1>6 DEF DecodeInto
    <2>2. /\ UNCHANGED <<table, source, binary, source0, size0>>
          /\ runs < MaxRuns /\ runs' = runs + 1
      BY <1>6 DEF DecodeInto, Running
    <2>3. decoded' \in Seq(Seq(Cells))
      BY <2>1, FirstOf
    <2>4. runs' \in 0 .. MaxRuns
      BY <2>2, TablesAssumption DEF TableInv
    <2> QED
      BY <1>1, <2>2, <2>3, <2>4, TableWrittenKeeps DEF TableInv
  <1>7. CASE DecodeToFile
    <2>1. DecodeInto(Decoded(binary).rows) /\ Decoded(binary).end = "end"
      BY <1>7 DEF DecodeToFile, DecodeInto
    <2>2. Decoded(binary).rows \in Seq(Seq(Cells))
      BY <1>1, <2>1, DecodedIsText
    <2> QED
      BY <1>6, <2>1, <2>2
  <1>8. CASE DecodeTool
    <2>1. /\ DecodeInto(SubSeq(Decoded(binary).rows, 2, Len(Decoded(binary).rows)))
          /\ Decoded(binary).end = "end"
      BY <1>8 DEF DecodeTool, DecodeInto
    <2>2. Decoded(binary).rows \in Seq(Seq(Cells))
      BY <1>1, <2>1, DecodedIsText
    <2>3. SubSeq(Decoded(binary).rows, 2, Len(Decoded(binary).rows)) \in Seq(Seq(Cells))
      BY <2>2, RestOf
    <2> QED
      BY <1>6, <2>1, <2>3
  <1>12. CASE DecodeAsOther
    <2>1. /\ UNCHANGED <<table, source, binary, source0, size0>>
          /\ runs < MaxRuns /\ runs' = runs + 1
          /\ decoded' \in Texts
      BY <1>12 DEF DecodeAsOther, Running
    <2>2. runs' \in 0 .. MaxRuns /\ decoded' \in Seq(Seq(Cells))
      BY <2>1, TablesAssumption DEF TableInv
    <2> QED
      BY <1>1, <2>1, <2>2, TableWrittenKeeps DEF TableInv
  <1>9. CASE DecodeNothing
    <2>1. /\ UNCHANGED <<table, source, binary, source0, size0, decoded>>
          /\ runs < MaxRuns /\ runs' = runs + 1
      BY <1>9 DEF DecodeNothing, Running
    <2>2. runs' \in 0 .. MaxRuns
      BY <2>1, TablesAssumption DEF TableInv
    <2> QED
      BY <1>1, <2>1, <2>2, TableWrittenKeeps DEF TableInv
  <1>10. CASE EditText
    <2>1. UNCHANGED <<table, binary, source0, size0, decoded, runs>> /\ source' \in Texts \cup {decoded}
      BY <1>10 DEF EditText
    <2>2. source' \in Seq(Seq(Cells))
      BY <1>1, <2>1, TablesAssumption
    <2> QED
      BY <1>1, <2>1, <2>2, TableWrittenKeeps DEF TableInv
  <1>11. CASE UNCHANGED tableVars
    <2>1. UNCHANGED <<table, source, binary, source0, size0, decoded, runs>>
      BY <1>11 DEF tableVars
    <2> QED
      BY <1>1, <2>1, TableWrittenKeeps DEF TableInv
  <1> QED
    BY <1>3, <1>4, <1>5, <1>7, <1>8, <1>9, <1>10, <1>11, <1>12 DEF TablesNext

LEMMA TableIsRead == TableInv => TableReadsBack
  <1> SUFFICES ASSUME TableInv, Fits(source0) PROVE TableReadsBack
    BY DEF TableReadsBack
  <1>1. /\ table \in TableDefinitions /\ binary \in Seq(Byte) /\ source0 \in Seq(Seq(Cells))
        /\ TableWritten
    BY DEF TableInv, TableWritten
  <1> DEFINE read == Decoded(binary)
             zeros == [k \in 1 .. Len(read.rows) |-> [i \in DOMAIN table.columns |-> CellName(table.columns[i], 0)]]
  <1>2. CASE RowsEncode(source0) /\ BeginsAs(binary, Encoded(source0))
    <2>1. EncodesText(source0)
      BY <1>1, <1>2 DEF EncodesText
    <2>2. ASSUME read.end = "end" PROVE IsPrefix(read.rows, Normal(source0) \o zeros)
      <3>1. RowsRight(source0, read.rows)
        BY <1>1, <1>2, <2>1, <2>2, ReadsTheFirst
      <3>2. read.rows \in Seq(RowShapes)
        BY <1>1, RowsOfDecoded
      <3> QED
        BY <2>1, <3>1, <3>2, FirstOfRows
    <2>3. ASSUME Len(binary) = Len(Encoded(source0)), source0 # <<>>
          PROVE  read.end = "end" /\ read.rows = Normal(source0)
      BY <1>1, <1>2, <2>1, <2>3, ReadsAll
    <2> QED
      BY <2>2, <2>3 DEF TableReadsBack
  <1>3. CASE source0 = <<>> /\ binary = <<>>
    <2>1. read.rows = <<>> /\ Len(read.rows) = 0
      BY <1>1, <1>3, NothingDecoded, EmptySeq
    <2>2. zeros = <<>>
      <3>1. 1 .. Len(read.rows) = {}
        BY <2>1
      <3>2. zeros \in [{} -> {}]
        BY <3>1
      <3>3. <<>> \in [{} -> {}] /\ \A x, y \in [{} -> {}] : x = y
        BY EmptySeq
      <3> QED
        BY <3>2, <3>3
    <2>3. Normal(source0) = <<>>
      <3>1. DOMAIN source0 = {}
        BY <1>3
      <3>2. Normal(source0) \in [{} -> {}]
        BY <3>1 DEF Normal
      <3>3. <<>> \in [{} -> {}] /\ \A x, y \in [{} -> {}] : x = y
        BY EmptySeq
      <3> QED
        BY <3>2, <3>3
    <2>4. IsPrefix(read.rows, Normal(source0) \o zeros)
      <3>1. <<>> \o <<>> = <<>> /\ SubSeq(<<>>, 1, 0) = <<>> /\ Len(<<>>) = 0
        <4>1. <<>> \in Seq(Byte)
          BY EmptySeq
        <4> QED
          BY <4>1, ConcatEmptySeq, SubSeqEmpty, EmptySeq
      <3> HIDE DEF zeros, read
      <3> QED
        BY <2>1, <2>2, <2>3, <3>1 DEF IsPrefix
    <2> QED
      BY <1>3, <2>4 DEF TableReadsBack
  <1> QED
    BY <1>1, <1>2, <1>3 DEF TableWritten

LEMMA TableIsTyped == TableInv => TablesTypes
  <1> SUFFICES ASSUME TableInv PROVE TablesTypes
    OBVIOUS
  <1>1. /\ table \in TableDefinitions /\ runs \in 0 .. MaxRuns
        /\ binary \in Seq(Byte) /\ Len(binary) <= size0
    BY DEF TableInv, TableWritten
  <1>2. \A i \in DOMAIN binary : binary[i] \in Byte
    BY <1>1, LenProperties, ElementOfSeq
  <1> QED
    BY <1>1, <1>2 DEF TablesTypes

\* Whatever the definition of the table, the text and the runs of the tools: a file that has
\* all its bytes decodes to the rows it was encoded from, one that is padded to rows of zeros
\* behind them, and one that a crash cut short to the first of them, or not at all
\* (encode, decode, _decode_table_row: table.py:227-404; ait_table_encode.py:57-69).
THEOREM TablesReadBack == TablesSpec => []TableReadsBack
  BY TableStart, TableStep, TableIsRead, PTL DEF TablesSpec

\* What is in the file of bytes are bytes, and no more than were encoded, which is what
\* open(mode='wb') and a crash while writing leave (encode_to_file: table.py:499-512).
THEOREM TablesTypeCorrect == TablesSpec => []TablesTypes
  BY TableStart, TableStep, TableIsTyped, PTL DEF TablesSpec
=============================================================================
