----------------------------- MODULE SequenceFile -----------------------------
(***************************************************************************)
(* ait/core/seq.py and the tools that use it: a sequence of commands with  *)
(* delays in a process, its text file and its binary file.  The binary     *)
(* file is written in two steps, the checksum last, and an exception or a  *)
(* crash may leave either file unfinished.                                 *)
(*                                                                         *)
(* Delays count in units that divide a millisecond, which a text keeps,    *)
(* and 1/255 of a second, which the binary file keeps.                     *)
(***************************************************************************)
EXTENDS Naturals, Sequences, FiniteSets, SequencesExt

CONSTANTS CommandNames,     \* that occur in a text; a name stands for its arguments too
          CommandsKnown,    \* those of the command dictionary
          LongCommands,     \* whose encoding is longer than the 106 bytes of a slot
          StrayFractions,   \* delays that come out of bytes which are no delay
          Milliseconds,     \* delays that occur in a text, in milliseconds
          MaxSeconds,       \* delays of so many seconds and more have no encoding
          MaxLines,         \* bound: lines of a sequence
          MaxWrites         \* bound: binary writes begun

ASSUME SequenceFileAssumption ==
    /\ CommandsKnown \subseteq CommandNames
    /\ Milliseconds \subseteq Nat /\ StrayFractions \subseteq Nat
    /\ MaxSeconds \in Nat /\ MaxLines \in Nat /\ MaxWrites \in Nat

Millisecond == 51
Fraction == 200                     \* 1/255 of a second
Second == 255 * Fraction

VARIABLES lines,     \* Seq.lines: commands with their delays
          crc32,     \* Seq.crc32: "None", "zero" (never filled in) or "right"
          tool,      \* "none", "idle" with a Seq, "writing" or "checking" the binary file
          output,    \* what write_binary() has written of the lines
          bin,       \* the binary file
          txt,       \* the text file: its commands and delays
          writes,    \* binary writes begun
          begun      \* history: the lines of the last of them

sequenceVars == <<lines, crc32, tool, output, bin, txt, writes, begun>>

\* `whole': the delay and the attributes are objects; append() takes what it is given.
Line(command, delay, whole) == [command |-> command, delay |-> delay, whole |-> whole]
TextLines == {Line(c, t * Millisecond, TRUE) : c \in CommandNames, t \in Milliseconds}

\* Of the commands those count that have all that is decoded: the padding behind them, which
\* fills the slot, may be missing.
NoBinary == [header |-> FALSE, ncmds |-> 0, commands |-> <<>>, crc |-> "zero"]

SequenceInit == /\ lines = <<>>
                /\ crc32 = "None"
                /\ tool = "none"
                /\ output = <<>>
                /\ bin = NoBinary
                /\ txt \in SeqOf(TextLines, MaxLines)
                /\ writes = 0
                /\ begun = <<>>

\* The Seq an operation works on: a new one, or the one that is there.
Before == IF tool = "idle" THEN lines ELSE <<>>
Between == tool \in {"none", "idle"}

-----------------------------------------------------------------------------
(* Reading: read() and so every createSeq().  Both formats add to the      *)
(* lines there are.                                                        *)

KnownText(text) == \A i \in DOMAIN text : text[i].command \in CommandsKnown

ReadText == /\ Between
            /\ KnownText(txt)
            /\ Len(Before \o txt) <= MaxLines
            /\ lines' = Before \o txt
            /\ crc32' = IF tool = "idle" THEN crc32 ELSE "None"
            /\ tool' = "idle"
            /\ UNCHANGED <<output, bin, txt, writes, begun>>

\* read_binary() takes as many slots of 4 + 106 bytes as the header counts commands.  Behind a
\* command that is longer than its slot they begin anywhere, and what is there is not decoded or
\* comes out as something else; how far the displaced slots go in the file is left open.
Displaced(file, i) == \E j \in DOMAIN file.commands : j < i /\ file.commands[j].command \in LongCommands
Strays == {Line(s[1], s[2] * Fraction, TRUE) : s \in CommandsKnown \X StrayFractions}

\* What the first n slots may come out as.
Readings(file, n) ==
    {read \in [1 .. n -> Range(file.commands) \cup Strays] :
        /\ file.header
        /\ \A i \in 1 .. n : IF Displaced(file, i) THEN read[i] \in Strays
                             ELSE i \in DOMAIN file.commands /\ read[i] = file.commands[i]}

\* Slot i is displaced, missing, or too short for the arguments.
SlotRaises(file, i) ==
    Displaced(file, i) \/ (i \in DOMAIN file.commands => file.commands[i].command \in LongCommands)

ReadBinary == /\ Between
              /\ \E read \in Readings(bin, bin.ncmds) :
                    /\ Len(Before \o read) <= MaxLines
                    /\ lines' = Before \o read
              /\ crc32' = bin.crc
              /\ tool' = "idle"
              /\ UNCHANGED <<output, bin, txt, writes, begun>>

\* An unknown command in a text, or a binary file with a slot that cannot be decoded: a Seq
\* that was there has the lines before it, a new one never comes to be.
ReadRaises ==
    /\ tool = "idle"
    /\ \/ \E n \in DOMAIN txt :
            /\ KnownText(SubSeq(txt, 1, n - 1)) /\ txt[n].command \notin CommandsKnown
            /\ Len(lines) + n <= MaxLines
            /\ lines' = lines \o SubSeq(txt, 1, n - 1)
            /\ UNCHANGED crc32
       \/ /\ \E n \in 0 .. bin.ncmds - 1 : \E read \in Readings(bin, n) :
                /\ SlotRaises(bin, n + 1)
                /\ Len(lines \o read) <= MaxLines
                /\ lines' = lines \o read
          /\ crc32' = bin.crc
    /\ UNCHANGED <<tool, output, bin, txt, writes, begun>>

\* append(): a command with a bare number for its delay has no encoding and no length.
AppendLine(command, delay, whole) ==
    /\ tool = "idle"
    /\ Len(lines) < MaxLines
    /\ lines' = Append(lines, Line(command, delay, whole))
    /\ UNCHANGED <<crc32, tool, output, bin, txt, writes, begun>>

-----------------------------------------------------------------------------
(* write_binary(): the lines are encoded one by one into the file, which   *)
(* is closed; then its checksum is computed, and filled in at last.        *)

\* SeqDelay.encode(): seconds and 1/255 of a second, rounded down.  A fraction that is a
\* multiple of 1/255 may come out as the one below, in floating point.
Encodings(delay) ==
    LET below == (delay \div Fraction) * Fraction
        exact == below = delay /\ delay % Second # 0
    IN IF exact THEN {below, below - Fraction} ELSE {below}

LineEncodes(line) == line.whole /\ line.delay < MaxSeconds * Second

WriteBinary == /\ tool = "idle"
               /\ writes < MaxWrites
               /\ writes' = writes + 1
               /\ begun' = lines
               /\ output' = <<>>
               /\ bin' = NoBinary
               /\ tool' = "writing"
               /\ UNCHANGED <<lines, crc32, txt>>

\* mutated: the header counts the commands that were written
WrittenSoFar ==
    [header |-> TRUE, ncmds |-> Len(output), commands |-> output, crc |-> "zero"]

\* What the file holds when it is closed.
Written == [header |-> TRUE, ncmds |-> Len(lines), commands |-> output, crc |-> "zero"]

EncodeLine == /\ tool = "writing"
              /\ Len(output) < Len(lines)
              /\ LET line == lines[Len(output) + 1] IN
                    /\ LineEncodes(line)
                    /\ \E d \in Encodings(line.delay) :
                          output' = Append(output, Line(line.command, d, TRUE))
              /\ UNCHANGED <<lines, crc32, tool, bin, txt, writes, begun>>

\* The exception closes the file as it is.
LineRaises == /\ tool = "writing"
                /\ Len(output) < Len(lines)
                /\ ~LineEncodes(lines[Len(output) + 1])
                /\ bin' = Written
                /\ tool' = "idle"
                /\ UNCHANGED <<lines, crc32, output, txt, writes, begun>>

CloseBinary == /\ tool = "writing"
               /\ Len(output) = Len(lines)
               /\ bin' = Written
               /\ tool' = "checking"
               /\ UNCHANGED <<lines, crc32, output, txt, writes, begun>>

FillChecksum == /\ tool = "checking"
                /\ bin' = [bin EXCEPT !.crc = "right"]
                /\ crc32' = "right"
                /\ tool' = "idle"
                /\ UNCHANGED <<lines, output, txt, writes, begun>>

-----------------------------------------------------------------------------
(* write_text(): the file is truncated and the header comes first.         *)

\* print_text() needs a checksum for its header, and delays it can add.
Prints == crc32 # "None" /\ \A i \in DOMAIN lines : lines[i].whole

\* "%.3f": the nearest millisecond.
InText(line) == [line EXCEPT !.delay = ((line.delay + Millisecond \div 2) \div Millisecond) * Millisecond]
AsText == [i \in DOMAIN lines |-> InText(lines[i])]

WriteText == /\ tool = "idle"
             /\ Prints
             /\ txt' = AsText
             /\ UNCHANGED <<lines, crc32, tool, output, bin, writes, begun>>

WriteTextRaises == /\ tool = "idle"
                   /\ ~Prints
                   /\ txt' = <<>>
                   /\ UNCHANGED <<lines, crc32, tool, output, bin, writes, begun>>

-----------------------------------------------------------------------------
(* The process is killed, or ends; the next tool starts with no Seq.       *)

\* Of what was written, the file holds as much as had left the buffer.
Flushed(header, n) == [Written EXCEPT !.header = header, !.commands = SubSeq(output, 1, n)]

ToolEnds == /\ tool # "none"
            /\ tool' = "none"
            /\ lines' = <<>>
            /\ crc32' = "None"
            /\ output' = <<>>
            /\ \/ /\ tool = "writing"
                  /\ \E header \in BOOLEAN, n \in 0 .. Len(output) :
                        /\ ~header => n = 0
                        /\ bin' = Flushed(header, n)
                  /\ UNCHANGED txt
               \/ tool # "writing" /\ UNCHANGED <<bin, txt>>
               \/ /\ tool = "idle" /\ Prints
                  /\ \E n \in 0 .. Len(lines) : txt' = SubSeq(AsText, 1, n)
                  /\ UNCHANGED bin
            /\ UNCHANGED <<writes, begun>>

SequenceNext == \/ ReadText \/ ReadBinary \/ ReadRaises
                \/ \E line \in TextLines, whole \in BOOLEAN : AppendLine(line.command, line.delay, whole)
                \/ WriteBinary \/ EncodeLine \/ LineRaises \/ CloseBinary \/ FillChecksum
                \/ WriteText \/ WriteTextRaises
                \/ ToolEnds

SequenceSpec == SequenceInit /\ [][SequenceNext]_sequenceVars

-----------------------------------------------------------------------------
SequenceTypes == /\ crc32 \in {"None", "zero", "right"}
                 /\ tool \in {"none", "idle", "writing", "checking"}
                 /\ Len(lines) <= MaxLines /\ Len(output) <= Len(lines)
                 /\ \A i \in DOMAIN txt : txt[i].delay % Millisecond = 0
                 /\ \A i \in DOMAIN bin.commands : bin.commands[i].delay % Fraction = 0
                 /\ writes \in 0 .. MaxWrites

Fit(commands, n) == \A j \in 1 .. n : commands[j].command \notin LongCommands

\* Up to the first command that is longer than its slot, what is read from a binary file, if
\* it can be read at all, is what the last write was given, each command at most 1/255 of a
\* second early and never late; and when there is none, a file with its checksum can be read:
\* whatever raised or was killed on the way (write_binary, seq.py:249; read_binary, :169).
SequenceReadsBack ==
    /\ \A read \in Readings(bin, bin.ncmds), i \in DOMAIN begun :
          Fit(begun, i - 1) => /\ i \in DOMAIN read
                               /\ read[i].command = begun[i].command
                               /\ begun[i].delay - read[i].delay \in 0 .. Fraction
    /\ bin.crc = "right" /\ Fit(begun, Len(begun)) => Readings(bin, bin.ncmds) # {}
=============================================================================
