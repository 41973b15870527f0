------------------------------ MODULE Commands ------------------------------
(***************************************************************************)
(* ait/core/cmd.py: a dictionary of command definitions, and a command on  *)
(* its way: created from a name and arguments, validated, encoded where    *)
(* the definition places the arguments, and decoded by whoever has the     *)
(* same dictionary, argument after argument.                               *)
(***************************************************************************)
EXTENDS DataTypes, FiniteSets, Functions

CONSTANTS CommandDefinitions,  \* what the dictionary's file may define
          ArgumentValues,      \* numbers and names given as arguments
          NoEnum, NoRange,     \* of an argument that has none
          Missing,             \* None, for an argument that was not given
          Pad,                 \* bytes of an encoded command at least (106)
          MaxDefined,          \* bound: calls of add()
          MaxCreated           \* bound: commands created

\* A definition has a name, an opcode and arguments, each with a type, the first and
\* last of its bytes, an enumeration from names to numbers, a range, and whether it is
\* fixed, with its value.
IsArgument(a) == /\ a.type \in PrimitiveTypes /\ a.bytes \in Nat \X Nat
                 /\ a.fixed \in BOOLEAN /\ a.value \in Int
                 /\ a.enum # NoEnum => IsInjective(a.enum)

ASSUME CommandsAssumption ==
    /\ CommandDefinitions # {}
    /\ \A d \in CommandDefinitions :
          /\ d.opcode \in Nat
          /\ d.arguments \in Seq({d.arguments[i] : i \in DOMAIN d.arguments})
          /\ \A i \in DOMAIN d.arguments :
                /\ IsArgument(d.arguments[i])
                /\ \A j \in DOMAIN d.arguments \ {i} : d.arguments[i].name # d.arguments[j].name
    /\ Pad \in Nat /\ MaxDefined \in Nat /\ MaxCreated \in Nat

VARIABLES cmddict,    \* CmdDict: the definitions by name
          opcodes,    \* CmdDict.opcodes: the definitions by opcode
          refused,    \* add() raised
          added,      \* how often add() was called
          created,    \* how many commands were created
          command,    \* the command on its way: its definition, arguments, leftover keywords
          stage,      \* "none", "created", "valid", "invalid", "encoded", "raised" or "decoded"
          encoded,    \* its bytes
          arrived     \* name and arguments of the command they were decoded to

commandVars == <<cmddict, opcodes, refused, added, created, command, stage, encoded, arrived>>

NoCommand == [defn |-> CHOOSE d \in CommandDefinitions : TRUE, args |-> <<>>, unrecognized |-> {}]
NothingArrived == [name |-> "", args |-> <<>>]

CommandsInit == /\ cmddict = << >>
                /\ opcodes = << >>
                /\ refused = FALSE
                /\ added = 0 /\ created = 0
                /\ command = NoCommand
                /\ stage = "none"
                /\ encoded = <<>>
                /\ arrived = NothingArrived

-----------------------------------------------------------------------------
(* CmdDict.add                                                             *)

With(f, key, value) == [k \in DOMAIN f \cup {key} |-> IF k = key THEN value ELSE f[k]]

\* The command on its way keeps the definition it has.
Define(d) == /\ stage \in {"none", "decoded"}
             /\ added < MaxDefined
             /\ added' = added + 1
             /\ d.name \notin DOMAIN cmddict
             /\ cmddict' = With(cmddict, d.name, d)
             /\ IF d.opcode \in DOMAIN opcodes
                THEN refused' = TRUE /\ UNCHANGED opcodes
                ELSE opcodes' = With(opcodes, d.opcode, d) /\ UNCHANGED refused
             /\ UNCHANGED <<created, command, stage, encoded, arrived>>

DefineAgain(d) == /\ stage \in {"none", "decoded"}
                  /\ added < MaxDefined
                  /\ added' = added + 1
                  /\ d.name \in DOMAIN cmddict
                  /\ refused' = TRUE
                  /\ UNCHANGED <<cmddict, opcodes, created, command, stage, encoded, arrived>>

-----------------------------------------------------------------------------
(* CmdDict.create and Cmd.__init__.  An unknown name raises TypeError, and *)
(* so do positional and keyword arguments together: no command is made.    *)

\* A command is given a value for each argument that is not fixed: Counted(d, i) of them
\* for the first i, and the n-th of them for the argument GivenAt(d, n).
Counted(d, i) == Cardinality({j \in 1 .. i : ~d.arguments[j].fixed})
GivenAt(d, n) == CHOOSE i \in DOMAIN d.arguments : ~d.arguments[i].fixed /\ Counted(d, i) = n
Given(d) == [n \in 1 .. Counted(d, Len(d.arguments)) |-> d.arguments[GivenAt(d, n)]]

Create(d, args, unrecognized) ==
    /\ created < MaxCreated
    /\ created' = created + 1
    /\ command' = [defn |-> cmddict[d], args |-> args, unrecognized |-> unrecognized]
    /\ stage' = "created"
    /\ encoded' = <<>> /\ arrived' = NothingArrived
    /\ UNCHANGED <<cmddict, opcodes, refused, added>>

CreatePositional(d, args) == Create(d, args, {})

CreateKeywords(d, keywords) ==
    LET given == Given(cmddict[d]) IN
    Create(d, [i \in DOMAIN given |-> IF given[i].name \in DOMAIN keywords
                                      THEN keywords[given[i].name] ELSE Missing],
           DOMAIN keywords \ {given[i].name : i \in DOMAIN given})

-----------------------------------------------------------------------------
(* CmdDefn.validate, for each argument ArgDefn.validate                    *)

Named(a, value) == a.enum # NoEnum /\ value \in DOMAIN a.enum
IsNumber(value) == value \in Int
Primitive(a, value) == IF Named(a, value) THEN a.enum[value] ELSE value

\* The range of a name that is no number is compared with all the same.
ArgumentRaises(a, value) == a.range # NoRange /\ ~IsNumber(Primitive(a, value))

ArgumentValid(a, value) ==
    /\ a.enum # NoEnum => Named(a, value)
    /\ IsNumber(Primitive(a, value))
    /\ IsValidFor(a.type, Primitive(a, value))
    /\ a.range # NoRange => a.range[1] <= Primitive(a, value) /\ Primitive(a, value) <= a.range[2]

Pairs == 1 .. Upto(Len(Given(command.defn)), Len(command.args))

ValidateRaises == \/ \E i \in Pairs : /\ command.args[i] # Missing
                                      /\ ArgumentRaises(Given(command.defn)[i], command.args[i])
                  \/ command.unrecognized # {}

Valid == /\ Len(Given(command.defn)) = Len(command.args)
         /\ \A i \in Pairs : /\ command.args[i] # Missing
                             /\ ArgumentValid(Given(command.defn)[i], command.args[i])

Validate == /\ stage = "created"
            /\ stage' = IF ValidateRaises THEN "raised" ELSE IF Valid THEN "valid" ELSE "invalid"
            /\ UNCHANGED <<cmddict, opcodes, refused, added, created, command, encoded, arrived>>

-----------------------------------------------------------------------------
(* Cmd.encode                                                              *)

argsize(d) == FieldsEnd(d.arguments, Len(d.arguments))

\* The value of the i-th argument: its own, or the next of the command's.
ValueAt(d, args, i) ==
    LET a == d.arguments[i] IN
    IF a.fixed THEN a.value
    ELSE Primitive(a, args[Counted(d, i)])

EncodeRaises(d, args) ==
    \/ d.opcode > 65535
    \/ argsize(d) > 255
    \/ \E i \in DOMAIN d.arguments : ~Packs(d.arguments[i].type, ValueAt(d, args, i))

\* Opcode and size, then each argument at its bytes, counted from the third.
Encoding(d, args) ==
    LET size  == IF 2 + argsize(d) > Pad THEN 2 + argsize(d) ELSE Pad
        empty == SetSlice([b \in 1 .. size |-> 0], 0, 3,
                          encode(MSB_U16, d.opcode) \o <<argsize(d)>>)
        after[i \in 0 .. Len(d.arguments)] ==
            IF i = 0 THEN empty
            ELSE LET a == d.arguments[i] IN
                 SetSlice(after[i - 1], 3 + a.bytes[1], 3 + a.bytes[2] + 1,
                          encode(a.type, ValueAt(d, args, i)))
    IN after[Len(d.arguments)]

Encode == /\ stage = "valid"
          /\ IF EncodeRaises(command.defn, command.args)
             THEN stage' = "raised" /\ UNCHANGED encoded
             ELSE stage' = "encoded" /\ encoded' = Encoding(command.defn, command.args)
          /\ UNCHANGED <<cmddict, opcodes, refused, added, created, command, arrived>>

-----------------------------------------------------------------------------
(* CmdDict.decode                                                          *)

NameOf(a, number) == IF a.enum # NoEnum /\ \E n \in DOMAIN a.enum : a.enum[n] = number
                     THEN CHOOSE n \in DOMAIN a.enum : a.enum[n] = number ELSE number

\* mutated: fixed arguments do not count
BeginsAfterGiven(d, i) ==
    LET before == SelectSeq(SubSeq(d.arguments, 1, i - 1), LAMBDA a : ~a.fixed)
    IN 3 + FieldsEnd(before, Len(before))

\* Where the i-th argument begins, one after the other whatever `bytes' say.
Begins(d, i) == 3 + FieldsEnd(d.arguments, i - 1)

ArgumentBytes(d, i, bytes) == Slice(bytes, Begins(d, i), Begins(d, i) + d.arguments[i].type.nbytes)

DecodedArguments(d, bytes) ==
    [n \in DOMAIN Given(d) |->
        NameOf(Given(d)[n], decode(Given(d)[n].type, ArgumentBytes(d, GivenAt(d, n), bytes)))]

\* An unknown opcode raises, and an argument that is not all there.
ArgumentsThere(d, bytes) ==
    \A i \in DOMAIN d.arguments :
        d.arguments[i].fixed \/ Unpacks(d.arguments[i].type, ArgumentBytes(d, i, bytes))

Decode == /\ stage = "encoded"
          /\ LET opcode == decode(MSB_U16, SubSeq(encoded, 1, 2)) IN
             IF opcode \in DOMAIN opcodes /\ ArgumentsThere(opcodes[opcode], encoded)
             THEN LET d == opcodes[opcode] IN
                  /\ stage' = "decoded"
                  /\ arrived' = [name |-> d.name, args |-> DecodedArguments(d, encoded)]
             ELSE stage' = "raised" /\ UNCHANGED arrived
          /\ UNCHANGED <<cmddict, opcodes, refused, added, created, command, encoded>>

CommandsNext ==
    \/ \E d \in CommandDefinitions : Define(d) \/ DefineAgain(d)
    \/ \E d \in DOMAIN cmddict :
          LET given == Given(cmddict[d]) IN
          \/ \E n \in {Len(given), Len(given) + 1} : \E args \in [1 .. n -> ArgumentValues] :
                CreatePositional(d, args)
          \/ \E names \in SUBSET ({given[i].name : i \in DOMAIN given} \cup {"unknown"}) :
                \E keywords \in [names -> ArgumentValues] : CreateKeywords(d, keywords)
    \/ Validate \/ Encode \/ Decode

CommandsSpec == CommandsInit /\ [][CommandsNext]_commandVars

-----------------------------------------------------------------------------
CommandsTypes == /\ DOMAIN cmddict \subseteq {d.name : d \in CommandDefinitions}
                 /\ \A o \in DOMAIN opcodes : opcodes[o].opcode = o
                 /\ refused \in BOOLEAN
                 /\ added \in 0 .. MaxDefined /\ created \in 0 .. MaxCreated
                 /\ command.defn \in CommandDefinitions
                 /\ stage \in {"none", "created", "valid", "invalid", "encoded", "raised", "decoded"}
                 /\ encoded \in Seq(Byte)

\* The arguments follow each other in the bytes the definition gives them.
Contiguous(d) == \A i \in DOMAIN d.arguments :
                    /\ d.arguments[i].bytes[1] = FieldsEnd(d.arguments, i - 1)
                    /\ d.arguments[i].bytes[2] + 1 = d.arguments[i].bytes[1] + d.arguments[i].type.nbytes

\* A command that validates arrives as what was created, name and arguments, fixed or
\* not, padded or longer than the padding: encoding by the bytes of the arguments and
\* decoding by their sizes agree, as long as a definition places them one after the
\* other and add() raised for none (cmd.py 240-276, 456-477).
CommandsArrive ==
    stage = "decoded" /\ ~refused /\ Contiguous(command.defn) =>
        arrived = [name |-> command.defn.name, args |-> command.args]
=============================================================================
