------------------------------- MODULE MCParts -------------------------------
(***************************************************************************)
(* One instance of the components that share nothing with one another:     *)
(* `part' says which of them a behaviour is about, and the others stay as  *)
(* they are.                                                               *)
(***************************************************************************)
EXTENDS Segments, CaptureFile, PacketAccumulator, LimitMonitor, ApidRouter,
        GroundApi, Commands, Packets, LeapSeconds, PacketArchive, SequenceFile,
        Streams, Tables, Config, TLC

CONSTANTS On, Off    \* names of values

VARIABLE part

partsVars == <<part, segmentVars, captureVars, accumulatorVars, limitVars, routerVars,
               groundVars, commandVars, packetVars, leapVars, archiveVars, sequenceVars,
               streamVars, tableVars, configVars>>

Parts == {"segments", "capture file", "accumulator", "limits", "router", "script", "commands",
          "packets", "leap seconds", "archive", "sequence", "streams", "table", "config"}

\* Values of what .cfg files cannot write.
MCThresholds == {[nbytes |-> NoLimit, npackets |-> NoLimit, nseconds |-> NoLimit],
                 [nbytes |-> NoLimit, npackets |-> 2, nseconds |-> NoLimit],
                 [nbytes |-> 72, npackets |-> 3, nseconds |-> NoLimit],
                 [nbytes |-> NoLimit, npackets |-> NoLimit, nseconds |-> 1],
                 [nbytes |-> NoLimit, npackets |-> NoLimit, nseconds |-> 2]}

NoLimits == [lower |-> NoBound, upper |-> NoBound, values |-> {}]

MCLimitSets ==
    {<<[error |-> [NoLimits EXCEPT !.lower = 1], warn |-> [NoLimits EXCEPT !.upper = 2]],
       [error |-> NoLimits, warn |-> [NoLimits EXCEPT !.values = {1, 3}]]>>,
     <<[error |-> [NoLimits EXCEPT !.values = {2}], warn |-> [NoLimits EXCEPT !.lower = 1, !.upper = 1]]>>}

MCNotifyOptions == {[threshold |-> 1, frequency |-> Infinite],
                    [threshold |-> 2, frequency |-> 1],
                    [threshold |-> 1, frequency |-> 2]}

MCTableEntries ==
    {[operator |-> "apid", topic |-> t, apids |-> <<2>>] : t \in {"one", "two"}}
    \cup {[operator |-> "range", topic |-> t, apids |-> <<1, 3>>] : t \in {"one", "two"}}
    \cup {[operator |-> "exclude", topic |-> t, apids |-> <<2, 3>>] : t \in {"one", "default"}}
    \cup {[operator |-> "apid", topic |-> "one", apids |-> <<9>>]}

MCApids == 1 .. 3

MCValues == 0 .. 3

\* Ground scripts
MCTimeouts == 0 .. 2 \cup {Forever}

\* Commands: fixed arguments, ranges, enumerations, arguments out of order, an opcode too large
MCArgument(name, type, first, last) ==
    [name |-> name, type |-> type, bytes |-> <<first, last>>, enum |-> NoEnum, range |-> NoRange,
     fixed |-> FALSE, value |-> 0]
MCCommands ==
    {[name |-> "point", opcode |-> 1,
      arguments |-> <<MCArgument("x", I8, 0, 0),
                      [MCArgument("key", MSB_U16, 1, 2) EXCEPT !.fixed = TRUE, !.value = 513],
                      [MCArgument("y", LSB_I16, 3, 4) EXCEPT !.range = <<-5, 300>>]>>],
     [name |-> "switch", opcode |-> 2,
      arguments |-> <<[MCArgument("to", U8, 0, 0) EXCEPT !.enum = On :> 1 @@ Off :> 0]>>],
     [name |-> "aim", opcode |-> 1, arguments |-> <<MCArgument("x", U8, 0, 0)>>],
     [name |-> "swap", opcode |-> 258,
      arguments |-> <<MCArgument("x", U8, 1, 1), MCArgument("y", U8, 0, 0)>>],
     [name |-> "far", opcode |-> 65536, arguments |-> <<>>]}
MCArguments == {-1, 128, 300, On}

\* Packets: fields that share bytes, one that is there sometimes, one at a place of its own
MCField(name, type, bytes, mask, when) ==
    [name |-> name, type |-> type, bytes |-> bytes, mask |-> mask, when |-> when]
MCFollows == [how |-> "next"]
MCFields == <<MCField("mode", U8, MCFollows, 3, AlwaysPresent),
              MCField("flags", U8, [how |-> "prev"], 240, AlwaysPresent),
              MCField("level", I8, MCFollows, NoMask, <<"mode", 1>>),
              MCField("middle", LSB_U16, MCFollows, 4080, AlwaysPresent),
              MCField("low", LSB_U16, [how |-> "prev"], 15, AlwaysPresent),
              MCField("count", MSB_I16, [how |-> "byte", first |-> 4], NoMask, AlwaysPresent)>>
MCRawData == {<<1, 255, 128, 1, 2, 3>>, <<241, 5>>, <<1>>, <<255, 255, 255, 255, 255, 255>>}
MCSetValues == {0, 255, -1}
MCHistoryNames == <<"mode", "level">>

MCBeforeEpoch == <<-3, -1>>
MCZoneOffsets == {-1, 0, 1}
MCPacketTypes == <<"science", "health", "log">>

\* Streams: workflows that are refused, typed ones and untyped ones, messages of a wrong type
MCPatterns == <<[pattern |-> <<1, AnyBit>>, uid |-> 7], [pattern |-> <<AnyBit, 1>>, uid |-> 8]>>
MCDatagrams == {[apid |-> a, stated |-> n, data |-> d] :
                    a \in {<<0, 0>>, <<0, 1>>, <<1, 1>>}, n \in {0, 2, 7},
                    d \in {<<>>, <<1, 2>>, <<1, 5, 6, 7, 8, 0, 0, 3>>}}
MCCcsds == Handler("ccsds", 0, "frame", "pair")
MCPacket == Handler("packet", 5, "frame", "pair")
MCUnpack == Handler("unpack", 0, "pair", "octets")
MCUntyped(h) == [h EXCEPT !.input_type = NoType, !.output_type = NoType]
MCWorkflows ==
    {[inbound |-> i, outbound |-> o] :
        i \in {<<>>, <<MCCcsds>>, <<MCUntyped(MCPacket)>>, <<MCPacket, MCCcsds>>, <<MCCcsds, MCUnpack>>},
        o \in {<<>>, <<MCUntyped(MCUnpack)>>, <<MCUntyped(MCCcsds)>>, <<MCUnpack, MCPacket>>, <<MCUnpack, MCUnpack>>}}

\* Tables with and without a header, names that are not one to one, rows that do not fit
MCPlain(type) == Column(type, NoMap)
MCTables ==
    {[header |-> <<>>, uptype |-> 1, size |-> 8,
      columns |-> <<MCPlain(MSB_U16), Column(U8, 0 :> Off @@ 1 :> On @@ 2 :> On)>>],
     [header |-> <<MCPlain(U8)>>, uptype |-> 7, size |-> 5, columns |-> <<MCPlain(LSB_I16)>>]}
MCTexts == {<<<<300, On>>, <<2, 1>>>>, <<<<7>>, <<-5, 1>>, <<260>>>>, <<<<1>>, <<5, Off>>>>,
            <<>>, <<<<70000, Off>>>>, <<<<3, 0, On>>>>}

\* Levels that add to a section, replace it, or cannot be merged into it
MCOne(x) == Value({<<x>>})
MCPath(x, v) == PathValue({<<x>>}, v)
MCData(f) == "data" :> Section(f)
MCConfigFiles ==
    {<<MCData("path" :> MCPath("tlm", "mission") @@ "rate" :> MCOne("one")), p, h>> :
        p \in {NoLevel,
               MCData("rate" :> MCOne("two")) @@ "mission" :> Value({<<"a">>, <<"b">>}),
               "data" :> MCOne("none") @@ "mission" :> Section("x" :> MCOne("y"))},
        h \in {NoLevel,
               MCData("path" :> MCPath("raw", "host")) @@ "host" :> MCOne("mine"),
               "path" :> MCPath("logs", "mission")}}
MCDefaultVariables == "host" :> MCOne("this")
MCVariables == {"mission" :> MCOne("m"), "host" :> Value({<<"other">>})}

-----------------------------------------------------------------------------
\* What is chosen once and for all is chosen for the part a behaviour is about only.
PartsInit ==
    /\ part \in Parts
    /\ SegmentsInit /\ CaptureFileInit /\ AccumulatorInit /\ LimitMonitorInit /\ RouterInit
    /\ GroundInit /\ CommandsInit /\ PacketsInit /\ LeapInit /\ ArchiveInit /\ SequenceInit
    /\ StreamsInit /\ TablesInit /\ ConfigInit
    /\ part # "segments" => threshold = CHOOSE t \in Thresholds : TRUE
    /\ part # "limits" => /\ limits = CHOOSE l \in LimitSets : TRUE
                          /\ options = CHOOSE o \in NotifyOptions : TRUE
    /\ part # "archive" => backend = "sqlite"
    /\ part # "sequence" => txt = <<>>
    /\ part # "streams" => workflow = CHOOSE w \in Workflows : TRUE
    /\ part # "table" => /\ table = CHOOSE d \in TableDefinitions : TRUE
                         /\ source = <<>>

\* The parts other than p.
Rest(p) ==
    /\ p # "segments" => UNCHANGED segmentVars
    /\ p # "capture file" => UNCHANGED captureVars
    /\ p # "accumulator" => UNCHANGED accumulatorVars
    /\ p # "limits" => UNCHANGED limitVars
    /\ p # "router" => UNCHANGED routerVars
    /\ p # "script" => UNCHANGED groundVars
    /\ p # "commands" => UNCHANGED commandVars
    /\ p # "packets" => UNCHANGED packetVars
    /\ p # "leap seconds" => UNCHANGED leapVars
    /\ p # "archive" => UNCHANGED archiveVars
    /\ p # "sequence" => UNCHANGED sequenceVars
    /\ p # "streams" => UNCHANGED streamVars
    /\ p # "table" => UNCHANGED tableVars
    /\ p # "config" => UNCHANGED configVars

PartsNext ==
    /\ UNCHANGED part
    /\ \/ part = "segments" /\ SegmentsNext /\ Rest("segments")
       \/ part = "capture file" /\ CaptureFileNext /\ Rest("capture file")
       \/ part = "accumulator" /\ AccumulatorNext /\ Rest("accumulator")
       \/ part = "limits" /\ LimitMonitorNext /\ Rest("limits")
       \/ part = "router" /\ RouterNext /\ Rest("router")
       \/ part = "script" /\ GroundNext /\ Rest("script")
       \/ part = "commands" /\ CommandsNext /\ Rest("commands")
       \/ part = "packets" /\ PacketsNext /\ Rest("packets")
       \/ part = "leap seconds" /\ LeapNext /\ Rest("leap seconds")
       \/ part = "archive" /\ ArchiveNext /\ Rest("archive")
       \/ part = "sequence" /\ SequenceNext /\ Rest("sequence")
       \/ part = "streams" /\ StreamsNext /\ Rest("streams")
       \/ part = "table" /\ TablesNext /\ Rest("table")
       \/ part = "config" /\ ConfigNext /\ Rest("config")

PartsSpec == PartsInit /\ [][PartsNext]_partsVars

\* The variables have the types their modules give them.
PartsTypeOK ==
    /\ SegmentsTypes /\ CaptureFileTypes /\ AccumulatorTypes /\ LimitMonitorTypes /\ RouterTypes
    /\ GroundTypes /\ CommandsTypes /\ PacketsTypes /\ LeapTypes /\ ArchiveTypes /\ SequenceTypes
    /\ StreamsTypes /\ TablesTypes /\ ConfigTypes
=============================================================================
