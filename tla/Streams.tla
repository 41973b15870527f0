-------------------------------- MODULE Streams --------------------------------
(***************************************************************************)
(* server/stream.py and the handlers of server/handlers: an inbound stream *)
(* takes datagrams from a port and publishes what its handlers make of     *)
(* them, an outbound stream sends what its own handlers make of that to a  *)
(* port.  What the bus itself may lose is in Broker; here it loses nothing.*)
(*                                                                         *)
(* A datagram is a CCSDS packet: the bits of its APID, the number in its   *)
(* length field, and the octets behind the primary header; one without     *)
(* octets there stands for all that are shorter than 7.                    *)
(***************************************************************************)
EXTENDS Integers, Sequences, FiniteSets

CONSTANTS packet_types,     \* pattern and packet UID, in the order of the file
          AnyBit,           \* the "X" of a pattern
          SecondaryHeader,  \* packet_secondary_header_length
          Workflows,        \* the handlers of the inbound and the outbound stream
          Datagrams,
          NoType,           \* a handler without a declared type
          MaxArrived        \* bound: datagrams

\* Names of the types of messages, below.
Types == {"frame", "octets", "pair"}

HandlerRecord == [what : {"ccsds", "packet", "unpack"}, uid : Nat,
                  input_type : Types \cup {NoType}, output_type : Types \cup {NoType}]

\* What the handlers below make, and what they may declare: the truth or nothing.
Made(h) == IF h.what = "unpack" THEN "octets" ELSE "pair"

ASSUME StreamsAssumption ==
    /\ SecondaryHeader \in Nat /\ MaxArrived \in Nat
    /\ packet_types \in Seq([pattern : Seq({0, 1, AnyBit}), uid : Nat])
    /\ Datagrams \subseteq [apid : Seq({0, 1}), stated : Nat, data : Seq(Nat)]
    /\ NoType \notin Types
    /\ \A w \in Workflows : /\ w \in [{"inbound", "outbound"} -> Seq(HandlerRecord)]
                           /\ \A s \in DOMAIN w : \A i \in DOMAIN w[s] :
                                 w[s][i].output_type \in {NoType, Made(w[s][i])}

VARIABLES workflow,  \* handlers of the two streams
          openStreams,    \* the streams that were created
          datagramsIn,   \* datagrams at the inbound port
          published, \* what the inbound stream has published
          handled,   \* how many of those the outbound stream has received
          sentOut,   \* what it sent
          forwarding  \* its greenlet runs

streamVars == <<workflow, openStreams, datagramsIn, published, handled, sentOut, forwarding>>

Handler(what, uid, input_type, output_type) ==
    [what |-> what, uid |-> uid, input_type |-> input_type, output_type |-> output_type]

\* Messages, by the Python type of their value.
Frame(d) == [type |-> "frame", frame |-> d]
Octets(s) == [type |-> "octets", octets |-> s]
Pair(uid, message) == [type |-> "pair", uid |-> uid, message |-> message]

NoMessage == [type |-> "none"]
Raised == [type |-> "raised"]

-----------------------------------------------------------------------------
(* Handlers                                                                *)

\* comp_apid(): the first pattern of the list whose bits all agree.
AgreesWith(pattern, apid) == \A i \in DOMAIN pattern : pattern[i] \in {AnyBit, apid[i]}
FirstThatAgrees(i, apid) == /\ AgreesWith(packet_types[i].pattern, apid)
                            /\ \A j \in 1 .. i - 1 : ~AgreesWith(packet_types[j].pattern, apid)
comp_apid(apid) == IF \E i \in DOMAIN packet_types : FirstThatAgrees(i, apid)
                   THEN CHOOSE i \in DOMAIN packet_types : FirstThatAgrees(i, apid)
                   ELSE 0

\* The octets of data[from : to] of Python, from 0.
SliceOf(data, from, to) == SubSeq(data, from + 1, IF to < Len(data) THEN to ELSE Len(data))

\* The user data field; the slice ends one octet behind the length that is stated.
UserData(d) ==
    LET packet_data_length == d.stated + 1
        udf_length == packet_data_length - SecondaryHeader
    IN SliceOf(d.data, SecondaryHeader, SecondaryHeader + udf_length + 1)

\* Less than 7 octets, or a pair, which has a length of 2.
TooShort(message) == CASE message.type = "frame"  -> message.frame.data = <<>>
                       [] message.type = "octets" -> Len(message.octets) < 7
                       [] OTHER                   -> TRUE

\* Any octets are taken for a packet with its primary header in front.
PacketOf(message) ==
    IF message.type = "frame" THEN message.frame
    ELSE LET octets == message.octets IN
         [apid   |-> [i \in 1 .. 11 |-> ((256 * octets[1] + octets[2]) \div 2 ^ (11 - i)) % 2],
          stated |-> 256 * octets[5] + octets[6],
          data   |-> SubSeq(octets, 7, Len(octets))]

\* mutated: a packet that ends one octet early is taken for complete.
CCSDS_handleEarly(message) ==
    LET d == PacketOf(message)
        t == comp_apid(d.apid)
    IN IF TooShort(message) \/ t = 0 \/ Len(d.data) < d.stated
       THEN NoMessage
       ELSE Pair(packet_types[t].uid, Octets(UserData(d)))

CCSDS_handle(message) ==
    LET d == PacketOf(message)
        t == comp_apid(d.apid)
    IN IF TooShort(message) \/ t = 0 \/ Len(d.data) < d.stated + 1
       THEN NoMessage
       ELSE Pair(packet_types[t].uid, Octets(UserData(d)))

\* A project's own handler, here one that takes the octets out of the pair.
Unpack_handle(message) ==
    IF message.type # "pair" THEN Raised
    ELSE IF message.message.type = "octets" THEN message.message ELSE Raised

handle(handler, message) ==
    CASE handler.what = "ccsds"  -> CCSDS_handle(message)
      [] handler.what = "packet" -> Pair(handler.uid, message)
      [] handler.what = "unpack" -> Unpack_handle(message)

\* Python's truth: None and an empty string are false.
Truthy(message) == message.type \notin {"none", "raised"} /\ message # Octets(<<>>)

-----------------------------------------------------------------------------
(* Stream.process(): each handler has the output of the one before it; one *)
(* that returns nothing ends it, and nothing is published.                 *)

process(handlers, message) ==
    LET input_data[i \in 0 .. Len(handlers)] ==
            IF i = 0 THEN message
            ELSE IF Truthy(input_data[i - 1]) THEN handle(handlers[i], input_data[i - 1])
                                              ELSE input_data[i - 1]
    IN input_data[Len(handlers)]

\* Each handler's output type is the next one's input type, as far as they are declared.
valid_workflow(handlers) ==
    \A i \in 1 .. Len(handlers) - 1 :
        \/ NoType \in {handlers[i].output_type, handlers[i + 1].input_type}
        \/ handlers[i].output_type = handlers[i + 1].input_type

StreamsInit == /\ workflow \in Workflows
               /\ openStreams = {}
               /\ datagramsIn = <<>>
               /\ published = <<>>
               /\ handled = 0
               /\ sentOut = <<>>
               /\ forwarding = FALSE

\* The server goes on without a stream that is refused.
Open(s) == /\ s \notin openStreams
           /\ valid_workflow(workflow[s])
           /\ openStreams' = openStreams \cup {s}
           /\ forwarding' = (forwarding \/ s = "outbound")
           /\ UNCHANGED <<workflow, datagramsIn, published, handled, sentOut>>

\* PortInputClient.handle(), in a greenlet of its own: an exception costs this datagram only.
Arrive(d) ==
    LET output == process(workflow["inbound"], Frame(d)) IN
    /\ "inbound" \in openStreams
    /\ Len(datagramsIn) < MaxArrived
    /\ datagramsIn' = Append(datagramsIn, d)
    /\ published' = IF Truthy(output) THEN Append(published, output) ELSE published
    /\ UNCHANGED <<workflow, openStreams, handled, sentOut, forwarding>>

\* What sendto() takes.
Sendable(message) == message.type \in {"frame", "octets"}

\* ZMQInputClient._run(): an exception, sendto()'s of a tuple too, ends the greenlet.
Forward ==
    LET output == process(workflow["outbound"], published[handled + 1]) IN
    /\ forwarding
    /\ handled < Len(published)
    /\ handled' = handled + 1
    /\ \/ /\ Truthy(output) /\ Sendable(output)
          /\ sentOut' = Append(sentOut, output)
          /\ UNCHANGED forwarding
       \/ /\ ~Truthy(output) /\ output # Raised
          /\ UNCHANGED <<sentOut, forwarding>>
       \/ /\ output = Raised \/ (Truthy(output) /\ ~Sendable(output))
          /\ forwarding' = FALSE
          /\ UNCHANGED sentOut
    /\ UNCHANGED <<workflow, openStreams, datagramsIn, published>>

StreamsNext == \/ \E s \in DOMAIN workflow : Open(s)
               \/ \E d \in Datagrams : Arrive(d)
               \/ Forward

StreamsSpec == StreamsInit /\ [][StreamsNext]_streamVars

-----------------------------------------------------------------------------
StreamsTypes == /\ workflow \in Workflows
                /\ openStreams \subseteq {"inbound", "outbound"}
                /\ datagramsIn \in Seq(Datagrams) /\ Len(datagramsIn) <= MaxArrived
                /\ Len(published) <= Len(datagramsIn)
                /\ handled \in 0 .. Len(published) /\ Len(sentOut) <= handled
                /\ forwarding \in BOOLEAN

\* What a packet is for the CCSDS handler, said without its computations: octets for all the
\* length it states, and an APID that some pattern allows.
Complete(d) == /\ d.data # <<>> /\ d.stated + 1 <= Len(d.data)
               /\ \E i \in DOMAIN packet_types : AgreesWith(packet_types[i].pattern, d.apid)

IsUserDataOf(octets, uid, d) ==
    /\ \E i \in DOMAIN packet_types : packet_types[i].uid = uid /\ FirstThatAgrees(i, d.apid)
    /\ \/ octets = <<>> /\ SecondaryHeader >= d.stated + 1
       \/ Len(octets) + SecondaryHeader = d.stated + 1
       \/ Len(octets) + SecondaryHeader = d.stated + 2 /\ Len(d.data) > d.stated + 1
    /\ \A i \in DOMAIN octets : octets[i] = d.data[SecondaryHeader + i]

\* Behind a CCSDS handler the packets that are complete, no others, go out once each and in
\* order, with the UID of the first pattern that fits and all of their user data; at most an
\* octet of what follows goes with it (ccsds_packet_handler.py:50-115).  And in a stream that
\* was created, a handler is given what it declares by the one before it, if that declares
\* something too (stream.py:87-101).
CompleteUpTo(k) == {j \in 1 .. k : Complete(datagramsIn[j])}

CompleteGoOut ==
    (Len(workflow["inbound"]) = 1 /\ workflow["inbound"][1].what = "ccsds") =>
        /\ Len(published) = Cardinality(CompleteUpTo(Len(datagramsIn)))
        /\ \A k \in CompleteUpTo(Len(datagramsIn)) :
              LET output == published[Cardinality(CompleteUpTo(k))]
              IN  IsUserDataOf(output.message.octets, output.uid, datagramsIn[k])

Taken(s) == IF s = "inbound" THEN {Frame(datagramsIn[k]) : k \in DOMAIN datagramsIn}
                             ELSE {published[k] : k \in 1 .. handled}

GivenAsDeclared ==
    \A s \in openStreams : \A i \in 2 .. Len(workflow[s]), m \in Taken(s) :
        LET whatIsGiven == process(SubSeq(workflow[s], 1, i - 1), m)
            declared == workflow[s][i].input_type IN
        (Truthy(whatIsGiven) /\ NoType \notin {declared, workflow[s][i - 1].output_type})
            => whatIsGiven.type = declared

StreamsDeliver == CompleteGoOut /\ GivenAsDeclared
=============================================================================
