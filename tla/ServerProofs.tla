---------------------------- MODULE ServerProofs ----------------------------
(***************************************************************************)
(* Proofs about Server, whatever the configuration: its type invariant,    *)
(* that stream names stay unique, that the streams loaded are those of the *)
(* entries that stand, and, for configurations that say what they mean,    *)
(* that everything is subscribed as asked, to a single command stream.     *)
(***************************************************************************)
EXTENDS Server, WellFoundedInduction, FiniteSetTheorems, TLAPS

USE DEF Elements

-----------------------------------------------------------------------------
(* Sequences.                                                              *)

\* Dropping the first element keeps the type and shifts the rest.
LEMMA TailOfSeq ==
    ASSUME NEW S, NEW q \in Seq(S), q # <<>>
    PROVE  /\ Len(q) \in Nat \ {0}
           /\ Head(q) \in S
           /\ Head(q) = q[1]
           /\ Tail(q) \in Seq(S)
           /\ Len(Tail(q)) = Len(q) - 1
           /\ \A i \in 1 .. Len(Tail(q)) : Tail(q)[i] = q[i + 1]
  OBVIOUS

\* Appending an element adds it to the elements and nothing else.
LEMMA AppendToSeq ==
    ASSUME NEW S, NEW q \in Seq(S), NEW x \in S
    PROVE  /\ Append(q, x) \in Seq(S)
           /\ Len(Append(q, x)) = Len(q) + 1
           /\ \A i \in 1 .. Len(q) : Append(q, x)[i] = q[i]
           /\ Append(q, x)[Len(q) + 1] = x
           /\ Elements(Append(q, x)) = Elements(q) \cup {x}
  OBVIOUS

LEMMA EmptyIsSeq == ASSUME NEW S PROVE <<>> \in Seq(S) /\ Len(<<>>) = 0
  OBVIOUS

\* The elements of a sequence are in the set it is a sequence of.
LEMMA ElementsOfSeq ==
    ASSUME NEW S, NEW q \in Seq(S)
    PROVE  Elements(q) \subseteq S
  OBVIOUS

-----------------------------------------------------------------------------
(* Type correctness.                                                       *)

LEMMA CreatedIsStream ==
    ASSUME NEW e \in StreamEntry, e.name \in Names
    PROVE  Created(e) \in Stream
  <1>1. e.inputs \in Seq(Names \cup {Port})
    BY DEF StreamEntry
  <1>2. Elements(e.inputs) \ {Port} \subseteq Names
    BY <1>1
  <1> QED
    BY <1>2 DEF Created, Stream, StreamEntry

\* The API's stream is built only when every inbound entry has a name.
LEMMA ApiStreamIsStream ==
    ASSUME TypeOK, ~\E e \in InboundEntries : Unreadable(e)
    PROVE  ApiStream \in Stream
  <1>1. config.api \subseteq Names
    BY DEF TypeOK, Config
  <1>2. Elements(config.streams) \subseteq StreamEntry
    BY DEF TypeOK, Config
  <1>3. \A e \in InboundEntries : e.name \in Names
    BY <1>2 DEF InboundEntries, Unreadable, StreamEntry
  <1>4. ApiInputs \subseteq Names
    BY <1>3 DEF ApiInputs
  <1> QED
    BY <1>4, ServerAssumption DEF ApiStream, Stream

LEMMA OutputLinksAreLinks ==
    ASSUME NEW P, P \subseteq NamedPlugin
    PROVE  OutputLinks(P) \subseteq Names \X Names
  <1>1. \A p \in P : p.outputs \subseteq Names /\ p.class \in Names
    BY DEF NamedPlugin, PluginEntry
  <1> QED
    BY <1>1 DEF OutputLinks

LEMMA PluginLinksAreLinks ==
    ASSUME NEW P, P \subseteq NamedPlugin
    PROVE  PluginLinks(P) \subseteq NamedPlugin \X Names
  <1>1. \A p \in P : p.inputs \subseteq Names
    BY DEF NamedPlugin, PluginEntry
  <1> QED
    BY <1>1 DEF PluginLinks

LEMMA StreamLinksAreLinks ==
    ASSUME TypeOK, NEW L
    PROVE  StreamLinks(L) \subseteq Names \X Names
  <1>1. Elements(streams) \subseteq Stream
    BY DEF TypeOK
  <1>2. \A s \in Elements(streams) : s.name \in Names /\ s.inputs \subseteq Names
    BY <1>1 DEF Stream
  <1> QED
    BY <1>2 DEF StreamLinks

LEMMA CommandStreamsAreNames == TypeOK => CommandStreams \subseteq Names
  <1> SUFFICES ASSUME TypeOK PROVE CommandStreams \subseteq Names
    OBVIOUS
  <1>1. \A i \in DOMAIN streams : streams[i] \in Stream
    BY DEF TypeOK
  <1>2. \A i \in DOMAIN streams : streams[i].name \in Names
    BY <1>1 DEF Stream
  <1> QED
    BY <1>2 DEF CommandStreams

\* Init and every action preserve the types.
THEOREM TypeCorrect == Spec => []TypeOK
  <1>1. Init => TypeOK
    <2> SUFFICES ASSUME Init PROVE TypeOK
      OBVIOUS
    <2>1. config \in Config
      BY ServerAssumption DEF Init
    <2>2. config.streams \in Seq(StreamEntry) /\ config.plugins \in Seq(PluginEntry)
      BY <2>1 DEF Config
    <2>3. /\ <<>> \in Seq(Stream)
          /\ <<>> \in Seq(Processes)
          /\ <<>> \in Seq(NamedPlugin)
      BY EmptyIsSeq
    <2> QED
      BY <2>1, <2>2, <2>3 DEF Init, TypeOK, Child
  <1>2. TypeOK /\ [Next]_vars => TypeOK'
    <2> SUFFICES ASSUME TypeOK, [Next]_vars PROVE TypeOK'
      OBVIOUS
    <2>1. CASE UNCHANGED vars
      BY <2>1 DEF vars, TypeOK
    <2>2. CASE LoadStream
      <3> DEFINE e == Head(streamsLeft)
      <3>1. e \in StreamEntry /\ Tail(streamsLeft) \in Seq(StreamEntry)
        BY <2>2, TailOfSeq DEF LoadStream, TypeOK
      <3>2. streams' \in Seq(Stream)
        <4>1. CASE Creatable(e) /\ streams' = Append(streams, Created(e))
          <5>1. e.name \in Names
            BY <3>1, <4>1 DEF Creatable, StreamEntry
          <5>2. Created(e) \in Stream
            BY <3>1, <5>1, CreatedIsStream
          <5> HIDE DEF e
          <5> QED
            BY <4>1, <5>2, AppendToSeq DEF TypeOK
        <4>2. CASE UNCHANGED streams
          BY <4>2 DEF TypeOK
        <4> QED
          BY <2>2, <4>1, <4>2 DEF LoadStream
      <3> HIDE DEF e
      <3> QED
        BY <2>2, <3>1, <3>2 DEF LoadStream, TypeOK
    <2>3. CASE CreateApiStream
      <3>1. streams' \in Seq(Stream)
        <4>1. CASE UNCHANGED streams
          BY <4>1 DEF TypeOK
        <4>2. CASE streams' = Append(streams, ApiStream)
          <5>1. ApiStream \in Stream \/ UNCHANGED streams
            BY <2>3, ApiStreamIsStream DEF CreateApiStream
          <5> QED
            BY <4>1, <4>2, <5>1, AppendToSeq DEF TypeOK
        <4> QED
          BY <2>3, <4>1, <4>2 DEF CreateApiStream
      <3> QED
        BY <2>3, <3>1 DEF CreateApiStream, TypeOK
    <2>4. CASE LoadPlugin
      <3> DEFINE p == Head(pluginsLeft)
      <3>1. p \in PluginEntry /\ Tail(pluginsLeft) \in Seq(PluginEntry)
        BY <2>4, TailOfSeq DEF LoadPlugin, TypeOK
      <3>2. CASE UNCHANGED <<plugins, processes, infos>>
        BY <2>4, <3>1, <3>2 DEF LoadPlugin, TypeOK
      <3>3. CASE p.class # NullEntry /\ LoadOwnPlugin(p) /\ UNCHANGED phase
        <4>1. p.class # NoName => p \in NamedPlugin
          BY <3>1, <3>3 DEF PluginEntry, NamedPlugin
        <4> QED
          BY <2>4, <3>1, <3>3, <4>1 DEF LoadPlugin, LoadOwnPlugin, TypeOK
      <3>4. CASE p.class # NullEntry /\ DeferPlugin(p) /\ UNCHANGED phase
        <4>1. p.class # NoName => p \in NamedPlugin
          BY <3>1, <3>4 DEF PluginEntry, NamedPlugin
        <4>2. p.process \in Processes
          BY <3>1, <3>4 DEF PluginEntry, DeferPlugin
        <4> HIDE DEF p
        <4>3. processes' \in Seq(Processes)
          <5>1. Append(processes, p.process) \in Seq(Processes)
            BY <4>2, AppendToSeq DEF TypeOK
          <5> QED
            BY <3>4, <5>1 DEF DeferPlugin, TypeOK
        <4>4. infos' \in [Processes -> Seq(NamedPlugin)]
          <5>1. infos \in [Processes -> Seq(NamedPlugin)]
            BY DEF TypeOK
          <5>2. p.class # NoName =>
                   Append(infos[p.process], p) \in Seq(NamedPlugin)
            BY <4>1, <4>2, <5>1, AppendToSeq
          <5> QED
            BY <3>4, <5>1, <5>2 DEF DeferPlugin
        <4> QED
          BY <2>4, <3>1, <3>4, <4>3, <4>4 DEF LoadPlugin, DeferPlugin, TypeOK
      <3> QED
        BY <2>4, <3>2, <3>3, <3>4 DEF LoadPlugin
    <2>5. CASE StartGreenlets
      BY <2>5 DEF StartGreenlets, TypeOK
    <2>6. CASE SpawnProcess
      <3>1. /\ Head(toSpawn) \in Processes
            /\ Tail(toSpawn) \in Seq(Processes)
        BY <2>6, TailOfSeq DEF SpawnProcess, TypeOK
      <3>2. child' \in [Processes -> Child]
        <4>1. infos[Head(toSpawn)] \in Seq(NamedPlugin)
          BY <3>1 DEF TypeOK
        <4> QED
          BY <2>6, <4>1 DEF SpawnProcess, TypeOK, Child
      <3> QED
        BY <2>6, <3>1, <3>2 DEF SpawnProcess, TypeOK
    <2>7. CASE SubscribeProcessOutputs
      <3>1. \A ns \in Elements(processes) : LastOfClass(infos[ns]) \subseteq NamedPlugin
        <4>1. \A ns \in Elements(processes) : infos[ns] \in Seq(NamedPlugin)
          BY DEF TypeOK
        <4>2. ASSUME NEW q \in Seq(NamedPlugin) PROVE LastOfClass(q) \subseteq NamedPlugin
          BY DEF LastOfClass
        <4> QED
          BY <4>1, <4>2
      <3> DEFINE P == UNION {LastOfClass(infos[ns]) : ns \in Elements(processes)}
      <3>2. P \subseteq NamedPlugin
        BY <3>1
      <3> HIDE DEF P
      <3>3. OutputLinks(P) \subseteq Names \X Names
        BY <3>2, OutputLinksAreLinks
      <3>4. subs' = subs \cup OutputLinks(P)
        BY <2>7 DEF SubscribeProcessOutputs, P
      <3>5. subs' \in SUBSET ((Names \cup NamedPlugin) \X Names)
        BY <3>3, <3>4 DEF TypeOK
      <3> QED
        BY <2>7, <3>5 DEF SubscribeProcessOutputs, TypeOK
    <2>8. CASE BrokerSubscribes
      <3>1. plugins \subseteq NamedPlugin
        BY DEF TypeOK
      <3>2. OutputLinks(plugins) \subseteq Names \X Names
        BY <3>1, OutputLinksAreLinks
      <3>3. PluginLinks(plugins) \subseteq NamedPlugin \X Names
        BY <3>1, PluginLinksAreLinks
      <3>4. StreamLinks({"inbound", "outbound"}) \subseteq Names \X Names
        BY StreamLinksAreLinks
      <3>5. CommandStreams \X {CmdTopic} \subseteq Names \X Names
        BY CommandStreamsAreNames, ServerAssumption
      <3>6. subs' \in SUBSET ((Names \cup NamedPlugin) \X Names)
        BY <2>8, <3>2, <3>3, <3>4, <3>5 DEF BrokerSubscribes, TypeOK
      <3> QED
        BY <2>8, <3>6 DEF BrokerSubscribes, TypeOK
    <2>9. ASSUME NEW ns \in Processes, ChildLoads(ns) PROVE TypeOK'
      <3>1. child[ns] \in Child
        BY DEF TypeOK
      <3>2. /\ Head(child[ns].todo) \in NamedPlugin
            /\ Tail(child[ns].todo) \in Seq(NamedPlugin)
        BY <2>9, <3>1, TailOfSeq DEF ChildLoads, Child
      <3>3. child' \in [Processes -> Child]
        BY <2>9, <3>1, <3>2 DEF ChildLoads, TypeOK, Child
      <3> QED
        BY <2>9, <3>3 DEF ChildLoads, TypeOK
    <2>10. ASSUME NEW ns \in Processes, ChildStarts(ns) PROVE TypeOK'
      <3>1. child[ns] \in Child
        BY DEF TypeOK
      <3>2. child' \in [Processes -> Child]
        BY <2>10, <3>1 DEF ChildStarts, TypeOK, Child
      <3>3. PluginLinks(child[ns].loaded) \subseteq NamedPlugin \X Names
        BY <3>1, PluginLinksAreLinks DEF Child
      <3>4. subs' \in SUBSET ((Names \cup NamedPlugin) \X Names)
        BY <2>10, <3>3 DEF ChildStarts, TypeOK
      <3> QED
        BY <2>10, <3>2, <3>4 DEF ChildStarts, TypeOK
    <2> QED
      BY <2>1, <2>2, <2>3, <2>4, <2>5, <2>6, <2>7, <2>8, <2>9, <2>10 DEF Next
  <1> QED
    BY <1>1, <1>2, PTL DEF Spec

-----------------------------------------------------------------------------
(* Unique names.                                                           *)

\* Both steps that add a stream look at the names in use first.
LEMMA StreamStep ==
    TypeOK /\ [Next]_vars =>
       \/ UNCHANGED streams
       \/ \E s \in Stream : /\ streams' = Append(streams, s)
                            /\ ~NameTaken(s.name)
  <1> SUFFICES ASSUME TypeOK, [Next]_vars
               PROVE  \/ UNCHANGED streams
                      \/ \E s \in Stream : /\ streams' = Append(streams, s)
                                           /\ ~NameTaken(s.name)
    OBVIOUS
  <1>1. CASE LoadStream
    <2>1. PICK e \in StreamEntry : \/ Creatable(e) /\ streams' = Append(streams, Created(e))
                                   \/ UNCHANGED streams
      <3>1. Head(streamsLeft) \in StreamEntry
        BY <1>1, TailOfSeq DEF LoadStream, TypeOK
      <3> QED
        BY <1>1, <3>1 DEF LoadStream
    <2>2. CASE Creatable(e) /\ streams' = Append(streams, Created(e))
      <3>1. e.name \in Names /\ ~NameTaken(e.name)
        BY <2>2 DEF Creatable, StreamEntry
      <3>2. Created(e) \in Stream /\ Created(e).name = e.name
        BY <3>1, CreatedIsStream DEF Created
      <3> QED
        BY <2>2, <3>1, <3>2
    <2> QED
      BY <2>1, <2>2
  <1>2. CASE CreateApiStream
    <2>1. CASE /\ ~\E e \in InboundEntries : Unreadable(e)
               /\ ~NameTaken(TlmTopic)
               /\ streams' = Append(streams, ApiStream)
      <3>1. ApiStream \in Stream
        BY <2>1, ApiStreamIsStream
      <3>2. ApiStream.name = TlmTopic
        BY DEF ApiStream
      <3> QED
        BY <2>1, <3>1, <3>2
    <2> QED
      BY <1>2, <2>1 DEF CreateApiStream
  <1>3. CASE LoadPlugin
    BY <1>3 DEF LoadPlugin
  <1>4. CASE StartGreenlets
    BY <1>4 DEF StartGreenlets
  <1>5. CASE SpawnProcess
    BY <1>5 DEF SpawnProcess
  <1>6. CASE SubscribeProcessOutputs
    BY <1>6 DEF SubscribeProcessOutputs
  <1>7. CASE BrokerSubscribes
    BY <1>7 DEF BrokerSubscribes
  <1>8. ASSUME NEW ns \in Processes, ChildLoads(ns) \/ ChildStarts(ns)
        PROVE  UNCHANGED streams
    BY <1>8 DEF ChildLoads, ChildStarts
  <1>9. CASE UNCHANGED vars
    BY <1>9 DEF vars
  <1> QED
    BY <1>1, <1>2, <1>3, <1>4, <1>5, <1>6, <1>7, <1>8, <1>9 DEF Next

\* Stream names are unique in the three lists together (server.py 228-234).
THEOREM StreamNamesAreUnique == Spec => []UniqueStreamNames
  <1>1. Init => UniqueStreamNames
    BY DEF Init, UniqueStreamNames
  <1>2. TypeOK /\ UniqueStreamNames /\ [Next]_vars => UniqueStreamNames'
    <2> SUFFICES ASSUME TypeOK, UniqueStreamNames, [Next]_vars
                 PROVE  UniqueStreamNames'
      OBVIOUS
    <2>1. CASE UNCHANGED streams
      BY <2>1 DEF UniqueStreamNames
    <2>2. ASSUME NEW s \in Stream,
                 streams' = Append(streams, s),
                 ~NameTaken(s.name)
          PROVE  UniqueStreamNames'
      <3>1. streams \in Seq(Stream)
        BY DEF TypeOK
      <3>2. /\ DOMAIN streams' = 1 .. Len(streams) + 1
            /\ \A i \in 1 .. Len(streams) : streams'[i] = streams[i]
            /\ streams'[Len(streams) + 1] = s
        BY <2>2, <3>1, AppendToSeq
      <3>3. \A i \in 1 .. Len(streams) : streams[i].name # s.name
        BY <2>2, <3>1 DEF NameTaken
      <3> QED
        BY <3>1, <3>2, <3>3 DEF UniqueStreamNames
    <2> QED
      BY <2>1, <2>2, StreamStep
  <1> QED
    BY <1>1, <1>2, TypeCorrect, PTL DEF Spec

-----------------------------------------------------------------------------
(* The streams loaded are those of the entries that stand.  The invariant  *)
(* says it of the entries read so far: the names in use are those of the   *)
(* fit entries, which is what _get_stream_name needs to tell the first of  *)
(* a name from the others.                                                 *)

Count == Len(config.streams) - Len(streamsLeft)

\* Entry j is fit, and no fit entry before it has its name.
Stands(q, j) == /\ Fit(q[j])
                /\ \A k \in 1 .. j - 1 : Fit(q[k]) => q[k].name # q[j].name

StandingUpTo(q, n) == {q[i] : i \in {j \in 1 .. n : Stands(q, j)}}

Left == /\ Len(streamsLeft) <= Len(config.streams)
        /\ \A i \in 1 .. Len(streamsLeft) : streamsLeft[i] = config.streams[Count + i]

Reading == /\ plugins = {}
           /\ Elements(streams) = {Created(e) : e \in StandingUpTo(config.streams, Count)}
           /\ \A i \in 1 .. Count : Fit(config.streams[i]) =>
                 \E s \in Elements(streams) : s.name = config.streams[i].name

Contained == Elements(streams) \ {ApiStream} =
                {Created(e) : e \in Standing(config.streams)} \ {ApiStream}

LoadInv == /\ Left
           /\ phase = "streams" => Reading
           /\ phase # "streams" => streamsLeft = <<>> /\ Contained

\* With nothing left, what was read is everything.
LEMMA AllRead == TypeOK /\ Left /\ Reading /\ streamsLeft = <<>> => Contained
  <1> SUFFICES ASSUME TypeOK, Left, Reading, streamsLeft = <<>> PROVE Contained
    OBVIOUS
  <1>1. Count = Len(config.streams) /\ config.streams \in Seq(StreamEntry)
    BY EmptyIsSeq DEF Count, TypeOK, Config
  <1>2. StandingUpTo(config.streams, Len(config.streams)) = Standing(config.streams)
    BY <1>1 DEF StandingUpTo, Standing, Stands
  <1> QED
    BY <1>1, <1>2 DEF Reading, Contained

\* Reading one more entry
LEMMA StandingOneMore ==
    ASSUME NEW q \in Seq(StreamEntry), NEW n \in 0 .. Len(q) - 1
    PROVE  StandingUpTo(q, n + 1) =
              StandingUpTo(q, n) \cup (IF Stands(q, n + 1) THEN {q[n + 1]} ELSE {})
  <1>1. 1 .. n + 1 = (1 .. n) \cup {n + 1}
    OBVIOUS
  <1> QED
    BY <1>1 DEF StandingUpTo

LEMMA LoadStreamKeepsLoadInv ==
    TypeOK /\ LoadInv /\ LoadStream => LoadInv'
  <1> SUFFICES ASSUME TypeOK, LoadInv, LoadStream PROVE LoadInv'
    OBVIOUS
  <1> DEFINE q == config.streams
             n == Count
             e == q[n + 1]
  <1>1. q \in Seq(StreamEntry) /\ Len(q) \in Nat
    BY DEF TypeOK, Config
  <1>2. /\ phase = "streams" /\ phase' = "streams"
        /\ plugins' = plugins /\ config' = config
        /\ streamsLeft \in Seq(StreamEntry) /\ streamsLeft # <<>>
        /\ streamsLeft' = Tail(streamsLeft)
    BY DEF LoadStream, TypeOK
  <1>3. Left /\ Reading
    BY <1>2 DEF LoadInv
  <1>4. /\ Len(streamsLeft) \in Nat \ {0}
        /\ Head(streamsLeft) = streamsLeft[1]
        /\ Len(streamsLeft') = Len(streamsLeft) - 1
        /\ \A i \in 1 .. Len(streamsLeft') : streamsLeft'[i] = streamsLeft[i + 1]
    BY <1>2, TailOfSeq
  <1>5. n \in 0 .. Len(q) - 1 /\ Count' = n + 1
    BY <1>1, <1>2, <1>3, <1>4 DEF Count, Left
  <1>6. Head(streamsLeft) = e /\ e \in StreamEntry
    BY <1>1, <1>3, <1>4, <1>5 DEF Left
  <1>7. Left'
    <2>1. Len(streamsLeft') <= Len(q)
      BY <1>1, <1>3, <1>4 DEF Left
    <2>2. ASSUME NEW i \in 1 .. Len(streamsLeft')
          PROVE  streamsLeft'[i] = q[Count' + i]
      <3>1. i + 1 \in 1 .. Len(streamsLeft) /\ n + (i + 1) = (n + 1) + i
        BY <1>4, <1>5
      <3>2. streamsLeft[i + 1] = q[n + (i + 1)]
        BY <1>3, <3>1 DEF Left
      <3> QED
        BY <1>4, <1>5, <3>1, <3>2
    <2> QED
      BY <1>2, <2>1, <2>2 DEF Left
  <1>8. (\E s \in Elements(streams) : s.name = e.name) <=>
           \E i \in 1 .. n : Fit(q[i]) /\ q[i].name = e.name
    <2>1. ASSUME NEW s \in Elements(streams), s.name = e.name
          PROVE  \E i \in 1 .. n : Fit(q[i]) /\ q[i].name = e.name
      <3>1. PICK f \in StandingUpTo(q, n) : s = Created(f)
        BY <1>3, <2>1 DEF Reading
      <3>2. f.name = e.name
        BY <2>1, <3>1 DEF Created
      <3> QED
        BY <3>1, <3>2 DEF StandingUpTo, Stands
    <2>2. ASSUME NEW i \in 1 .. n, Fit(q[i]), q[i].name = e.name
          PROVE  \E s \in Elements(streams) : s.name = e.name
      BY <1>3, <2>2 DEF Reading
    <2> QED
      BY <2>1, <2>2
  <1>9. Creatable(e) <=> Stands(q, n + 1)
    <2>1. NameTaken(e.name) <=> \E s \in Elements(streams) : s.name = e.name
      BY <1>3 DEF NameTaken, Reading
    <2>2. 1 .. (n + 1) - 1 = 1 .. n
      BY <1>5
    <2> QED
      BY <1>8, <2>1, <2>2 DEF Creatable, Stands, Fit
  <1>10. StandingUpTo(q, n + 1) =
            StandingUpTo(q, n) \cup (IF Stands(q, n + 1) THEN {e} ELSE {})
    BY <1>1, <1>5, StandingOneMore
  <1>11. \A i \in 1 .. n + 1 : i \in 1 .. n \/ i = n + 1
    BY <1>5
  <1>12. CASE Creatable(e)
    <2>1. streams' = Append(streams, Created(e))
      BY <1>6, <1>12 DEF LoadStream
    <2>2. Created(e) \in Stream
      BY <1>6, <1>12, CreatedIsStream DEF Creatable, StreamEntry
    <2>3. Elements(streams') = Elements(streams) \cup {Created(e)}
      <3>1. streams \in Seq(Stream)
        BY DEF TypeOK
      <3> HIDE DEF e
      <3> QED
        BY <2>1, <2>2, <3>1, AppendToSeq
    <2>4. Elements(streams') = {Created(f) : f \in StandingUpTo(q, n + 1)}
      BY <1>3, <1>9, <1>10, <1>12, <2>3 DEF Reading
    <2>5. Created(e).name = e.name
      BY DEF Created
    <2>6. \A i \in 1 .. n + 1 : Fit(q[i]) =>
             \E s \in Elements(streams') : s.name = q[i].name
      BY <1>3, <1>11, <2>3, <2>5 DEF Reading
    <2>7. Reading'
      BY <1>2, <1>3, <1>5, <2>4, <2>6 DEF Reading
    <2> QED
      BY <1>2, <1>7, <2>7 DEF LoadInv
  <1>13. CASE ~Creatable(e)
    <2>1. streams' = streams
      BY <1>6, <1>13 DEF LoadStream
    <2>2. Elements(streams') = {Created(f) : f \in StandingUpTo(q, n + 1)}
      BY <1>3, <1>9, <1>10, <1>13, <2>1 DEF Reading
    <2>3. Fit(e) => \E s \in Elements(streams) : s.name = e.name
      BY <1>3, <1>13 DEF Creatable, Fit, NameTaken, Reading
    <2>4. \A i \in 1 .. n + 1 : Fit(q[i]) =>
             \E s \in Elements(streams') : s.name = q[i].name
      BY <1>3, <1>11, <2>1, <2>3 DEF Reading
    <2>5. Reading'
      BY <1>2, <1>3, <1>5, <2>2, <2>4 DEF Reading
    <2> QED
      BY <1>2, <1>7, <2>5 DEF LoadInv
  <1> QED
    BY <1>12, <1>13

\* The API's stream only adds ApiStream, which depends on the configuration alone.
LEMMA ApiStreamKeepsLoadInv ==
    TypeOK /\ LoadInv /\ CreateApiStream => LoadInv'
  <1> SUFFICES ASSUME TypeOK, LoadInv, CreateApiStream PROVE LoadInv'
    OBVIOUS
  <1>1. /\ phase = "streams" /\ phase' # "streams" /\ streamsLeft = <<>>
        /\ UNCHANGED <<config, streamsLeft>>
    BY DEF CreateApiStream
  <1>2. Contained
    BY <1>1, AllRead DEF LoadInv
  <1>3. Elements(streams') \ {ApiStream} = Elements(streams) \ {ApiStream}
    <2>1. CASE UNCHANGED streams
      BY <2>1
    <2>2. CASE /\ ~\E e \in InboundEntries : Unreadable(e)
               /\ streams' = Append(streams, ApiStream)
      <3>1. ApiStream \in Stream /\ streams \in Seq(Stream)
        BY <2>2, ApiStreamIsStream DEF TypeOK
      <3>2. Elements(streams') = Elements(streams) \cup {ApiStream}
        BY <2>2, <3>1, AppendToSeq
      <3> QED
        BY <3>2
    <2> QED
      BY <2>1, <2>2 DEF CreateApiStream
  <1>4. ApiStream' = ApiStream
    BY <1>1 DEF ApiStream, ApiInputs, ValidApiStreams, InboundEntries
  <1>5. Contained'
    BY <1>1, <1>2, <1>3, <1>4 DEF Contained
  <1>6. Left'
    BY <1>1 DEF LoadInv, Left, Count
  <1> QED
    BY <1>1, <1>5, <1>6 DEF LoadInv

\* The other steps leave the streams alone.
LEMMA OthersKeepLoadInv ==
    ASSUME LoadInv, UNCHANGED <<config, streamsLeft, streams>>,
           \/ UNCHANGED <<phase, plugins>>
           \/ phase # "streams" /\ phase' # "streams"
    PROVE  LoadInv'
  <1>1. Left'
    BY DEF LoadInv, Left, Count
  <1>2. ApiStream' = ApiStream
    BY DEF ApiStream, ApiInputs, ValidApiStreams, InboundEntries
  <1>3. Contained' <=> Contained
    BY <1>2 DEF Contained
  <1>4. CASE UNCHANGED <<phase, plugins>>
    <2>1. Reading' <=> Reading
      BY <1>4 DEF Reading, Count
    <2> QED
      BY <1>1, <1>3, <1>4, <2>1 DEF LoadInv
  <1>5. CASE phase # "streams" /\ phase' # "streams"
    BY <1>1, <1>3, <1>5 DEF LoadInv
  <1> QED
    BY <1>4, <1>5

LEMMA LoadInvStep ==
    TypeOK /\ LoadInv /\ [Next]_vars => LoadInv'
  <1> SUFFICES ASSUME TypeOK, LoadInv, [Next]_vars PROVE LoadInv'
    OBVIOUS
  <1>1. CASE LoadStream
    BY <1>1, LoadStreamKeepsLoadInv
  <1>2. CASE CreateApiStream
    BY <1>2, ApiStreamKeepsLoadInv
  <1>3. CASE LoadPlugin
    BY <1>3, OthersKeepLoadInv DEF LoadPlugin
  <1>4. CASE StartGreenlets
    BY <1>4, OthersKeepLoadInv DEF StartGreenlets
  <1>5. CASE SpawnProcess
    BY <1>5, OthersKeepLoadInv DEF SpawnProcess
  <1>6. CASE SubscribeProcessOutputs
    BY <1>6, OthersKeepLoadInv DEF SubscribeProcessOutputs
  <1>7. CASE BrokerSubscribes
    BY <1>7, OthersKeepLoadInv DEF BrokerSubscribes
  <1>8. ASSUME NEW ns \in Processes, ChildLoads(ns) \/ ChildStarts(ns)
        PROVE  LoadInv'
    BY <1>8, OthersKeepLoadInv DEF ChildLoads, ChildStarts
  <1>9. CASE UNCHANGED vars
    BY <1>9, OthersKeepLoadInv DEF vars
  <1> QED
    BY <1>1, <1>2, <1>3, <1>4, <1>5, <1>6, <1>7, <1>8, <1>9 DEF Next

\* A stream entry that cannot be made a stream, or comes too late for its
\* name, costs nothing but itself (server.py 124-141).
THEOREM BadEntriesStayContained == Spec => []BadEntriesAreContained
  <1>1. Init => LoadInv
    <2> SUFFICES ASSUME Init PROVE LoadInv
      OBVIOUS
    <2>1. config.streams \in Seq(StreamEntry)
      BY ServerAssumption DEF Init, Config
    <2>2. streamsLeft = config.streams /\ Count = 0
      BY <2>1 DEF Init, Count
    <2>3. Left
      BY <2>1, <2>2 DEF Left
    <2>4. Reading
      BY <2>2 DEF Init, Reading, StandingUpTo
    <2> QED
      BY <2>3, <2>4 DEF Init, LoadInv
  <1>2. TypeOK /\ LoadInv /\ [Next]_vars => LoadInv'
    BY LoadInvStep
  <1>3. TypeOK /\ LoadInv => BadEntriesAreContained
    BY AllRead DEF LoadInv, BadEntriesAreContained, Contained
  <1> QED
    BY <1>1, <1>2, <1>3, TypeCorrect, PTL DEF Spec
-----------------------------------------------------------------------------
(* The streams there are once Server.__init__ goes on to the plugins: those *)
(* of the entries that stand, and the API's.                               *)

ApiStreams == IF ApiInputs = {} THEN {} ELSE {ApiStream}

StreamsLoaded ==
    phase \notin {"streams", "crashed"} =>
       Elements(streams) = {Created(e) : e \in Standing(config.streams)} \cup ApiStreams

LEMMA StreamsLoadedStep ==
    TypeOK /\ LoadInv /\ StreamsLoaded /\ [Next]_vars => StreamsLoaded'
  <1> SUFFICES ASSUME TypeOK, LoadInv, StreamsLoaded, [Next]_vars
               PROVE  StreamsLoaded'
    OBVIOUS
  <1> DEFINE All == {Created(e) : e \in Standing(config.streams)}
  <1>1. CASE CreateApiStream
    <2>1. /\ phase = "streams" /\ streamsLeft = <<>> /\ config' = config
      BY <1>1 DEF CreateApiStream
    <2>2. ApiStreams' = ApiStreams /\ All' = All
      BY <2>1 DEF ApiStreams, ApiStream, ApiInputs, ValidApiStreams, InboundEntries
    <2>3. Elements(streams) = All
      <3>1. Left /\ Reading
        BY <2>1 DEF LoadInv
      <3>2. Count = Len(config.streams) /\ config.streams \in Seq(StreamEntry)
        BY <2>1, EmptyIsSeq DEF Count, TypeOK, Config
      <3>3. StandingUpTo(config.streams, Len(config.streams)) = Standing(config.streams)
        BY <3>2 DEF StandingUpTo, Standing, Stands
      <3> QED
        BY <3>1, <3>2, <3>3 DEF Reading
    <2>4. CASE phase' = "crashed"
      BY <2>4 DEF StreamsLoaded
    <2>5. CASE ApiInputs = {} /\ UNCHANGED streams
      BY <2>2, <2>3, <2>5 DEF StreamsLoaded, ApiStreams
    <2>6. CASE /\ ~\E e \in InboundEntries : Unreadable(e)
               /\ ApiInputs # {}
               /\ streams' = Append(streams, ApiStream)
      <3>1. ApiStream \in Stream /\ streams \in Seq(Stream)
        BY <2>6, ApiStreamIsStream DEF TypeOK
      <3>2. Elements(streams') = Elements(streams) \cup {ApiStream}
        BY <2>6, <3>1, AppendToSeq
      <3> QED
        BY <2>2, <2>3, <2>6, <3>2 DEF StreamsLoaded, ApiStreams
    <2> QED
      BY <1>1, <2>4, <2>5, <2>6 DEF CreateApiStream
  <1>2. ASSUME UNCHANGED <<config, streams>>,
               phase' \notin {"streams", "crashed"} => phase \notin {"streams", "crashed"}
        PROVE  StreamsLoaded'
    <2>1. ApiStreams' = ApiStreams /\ All' = All
      BY <1>2 DEF ApiStreams, ApiStream, ApiInputs, ValidApiStreams, InboundEntries
    <2> QED
      BY <1>2, <2>1 DEF StreamsLoaded
  <1>3. CASE LoadStream
    BY <1>3 DEF LoadStream, StreamsLoaded
  <1>4. CASE LoadPlugin
    BY <1>2, <1>4 DEF LoadPlugin
  <1>5. CASE StartGreenlets
    BY <1>2, <1>5 DEF StartGreenlets
  <1>6. CASE SpawnProcess
    BY <1>2, <1>6 DEF SpawnProcess
  <1>7. CASE SubscribeProcessOutputs
    BY <1>2, <1>7 DEF SubscribeProcessOutputs
  <1>8. CASE BrokerSubscribes
    BY <1>2, <1>8 DEF BrokerSubscribes
  <1>9. ASSUME NEW ns \in Processes, ChildLoads(ns) \/ ChildStarts(ns)
        PROVE  StreamsLoaded'
    BY <1>2, <1>9 DEF ChildLoads, ChildStarts
  <1>10. CASE UNCHANGED vars
    BY <1>2, <1>10 DEF vars
  <1> QED
    BY <1>1, <1>3, <1>4, <1>5, <1>6, <1>7, <1>8, <1>9, <1>10 DEF Next

-----------------------------------------------------------------------------
(* The plugins: each entry read is loaded here, kept for its process, or    *)
(* nothing at all.                                                         *)

PluginCount == Len(config.plugins) - Len(pluginsLeft)

PluginsRead == {config.plugins[i] : i \in 1 .. PluginCount}

PluginsLeft ==
    /\ Len(pluginsLeft) <= Len(config.plugins)
    /\ \A i \in 1 .. Len(pluginsLeft) : pluginsLeft[i] = config.plugins[PluginCount + i]

Kept(R, ns) == {p \in R : p.process = ns /\ p.class # NoName}

PluginsLoaded ==
    /\ \A p \in PluginsRead : p.class # NullEntry
    /\ plugins = {p \in Kept(PluginsRead, NoProcess) : p.creatable}
    /\ Elements(processes) = {p.process : p \in {q \in PluginsRead : q.process # NoProcess}}
    /\ \A i, j \in DOMAIN processes : processes[i] = processes[j] => i = j
    /\ \A ns \in Processes : Elements(infos[ns]) = Kept(PluginsRead, ns)

\* No two entries of one process have the same class.
ClassesDiffer == \A i, j \in DOMAIN config.plugins :
                    /\ config.plugins[i].process # NoProcess
                    /\ config.plugins[i].process = config.plugins[j].process
                    /\ config.plugins[i].class = config.plugins[j].class
                    /\ config.plugins[i].class # NoName
                    => i = j

InfosDiffer == \A ns \in Processes : \A i, j \in DOMAIN infos[ns] :
                  infos[ns][i].class = infos[ns][j].class => i = j

PluginInv == /\ PluginsLeft
             /\ phase \in {"spawn", "joined"} => pluginsLeft = <<>>
             /\ phase # "crashed" => /\ PluginsLoaded
                                     /\ ClassesDiffer => InfosDiffer

LEMMA LoadPluginKeepsPluginInv ==
    TypeOK /\ PluginInv /\ LoadPlugin => PluginInv'
  <1> SUFFICES ASSUME TypeOK, PluginInv, LoadPlugin PROVE PluginInv'
    OBVIOUS
  <1> DEFINE q == config.plugins
             n == PluginCount
             p == q[n + 1]
             R == PluginsRead
  <1>1. q \in Seq(PluginEntry) /\ Len(q) \in Nat
    BY DEF TypeOK, Config
  <1>2. /\ phase = "plugins" /\ config' = config
        /\ pluginsLeft \in Seq(PluginEntry) /\ pluginsLeft # <<>>
        /\ pluginsLeft' = Tail(pluginsLeft)
        /\ phase' \in {"plugins", "crashed"}
    BY DEF LoadPlugin, TypeOK
  <1>3. PluginsLeft /\ PluginsLoaded /\ (ClassesDiffer => InfosDiffer)
    BY <1>2 DEF PluginInv
  <1>4. /\ Len(pluginsLeft) \in Nat \ {0}
        /\ Head(pluginsLeft) = pluginsLeft[1]
        /\ Len(pluginsLeft') = Len(pluginsLeft) - 1
        /\ \A i \in 1 .. Len(pluginsLeft') : pluginsLeft'[i] = pluginsLeft[i + 1]
    BY <1>2, TailOfSeq
  <1>5. n \in 0 .. Len(q) - 1 /\ PluginCount' = n + 1
    BY <1>1, <1>2, <1>3, <1>4 DEF PluginCount, PluginsLeft
  <1>6. Head(pluginsLeft) = p /\ p \in PluginEntry
    BY <1>1, <1>3, <1>4, <1>5 DEF PluginsLeft
  <1>7. PluginsLeft'
    <2>1. Len(pluginsLeft') <= Len(q)
      BY <1>1, <1>3, <1>4 DEF PluginsLeft
    <2>2. ASSUME NEW i \in 1 .. Len(pluginsLeft')
          PROVE  pluginsLeft'[i] = q[PluginCount' + i]
      <3>1. i + 1 \in 1 .. Len(pluginsLeft) /\ n + (i + 1) = (n + 1) + i
        BY <1>4, <1>5
      <3>2. pluginsLeft[i + 1] = q[n + (i + 1)]
        BY <1>3, <3>1 DEF PluginsLeft
      <3> QED
        BY <1>4, <1>5, <3>1, <3>2
    <2> QED
      BY <1>2, <2>1, <2>2 DEF PluginsLeft
  <1>8. PluginsRead' = R \cup {p}
    <2>1. 1 .. n + 1 = (1 .. n) \cup {n + 1}
      BY <1>5
    <2> QED
      BY <1>2, <1>5, <2>1 DEF PluginsRead
  <1>9. R \subseteq PluginEntry
    BY <1>1, <1>5 DEF PluginsRead
  <1>10. ClassesDiffer' <=> ClassesDiffer
    BY <1>2 DEF ClassesDiffer
  <1>11. phase' # "crashed" => p.class # NullEntry
    BY <1>6 DEF LoadPlugin
  <1>12. \A ns : Kept(R \cup {p}, ns) =
            Kept(R, ns) \cup (IF p.process = ns /\ p.class # NoName THEN {p} ELSE {})
    BY DEF Kept
  <1>13. PluginsLoaded <=>
           /\ \A x \in R : x.class # NullEntry
           /\ plugins = {x \in Kept(R, NoProcess) : x.creatable}
           /\ Elements(processes) = {x.process : x \in {y \in R : y.process # NoProcess}}
           /\ \A i, j \in DOMAIN processes : processes[i] = processes[j] => i = j
           /\ \A ns \in Processes : Elements(infos[ns]) = Kept(R, ns)
    BY DEF PluginsLoaded
  <1> HIDE DEF p, R, Elements
  <1>14. CASE p.class # NullEntry /\ LoadOwnPlugin(p)
    <2>1. plugins' = {x \in Kept(R \cup {p}, NoProcess) : x.creatable}
      BY <1>3, <1>12, <1>13, <1>14 DEF LoadOwnPlugin
    <2>2. \A ns \in Processes : Kept(R \cup {p}, ns) = Kept(R, ns)
      BY <1>12, <1>14, ServerAssumption DEF LoadOwnPlugin
    <2>3. PluginsLoaded'
      <3>1. \A x \in R \cup {p} : x.class # NullEntry
        BY <1>3, <1>13, <1>14
      <3>2. processes' = processes /\ infos' = infos
        BY <1>14 DEF LoadOwnPlugin
      <3>3. Elements(processes) =
               {x.process : x \in {y \in R \cup {p} : y.process # NoProcess}}
        BY <1>3, <1>13, <1>14 DEF LoadOwnPlugin
      <3>4. \A ns \in Processes : Elements(infos[ns]) = Kept(R \cup {p}, ns)
        BY <1>3, <1>13, <2>2
      <3>5. \A i, j \in DOMAIN processes : processes[i] = processes[j] => i = j
        BY <1>3, <1>13
      <3> QED
        BY <1>8, <2>1, <3>1, <3>2, <3>3, <3>4, <3>5 DEF PluginsLoaded
    <2>4. InfosDiffer' <=> InfosDiffer
      BY <1>14 DEF LoadOwnPlugin, InfosDiffer
    <2> QED
      BY <1>2, <1>3, <1>7, <1>8, <1>10, <2>3, <2>4 DEF PluginInv
  <1>15. CASE p.class # NullEntry /\ DeferPlugin(p)
    <2>1. p.process \in Processes /\ p.process # NoProcess
      BY <1>6, <1>15 DEF DeferPlugin, PluginEntry
    <2>2. p.class # NoName => p \in NamedPlugin
      BY <1>6, <1>15 DEF NamedPlugin, PluginEntry
    <2>3. plugins' = {x \in Kept(R \cup {p}, NoProcess) : x.creatable}
      BY <1>3, <1>12, <1>13, <1>15, <2>1 DEF DeferPlugin
    <2>4. processes \in Seq(Processes) /\ infos \in [Processes -> Seq(NamedPlugin)]
      BY DEF TypeOK
    <2>5. /\ Elements(processes') = Elements(processes) \cup {p.process}
          /\ \A i, j \in DOMAIN processes' : processes'[i] = processes'[j] => i = j
      <3>1. CASE p.process \in Elements(processes)
        BY <1>3, <1>15, <3>1, <1>13 DEF DeferPlugin
      <3>2. CASE p.process \notin Elements(processes)
        <4>1. processes' = Append(processes, p.process)
          BY <1>15, <3>2 DEF DeferPlugin
        <4>2. /\ Len(processes') = Len(processes) + 1
              /\ processes' \in Seq(Processes)
              /\ \A i \in 1 .. Len(processes) : processes'[i] = processes[i]
              /\ processes'[Len(processes) + 1] = p.process
              /\ Elements(processes') = Elements(processes) \cup {p.process}
          BY <2>1, <2>4, <4>1, AppendToSeq
        <4>3. /\ DOMAIN processes = 1 .. Len(processes)
              /\ DOMAIN processes' = 1 .. Len(processes) + 1
              /\ Len(processes) \in Nat
          BY <2>4, <4>2
        <4>4. \A i \in DOMAIN processes : processes[i] # p.process
          BY <3>2 DEF Elements
        <4> QED
          BY <1>3, <1>13, <4>2, <4>3, <4>4
      <3> QED
        BY <3>1, <3>2
    <2>6. Elements(processes') = {x.process : x \in {y \in R \cup {p} : y.process # NoProcess}}
      BY <1>3, <2>1, <2>5, <1>13
    <2>7. \A ns \in Processes : Elements(infos'[ns]) = Kept(R \cup {p}, ns)
      <3> TAKE ns \in Processes
      <3>1. CASE ns = p.process /\ p.class # NoName
        <4>1. infos'[ns] = Append(infos[ns], p)
          BY <1>15, <2>4, <3>1 DEF DeferPlugin
        <4>2. Elements(infos'[ns]) = Elements(infos[ns]) \cup {p}
          BY <2>2, <2>4, <3>1, <4>1, AppendToSeq
        <4> QED
          BY <1>3, <1>12, <3>1, <4>2, <1>13
      <3>2. CASE ~(ns = p.process /\ p.class # NoName)
        <4>1. infos'[ns] = infos[ns]
          BY <1>15, <2>4, <3>2 DEF DeferPlugin
        <4> QED
          BY <1>3, <1>12, <3>2, <4>1, <1>13
      <3> QED
        BY <3>1, <3>2
    <2>8. PluginsLoaded'
      <3>1. \A x \in R \cup {p} : x.class # NullEntry
        BY <1>3, <1>13, <1>15
      <3> QED
        BY <1>8, <2>3, <2>5, <2>6, <2>7, <3>1 DEF PluginsLoaded
    <2>9. ClassesDiffer => InfosDiffer'
      <3> SUFFICES ASSUME ClassesDiffer, NEW ns \in Processes,
                          NEW i \in DOMAIN infos'[ns], NEW j \in DOMAIN infos'[ns],
                          infos'[ns][i].class = infos'[ns][j].class
                   PROVE  i = j
        BY DEF InfosDiffer
      <3>1. CASE ns = p.process /\ p.class # NoName
        <4>1. infos'[ns] = Append(infos[ns], p)
          BY <1>15, <2>4, <3>1 DEF DeferPlugin
        <4>2. /\ DOMAIN infos'[ns] = 1 .. Len(infos[ns]) + 1
              /\ \A k \in 1 .. Len(infos[ns]) : infos'[ns][k] = infos[ns][k]
              /\ infos'[ns][Len(infos[ns]) + 1] = p
              /\ Len(infos[ns]) \in Nat
              /\ DOMAIN infos[ns] = 1 .. Len(infos[ns])
          BY <2>2, <2>4, <3>1, <4>1, AppendToSeq
        <4>3. \A x \in Kept(R, ns) : x.class # p.class
          <5> SUFFICES ASSUME NEW x \in Kept(R, ns), x.class = p.class PROVE FALSE
            OBVIOUS
          <5>1. PICK k \in 1 .. n : x = q[k]
            BY DEF Kept, R, PluginsRead
          <5>2. k \in DOMAIN q /\ n + 1 \in DOMAIN q /\ k # n + 1
            BY <1>1, <1>5
          <5>3. /\ q[k].process = q[n + 1].process
                /\ q[k].process # NoProcess
                /\ q[k].class = q[n + 1].class
                /\ q[k].class # NoName
            BY <2>1, <3>1, <5>1 DEF Kept, p
          <5> QED
            BY <5>2, <5>3 DEF ClassesDiffer
        <4>4. \A k \in 1 .. Len(infos[ns]) : infos[ns][k].class # p.class
          <5>1. \A k \in 1 .. Len(infos[ns]) : infos[ns][k] \in Elements(infos[ns])
            BY <4>2 DEF Elements
          <5>2. Elements(infos[ns]) = Kept(R, ns)
            BY <1>3, <1>13
          <5> QED
            BY <4>3, <5>1, <5>2
        <4>5. \A k, l \in 1 .. Len(infos[ns]) : infos[ns][k].class = infos[ns][l].class => k = l
          BY <1>3, <4>2 DEF InfosDiffer
        <4>6. PICK before : before = infos[ns]
          OBVIOUS
        <4>7. PICK after : after = infos'[ns]
          OBVIOUS
        <4>8. /\ i \in 1 .. Len(before) \/ i = Len(before) + 1
              /\ j \in 1 .. Len(before) \/ j = Len(before) + 1
          BY <4>2, <4>6
        <4>9. after[i].class = after[j].class
          BY <4>7
        <4>10. CASE i \in 1 .. Len(before) /\ j \in 1 .. Len(before)
          BY <4>2, <4>5, <4>6, <4>7, <4>9, <4>10
        <4>11. CASE i \in 1 .. Len(before) /\ j = Len(before) + 1
          BY <4>2, <4>4, <4>6, <4>7, <4>9, <4>11
        <4>12. CASE i = Len(before) + 1 /\ j \in 1 .. Len(before)
          BY <4>2, <4>4, <4>6, <4>7, <4>9, <4>12
        <4> QED
          BY <4>8, <4>10, <4>11, <4>12
      <3>2. CASE ~(ns = p.process /\ p.class # NoName)
        <4>1. infos'[ns] = infos[ns]
          BY <1>15, <2>4, <3>2 DEF DeferPlugin
        <4> QED
          BY <1>3, <4>1 DEF InfosDiffer
      <3> QED
        BY <3>1, <3>2
    <2> QED
      BY <1>2, <1>7, <1>8, <1>10, <2>8, <2>9 DEF PluginInv
  <1>16. CASE phase' = "crashed"
    BY <1>7, <1>16 DEF PluginInv
  <1> QED
    BY <1>6, <1>14, <1>15, <1>16 DEF LoadPlugin

LEMMA PluginInvStep ==
    TypeOK /\ PluginInv /\ [Next]_vars => PluginInv'
  <1> SUFFICES ASSUME TypeOK, PluginInv, [Next]_vars PROVE PluginInv'
    OBVIOUS
  <1>1. ASSUME UNCHANGED <<config, pluginsLeft, plugins, processes, infos>>,
               phase' # "crashed" => phase # "crashed",
               phase' \in {"spawn", "joined"} => pluginsLeft = <<>>
        PROVE  PluginInv'
    <2>1. /\ PluginsLeft'
          /\ PluginsRead' = PluginsRead
          /\ ClassesDiffer' <=> ClassesDiffer
          /\ InfosDiffer' <=> InfosDiffer
      BY <1>1 DEF PluginInv, PluginsLeft, PluginCount, PluginsRead, ClassesDiffer,
                  InfosDiffer
    <2>2. PluginsLoaded' <=> PluginsLoaded
      BY <1>1, <2>1 DEF PluginsLoaded
    <2> QED
      BY <1>1, <2>1, <2>2 DEF PluginInv
  <1>2. CASE LoadPlugin
    BY <1>2, LoadPluginKeepsPluginInv
  <1>3. CASE LoadStream
    BY <1>1, <1>3 DEF LoadStream
  <1>4. CASE CreateApiStream
    BY <1>1, <1>4 DEF CreateApiStream
  <1>5. CASE StartGreenlets
    BY <1>1, <1>5 DEF StartGreenlets
  <1>6. CASE SpawnProcess
    BY <1>1, <1>6 DEF SpawnProcess, PluginInv
  <1>7. CASE SubscribeProcessOutputs
    BY <1>1, <1>7 DEF SubscribeProcessOutputs, PluginInv
  <1>8. CASE BrokerSubscribes
    BY <1>1, <1>8 DEF BrokerSubscribes, PluginInv
  <1>9. ASSUME NEW ns \in Processes, ChildLoads(ns) \/ ChildStarts(ns)
        PROVE  PluginInv'
    BY <1>1, <1>9 DEF ChildLoads, ChildStarts, Spawned, PluginInv
  <1>10. CASE UNCHANGED vars
    BY <1>1, <1>10 DEF vars, PluginInv
  <1> QED
    BY <1>2, <1>3, <1>4, <1>5, <1>6, <1>7, <1>8, <1>9, <1>10 DEF Next
-----------------------------------------------------------------------------
(* The processes and the subscriptions: what is subscribed at any moment is *)
(* told by which of the three parties have run.                            *)

\* What is spawned once, in the order of toSpawn
SpawnInv == /\ phase \in {"spawn", "joined"} => Elements(toSpawn) \subseteq Elements(processes)
            /\ phase = "joined" => toSpawn = <<>>
            /\ \A i, j \in DOMAIN toSpawn : toSpawn[i] = toSpawn[j] => i = j

Idle == [todo |-> <<>>, loaded |-> {}, up |-> FALSE]

ChildInv ==
    \A ns \in Processes :
       /\ ~Spawned(ns) => child[ns] = Idle
       /\ Spawned(ns) => {p \in Elements(infos[ns]) : p.creatable} =
                            child[ns].loaded \cup {p \in Elements(child[ns].todo) : p.creatable}
       /\ child[ns].up => child[ns].todo = <<>>

BrokerLinks == StreamLinks({"inbound", "outbound"})
                  \cup PluginLinks(plugins)
                  \cup OutputLinks(plugins)
                  \cup (CommandStreams \X {CmdTopic})

ProcessLinks == OutputLinks(UNION {LastOfClass(infos[ns]) : ns \in Elements(processes)})

ChildLinks == UNION {PluginLinks(child[ns].loaded) : ns \in {n \in Processes : child[n].up}}

SubsInv == /\ broker => phase \in {"spawn", "joined"}
           /\ subs = (IF broker THEN BrokerLinks ELSE {})
                       \cup (IF phase = "joined" THEN ProcessLinks ELSE {})
                       \cup ChildLinks

WireInv == SpawnInv /\ ChildInv /\ SubsInv

\* The first element and the rest are all there is.
LEMMA ElementsOfTail ==
    ASSUME NEW S, NEW q \in Seq(S), q # <<>>
    PROVE  Elements(q) = {Head(q)} \cup Elements(Tail(q))
  <1>1. /\ Len(q) \in Nat \ {0}
        /\ Head(q) = q[1]
        /\ Len(Tail(q)) = Len(q) - 1
        /\ \A i \in 1 .. Len(Tail(q)) : Tail(q)[i] = q[i + 1]
        /\ Tail(q) \in Seq(S)
    BY TailOfSeq
  <1>2. DOMAIN q = 1 .. Len(q) /\ DOMAIN Tail(q) = 1 .. Len(q) - 1
    BY <1>1
  <1>3. ASSUME NEW i \in DOMAIN q
        PROVE  q[i] \in {Head(q)} \cup Elements(Tail(q))
    <2>1. CASE i = 1
      BY <1>1, <2>1
    <2>2. CASE i # 1
      <3>1. i - 1 \in DOMAIN Tail(q) /\ i - 1 \in 1 .. Len(Tail(q)) /\ (i - 1) + 1 = i
        BY <1>1, <1>2, <2>2
      <3>2. Tail(q)[i - 1] = q[i]
        BY <1>1, <3>1
      <3> QED
        BY <3>1, <3>2
    <2> QED
      BY <2>1, <2>2
  <1>4. ASSUME NEW i \in DOMAIN Tail(q)
        PROVE  Tail(q)[i] \in Elements(q)
    <2>1. i \in 1 .. Len(Tail(q)) /\ i + 1 \in DOMAIN q
      BY <1>1, <1>2
    <2>2. Tail(q)[i] = q[i + 1]
      BY <1>1, <2>1
    <2> QED
      BY <2>1, <2>2
  <1>5. Head(q) \in Elements(q)
    BY <1>1, <1>2
  <1> QED
    BY <1>3, <1>4, <1>5

LEMMA SpawnKeepsWireInv ==
    TypeOK /\ WireInv /\ SpawnProcess => WireInv'
  <1> SUFFICES ASSUME TypeOK, WireInv, SpawnProcess PROVE WireInv'
    OBVIOUS
  <1>0. PICK h \in Processes : h = Head(toSpawn)
    BY TailOfSeq DEF SpawnProcess, TypeOK
  <1>1. /\ phase = "spawn" /\ toSpawn # <<>> /\ toSpawn' = Tail(toSpawn)
        /\ child' = [child EXCEPT ![h].todo = infos[h]]
        /\ UNCHANGED <<config, phase, streams, plugins, processes, infos, broker, subs>>
        /\ toSpawn \in Seq(Processes) /\ child \in [Processes -> Child]
    BY <1>0 DEF SpawnProcess, TypeOK
  <1>2. /\ Len(toSpawn) \in Nat \ {0}
        /\ h = toSpawn[1]
        /\ Tail(toSpawn) \in Seq(Processes)
        /\ Len(Tail(toSpawn)) = Len(toSpawn) - 1
        /\ \A i \in 1 .. Len(Tail(toSpawn)) : Tail(toSpawn)[i] = toSpawn[i + 1]
    BY <1>0, <1>1, TailOfSeq
  <1>3. Elements(toSpawn) = {h} \cup Elements(toSpawn')
    BY <1>0, <1>1, ElementsOfTail
  <1>4. /\ \A i, j \in DOMAIN toSpawn' : toSpawn'[i] = toSpawn'[j] => i = j
        /\ h \notin Elements(toSpawn')
    <2>1. DOMAIN toSpawn = 1 .. Len(toSpawn) /\ DOMAIN toSpawn' = 1 .. Len(toSpawn) - 1
      BY <1>1, <1>2
    <2>2. ASSUME NEW i \in DOMAIN toSpawn'
          PROVE  toSpawn'[i] = toSpawn[i + 1] /\ i + 1 \in DOMAIN toSpawn /\ i + 1 # 1
      BY <1>1, <1>2, <2>1
    <2>3. \A i, j \in DOMAIN toSpawn : toSpawn[i] = toSpawn[j] => i = j
      BY DEF WireInv, SpawnInv
    <2>4. 1 \in DOMAIN toSpawn
      BY <1>2, <2>1
    <2>5. ASSUME NEW i \in DOMAIN toSpawn', NEW j \in DOMAIN toSpawn',
                 toSpawn'[i] = toSpawn'[j]
          PROVE  i = j
      <3>1. i + 1 = j + 1
        BY <2>2, <2>3, <2>5
      <3> QED
        BY <2>1, <3>1, <1>2
    <2>6. ASSUME NEW i \in DOMAIN toSpawn' PROVE toSpawn'[i] # h
      BY <1>2, <2>2, <2>3, <2>4
    <2> QED
      BY <2>5, <2>6
  <1> HIDE DEF Elements
  <1>5. SpawnInv'
    BY <1>1, <1>3, <1>4 DEF WireInv, SpawnInv
  <1>6. h \in Elements(processes) /\ ~Spawned(h) /\ Spawned(h)'
    BY <1>1, <1>3, <1>4 DEF WireInv, SpawnInv, Spawned
  <1>7. child[h] = Idle /\ child'[h] = [Idle EXCEPT !.todo = infos[h]]
    BY <1>1, <1>2, <1>6 DEF WireInv, ChildInv
  <1>8. ASSUME NEW ns \in Processes, ns # h
        PROVE  child'[ns] = child[ns] /\ (Spawned(ns)' <=> Spawned(ns))
    BY <1>1, <1>3, <1>8 DEF Spawned
  <1>9. ChildInv'
    <2>1. ASSUME NEW ns \in Processes
          PROVE  /\ ~Spawned(ns)' => child'[ns] = Idle
                 /\ Spawned(ns)' => {p \in Elements(infos'[ns]) : p.creatable} =
                       child'[ns].loaded \cup {p \in Elements(child'[ns].todo) : p.creatable}
                 /\ child'[ns].up => child'[ns].todo = <<>>
      <3>1. CASE ns = h
        BY <1>1, <1>6, <1>7, <3>1 DEF Idle
      <3>2. CASE ns # h
        BY <1>1, <1>8, <3>2 DEF WireInv, ChildInv
      <3> QED
        BY <3>1, <3>2
    <2> QED
      BY <2>1 DEF ChildInv, Idle
  <1>10. SubsInv'
    <2>1. \A ns \in Processes : /\ child'[ns].up = child[ns].up
                                /\ child'[ns].loaded = child[ns].loaded
      BY <1>1, <1>7, <1>8 DEF Idle
    <2>2. ChildLinks' = ChildLinks
      BY <2>1 DEF ChildLinks, PluginLinks
    <2>3. BrokerLinks' = BrokerLinks /\ ProcessLinks' = ProcessLinks
      BY <1>1 DEF BrokerLinks, ProcessLinks, StreamLinks, PluginLinks, OutputLinks,
                  OutboundNames, CommandStreams, LastOfClass, Elements
    <2> QED
      BY <1>1, <2>2, <2>3 DEF WireInv, SubsInv
  <1> QED
    BY <1>5, <1>9, <1>10 DEF WireInv

LEMMA ChildLoadsKeepsWireInv ==
    ASSUME TypeOK, WireInv, NEW ns \in Processes, ChildLoads(ns)
    PROVE  WireInv'
  <1> DEFINE p == Head(child[ns].todo)
  <1>1. /\ UNCHANGED <<config, phase, streams, plugins, processes, infos, toSpawn, broker, subs>>
        /\ Spawned(ns) /\ child[ns].todo # <<>>
        /\ child' = [child EXCEPT ![ns].todo = Tail(@),
                                  ![ns].loaded = IF p.creatable THEN @ \cup {p} ELSE @]
        /\ child \in [Processes -> Child]
    BY DEF ChildLoads, TypeOK
  <1>2. /\ child'[ns].todo = Tail(child[ns].todo)
        /\ child'[ns].loaded = IF p.creatable THEN child[ns].loaded \cup {p}
                               ELSE child[ns].loaded
        /\ child'[ns].up = child[ns].up
    <2>1. child[ns] \in Child
      BY <1>1
    <2> QED
      BY <1>1, <2>1 DEF Child
  <1>3. ~child[ns].up
    BY <1>1 DEF WireInv, ChildInv
  <1>4. Elements(child[ns].todo) = {p} \cup Elements(Tail(child[ns].todo))
    <2>1. child[ns].todo \in Seq(NamedPlugin)
      BY <1>1 DEF Child
    <2> QED
      BY <1>1, <2>1, ElementsOfTail
  <1> HIDE DEF p, Elements
  <1>5. \A n : Spawned(n)' <=> Spawned(n)
    BY <1>1 DEF Spawned
  <1>6. \A n \in Processes : n # ns => child'[n] = child[n]
    BY <1>1
  <1>7. SpawnInv'
    BY <1>1 DEF WireInv, SpawnInv
  <1>8. ChildInv'
    <2>1. ASSUME NEW n \in Processes
          PROVE  /\ ~Spawned(n)' => child'[n] = Idle
                 /\ Spawned(n)' => {x \in Elements(infos'[n]) : x.creatable} =
                       child'[n].loaded \cup {x \in Elements(child'[n].todo) : x.creatable}
                 /\ child'[n].up => child'[n].todo = <<>>
      <3>1. CASE n = ns
        <4>1. {x \in Elements(infos[ns]) : x.creatable} =
                 child[ns].loaded \cup {x \in Elements(child[ns].todo) : x.creatable}
          BY <1>1 DEF WireInv, ChildInv
        <4>2. {x \in Elements(infos'[ns]) : x.creatable} =
                 child'[ns].loaded \cup {x \in Elements(child'[ns].todo) : x.creatable}
          BY <1>1, <1>2, <1>4, <4>1
        <4> QED
          BY <1>1, <1>2, <1>3, <1>5, <3>1, <4>2
      <3>2. CASE n # ns
        BY <1>1, <1>5, <1>6, <3>2 DEF WireInv, ChildInv
      <3> QED
        BY <3>1, <3>2
    <2> QED
      BY <2>1 DEF ChildInv, Idle
  <1>9. SubsInv'
    <2>1. {n \in Processes : child'[n].up} = {n \in Processes : child[n].up}
      BY <1>2, <1>6
    <2>2. \A n \in {m \in Processes : child[m].up} : child'[n].loaded = child[n].loaded
      BY <1>3, <1>6
    <2>3. ChildLinks' = ChildLinks
      BY <2>1, <2>2 DEF ChildLinks, PluginLinks
    <2>4. BrokerLinks' = BrokerLinks /\ ProcessLinks' = ProcessLinks
      BY <1>1 DEF BrokerLinks, ProcessLinks, StreamLinks, PluginLinks, OutputLinks,
                  OutboundNames, CommandStreams, LastOfClass, Elements
    <2> QED
      BY <1>1, <2>3, <2>4 DEF WireInv, SubsInv
  <1> QED
    BY <1>7, <1>8, <1>9 DEF WireInv

LEMMA ChildStartsKeepsWireInv ==
    ASSUME TypeOK, WireInv, NEW ns \in Processes, ChildStarts(ns)
    PROVE  WireInv'
  <1>1. /\ UNCHANGED <<config, phase, streams, plugins, processes, infos, toSpawn, broker>>
        /\ Spawned(ns) /\ child[ns].todo = <<>> /\ ~child[ns].up
        /\ child' = [child EXCEPT ![ns].up = TRUE]
        /\ subs' = subs \cup PluginLinks(child[ns].loaded)
        /\ child \in [Processes -> Child]
    BY DEF ChildStarts, TypeOK
  <1>2. /\ child'[ns].todo = child[ns].todo
        /\ child'[ns].loaded = child[ns].loaded
        /\ child'[ns].up
    <2>1. child[ns] \in Child
      BY <1>1
    <2> QED
      BY <1>1, <2>1 DEF Child
  <1> HIDE DEF Elements
  <1>3. \A n : Spawned(n)' <=> Spawned(n)
    BY <1>1 DEF Spawned
  <1>4. \A n \in Processes : n # ns => child'[n] = child[n]
    BY <1>1
  <1>5. SpawnInv'
    BY <1>1 DEF WireInv, SpawnInv
  <1>6. ChildInv'
    <2>1. ASSUME NEW n \in Processes
          PROVE  /\ ~Spawned(n)' => child'[n] = Idle
                 /\ Spawned(n)' => {x \in Elements(infos'[n]) : x.creatable} =
                       child'[n].loaded \cup {x \in Elements(child'[n].todo) : x.creatable}
                 /\ child'[n].up => child'[n].todo = <<>>
      <3>1. CASE n = ns
        <4>1. {x \in Elements(infos[ns]) : x.creatable} =
                 child[ns].loaded \cup {x \in Elements(child[ns].todo) : x.creatable}
          BY <1>1 DEF WireInv, ChildInv
        <4> QED
          BY <1>1, <1>2, <1>3, <3>1, <4>1
      <3>2. CASE n # ns
        BY <1>1, <1>3, <1>4, <3>2 DEF WireInv, ChildInv
      <3> QED
        BY <3>1, <3>2
    <2> QED
      BY <2>1 DEF ChildInv, Idle
  <1>7. SubsInv'
    <2>1. {n \in Processes : child'[n].up} = {n \in Processes : child[n].up} \cup {ns}
      BY <1>2, <1>4
    <2>2. \A n \in Processes : child'[n].loaded = child[n].loaded
      BY <1>2, <1>4
    <2>3. ChildLinks' = ChildLinks \cup PluginLinks(child[ns].loaded)
      BY <2>1, <2>2 DEF ChildLinks, PluginLinks
    <2>4. BrokerLinks' = BrokerLinks /\ ProcessLinks' = ProcessLinks
      BY <1>1 DEF BrokerLinks, ProcessLinks, StreamLinks, PluginLinks, OutputLinks,
                  OutboundNames, CommandStreams, LastOfClass, Elements
    <2> QED
      BY <1>1, <2>3, <2>4 DEF WireInv, SubsInv
  <1> QED
    BY <1>5, <1>6, <1>7 DEF WireInv

\* Until wait is called nothing is spawned and nothing subscribed.
LEMMA EarlyWireInv ==
    ASSUME WireInv, phase \notin {"spawn", "joined"}
    PROVE  /\ ~broker /\ subs = {}
           /\ \A ns \in Processes : child[ns] = Idle
  <1>1. \A ns \in Processes : child[ns] = Idle
    BY DEF WireInv, ChildInv, Spawned
  <1>2. ChildLinks = {}
    BY <1>1 DEF ChildLinks, Idle
  <1> QED
    BY <1>1, <1>2 DEF WireInv, SubsInv

LEMMA WireInvStep ==
    TypeOK /\ PluginInv /\ WireInv /\ [Next]_vars => WireInv'
  <1> SUFFICES ASSUME TypeOK, PluginInv, WireInv, [Next]_vars PROVE WireInv'
    OBVIOUS
  <1> HIDE DEF Elements
  <1>1. ASSUME UNCHANGED <<toSpawn, broker, child, subs>>,
               phase \notin {"spawn", "joined"},
               phase' \notin {"spawn", "joined"}
        PROVE  WireInv'
    <2>1. SpawnInv'
      BY <1>1 DEF WireInv, SpawnInv
    <2>2. ChildInv'
      <3>1. \A ns \in Processes : child'[ns] = Idle /\ ~Spawned(ns)'
        BY <1>1, EarlyWireInv DEF Spawned
      <3> QED
        BY <3>1 DEF ChildInv, Idle
    <2>3. ~broker' /\ subs' = {} /\ ChildLinks' = {}
      BY <1>1, EarlyWireInv DEF ChildLinks, Idle
    <2> QED
      BY <1>1, <2>1, <2>2, <2>3 DEF WireInv, SubsInv
  <1>2. ASSUME UNCHANGED <<config, streams, plugins, processes, infos, toSpawn, child>>
        PROVE  /\ BrokerLinks' = BrokerLinks
               /\ ProcessLinks' = ProcessLinks
               /\ ChildLinks' = ChildLinks
    BY <1>2 DEF BrokerLinks, ProcessLinks, ChildLinks, StreamLinks, PluginLinks,
                OutputLinks, OutboundNames, CommandStreams, LastOfClass, Elements
  <1>3. CASE LoadStream
    BY <1>1, <1>3 DEF LoadStream
  <1>4. CASE CreateApiStream
    BY <1>1, <1>4 DEF CreateApiStream
  <1>5. CASE LoadPlugin
    BY <1>1, <1>5 DEF LoadPlugin
  <1>a. CASE StartGreenlets /\ phase' = "crashed"
    BY <1>1, <1>a DEF StartGreenlets
  <1>6. CASE StartGreenlets /\ phase' # "crashed"
    <2>1. /\ phase = "plugins" /\ phase' = "spawn" /\ toSpawn' = processes
          /\ UNCHANGED <<config, streams, plugins, processes, infos, broker, child, subs>>
      BY <1>6 DEF StartGreenlets
    <2>2. \A i, j \in DOMAIN processes : processes[i] = processes[j] => i = j
      BY <2>1 DEF PluginInv, PluginsLoaded
    <2>3. SpawnInv'
      BY <2>1, <2>2 DEF SpawnInv
    <2>4. ChildInv'
      <3>1. \A ns \in Processes : child'[ns] = Idle /\ ~Spawned(ns)'
        BY <2>1, EarlyWireInv DEF Spawned
      <3> QED
        BY <3>1 DEF ChildInv, Idle
    <2>5. ~broker' /\ subs' = {} /\ ChildLinks' = {}
      BY <2>1, EarlyWireInv DEF ChildLinks, Idle
    <2> QED
      BY <2>1, <2>3, <2>4, <2>5 DEF WireInv, SubsInv
  <1>7. CASE SpawnProcess
    BY <1>7, SpawnKeepsWireInv
  <1>8. CASE SubscribeProcessOutputs
    <2>1. /\ phase = "spawn" /\ phase' = "joined" /\ toSpawn = <<>>
          /\ subs' = subs \cup ProcessLinks
          /\ UNCHANGED <<config, streams, plugins, processes, infos, toSpawn, broker, child>>
      BY <1>8 DEF SubscribeProcessOutputs, ProcessLinks
    <2>2. SpawnInv'
      BY <2>1 DEF WireInv, SpawnInv
    <2>3. \A n : Spawned(n)' <=> Spawned(n)
      BY <2>1 DEF Spawned
    <2>4. ChildInv'
      BY <2>1, <2>3 DEF WireInv, ChildInv
    <2>5. SubsInv'
      BY <1>2, <2>1 DEF WireInv, SubsInv
    <2> QED
      BY <2>2, <2>4, <2>5 DEF WireInv
  <1>9. CASE BrokerSubscribes
    <2>1. /\ phase \in {"spawn", "joined"} /\ ~broker /\ broker' = TRUE
          /\ subs' = subs \cup BrokerLinks
          /\ UNCHANGED <<config, phase, streams, plugins, processes, infos, toSpawn, child>>
      BY <1>9 DEF BrokerSubscribes, BrokerLinks
    <2>2. SpawnInv'
      BY <2>1 DEF WireInv, SpawnInv
    <2>3. \A n : Spawned(n)' <=> Spawned(n)
      BY <2>1 DEF Spawned
    <2>4. ChildInv'
      BY <2>1, <2>3 DEF WireInv, ChildInv
    <2>5. SubsInv'
      BY <1>2, <2>1 DEF WireInv, SubsInv
    <2> QED
      BY <2>2, <2>4, <2>5 DEF WireInv
  <1>10. ASSUME NEW ns \in Processes, ChildLoads(ns) \/ ChildStarts(ns)
         PROVE  WireInv'
    BY <1>10, ChildLoadsKeepsWireInv, ChildStartsKeepsWireInv
  <1>11. CASE UNCHANGED vars
    <2>1. /\ UNCHANGED <<config, phase, streams, plugins, processes, infos, toSpawn,
                         broker, child, subs>>
      BY <1>11 DEF vars
    <2>2. \A n : Spawned(n)' <=> Spawned(n)
      BY <2>1 DEF Spawned
    <2>3. SpawnInv' /\ ChildInv'
      BY <2>1, <2>2 DEF WireInv, SpawnInv, ChildInv
    <2>4. SubsInv'
      BY <1>2, <2>1 DEF WireInv, SubsInv
    <2> QED
      BY <2>3, <2>4 DEF WireInv
  <1> QED
    BY <1>3, <1>4, <1>5, <1>a, <1>6, <1>7, <1>8, <1>9, <1>10, <1>11 DEF Next
-----------------------------------------------------------------------------
(* With everything up, the parts make up what the configuration asks for.  *)

\* A port is the only input of a stream that has one.
PortsAlone == \A e \in Elements(config.streams) :
                 /\ e.list = "inbound"
                 /\ e.inputs # <<>>
                 /\ Head(e.inputs) = Port
                 => Elements(e.inputs) = {Port}

\* The topic of the commands is left to the broker.
CommandsLeftAlone ==
    /\ \A e \in Elements(config.streams) :
          e.name # CmdTopic /\ CmdTopic \notin Elements(e.inputs)
    /\ \A p \in Elements(config.plugins) :
          p.class # CmdTopic /\ CmdTopic \notin p.inputs

WholeInv == TypeOK /\ LoadInv /\ StreamsLoaded /\ PluginInv /\ WireInv

AskedStreams == {Created(e) : e \in Standing(config.streams)}
AskedPlugins == {p \in Elements(config.plugins) : p.class # NoName}

LEMMA WholeInvHolds == Spec => []WholeInv
  <1>1. Init => LoadInv /\ StreamsLoaded /\ PluginInv /\ WireInv
    <2> SUFFICES ASSUME Init PROVE LoadInv /\ StreamsLoaded /\ PluginInv /\ WireInv
      OBVIOUS
    <2>1. config.streams \in Seq(StreamEntry) /\ config.plugins \in Seq(PluginEntry)
      BY ServerAssumption DEF Init, Config
    <2>2. LoadInv
      <3>1. streamsLeft = config.streams /\ Count = 0
        BY <2>1 DEF Init, Count
      <3>2. Left /\ Reading
        BY <2>1, <3>1 DEF Init, Left, Reading, StandingUpTo
      <3> QED
        BY <3>2 DEF Init, LoadInv
    <2>3. StreamsLoaded
      BY DEF Init, StreamsLoaded
    <2>4. PluginInv
      <3>1. pluginsLeft = config.plugins /\ PluginCount = 0
        BY <2>1 DEF Init, PluginCount
      <3>2. PluginsRead = {}
        BY <3>1 DEF PluginsRead
      <3>3. PluginsLeft
        BY <2>1, <3>1 DEF PluginsLeft
      <3>4. PluginsLoaded /\ InfosDiffer
        BY <3>2 DEF Init, PluginsLoaded, Kept, InfosDiffer
      <3> QED
        BY <3>3, <3>4 DEF Init, PluginInv
    <2>5. WireInv
      <3>1. \A ns \in Processes : child[ns] = Idle /\ ~Spawned(ns)
        BY DEF Init, Idle, Spawned
      <3>2. ChildLinks = {}
        BY <3>1 DEF ChildLinks, Idle
      <3>3. ChildInv
        BY <3>1 DEF ChildInv, Idle
      <3>4. SpawnInv
        BY DEF Init, SpawnInv
      <3> QED
        BY <3>2, <3>3, <3>4 DEF Init, WireInv, SubsInv
    <2> QED
      BY <2>2, <2>3, <2>4, <2>5
  <1>2. TypeOK /\ LoadInv /\ [Next]_vars => LoadInv'
    BY LoadInvStep
  <1>3. ASSUME WholeInv, TypeOK', [Next]_vars PROVE WholeInv'
    BY <1>2, <1>3, StreamsLoadedStep, PluginInvStep, WireInvStep DEF WholeInv
  <1>4. TypeOK /\ LoadInv /\ StreamsLoaded /\ PluginInv /\ WireInv => WholeInv
    BY DEF WholeInv
  <1> QED
    BY <1>1, <1>3, <1>4, TypeCorrect, PTL DEF Spec

\* Everything has been read, and every child has loaded what it was handed.
LEMMA UpMeansLoaded ==
    ASSUME WholeInv, AllUp
    PROVE  /\ PluginsRead = Elements(config.plugins)
           /\ plugins = {p \in Kept(PluginsRead, NoProcess) : p.creatable}
           /\ \A ns \in Processes :
                 /\ child[ns].up <=> ns \in Elements(processes)
                 /\ child[ns].up => child[ns].loaded = {p \in Kept(PluginsRead, ns) : p.creatable}
                 /\ Elements(infos[ns]) = Kept(PluginsRead, ns)
           /\ Elements(processes) = {p.process : p \in {q \in PluginsRead : q.process # NoProcess}}
           /\ subs = BrokerLinks \cup ProcessLinks \cup ChildLinks
  <1>1. phase = "joined" /\ broker /\ pluginsLeft = <<>> /\ toSpawn = <<>>
    BY DEF AllUp, WholeInv, PluginInv, WireInv, SpawnInv
  <1>2. config.plugins \in Seq(PluginEntry)
    BY DEF WholeInv, TypeOK, Config
  <1>3. PluginsRead = Elements(config.plugins)
    <2>1. PluginCount = Len(config.plugins)
      BY <1>1, <1>2, EmptyIsSeq DEF PluginCount
    <2> QED
      BY <1>2, <2>1 DEF PluginsRead
  <1>4. PluginsLoaded
    BY <1>1 DEF WholeInv, PluginInv
  <1>5. Elements(toSpawn) = {}
    BY <1>1
  <1> HIDE DEF Elements
  <1>6. ASSUME NEW ns \in Processes
        PROVE  /\ child[ns].up <=> ns \in Elements(processes)
               /\ child[ns].up => child[ns].loaded = {p \in Kept(PluginsRead, ns) : p.creatable}
    <2>1. CASE ns \in Elements(processes)
      <3>1. Spawned(ns)
        BY <1>1, <1>5, <2>1 DEF Spawned
      <3>2. child[ns].up /\ child[ns].todo = <<>>
        BY <2>1 DEF AllUp, WholeInv, WireInv, ChildInv
      <3>3. Elements(child[ns].todo) = {}
        BY <3>2 DEF Elements
      <3>4. {p \in Elements(infos[ns]) : p.creatable} =
               child[ns].loaded \cup {p \in Elements(child[ns].todo) : p.creatable}
        BY <3>1 DEF WholeInv, WireInv, ChildInv
      <3>5. {p \in Elements(infos[ns]) : p.creatable} = child[ns].loaded
        BY <3>3, <3>4
      <3> QED
        BY <1>4, <2>1, <3>2, <3>5 DEF PluginsLoaded
    <2>2. CASE ns \notin Elements(processes)
      <3>1. child[ns] = Idle
        BY <2>2 DEF Spawned, WholeInv, WireInv, ChildInv
      <3> QED
        BY <2>2, <3>1 DEF Idle
    <2> QED
      BY <2>1, <2>2
  <1>7. subs = BrokerLinks \cup ProcessLinks \cup ChildLinks
    BY <1>1 DEF WholeInv, WireInv, SubsInv
  <1> QED
    BY <1>3, <1>4, <1>6, <1>7 DEF PluginsLoaded

\* The names of the outbound streams are those the configuration gives.
LEMMA OutboundAsAsked ==
    ASSUME WholeInv, AllUp
    PROVE  /\ {s \in Elements(streams) : s.list = "outbound"} =
                 {s \in AskedStreams : s.list = "outbound"}
           /\ OutboundNames = {s.name : s \in {t \in AskedStreams : t.list = "outbound"}}
  <1>1. Elements(streams) = AskedStreams \cup ApiStreams
    BY DEF AllUp, WholeInv, StreamsLoaded, AskedStreams
  <1>2. \A s \in ApiStreams : s.list = "inbound"
    BY DEF ApiStreams, ApiStream
  <1> HIDE DEF Elements
  <1>3. {s \in Elements(streams) : s.list = "outbound"} =
           {s \in AskedStreams : s.list = "outbound"}
    BY <1>1, <1>2
  <1> QED
    BY <1>3 DEF OutboundNames

\* The broker and the children subscribe every plugin that runs to its inputs.
LEMMA InputsAsAsked ==
    ASSUME WholeInv, AllUp
    PROVE  PluginLinks(plugins) \cup ChildLinks = PluginLinks({p \in AskedPlugins : p.creatable})
  <1> DEFINE R == Elements(config.plugins)
  <1> USE UpMeansLoaded
  <1>1. PluginsRead = R /\ \A p \in R : p.process \in Processes \cup {NoProcess}
    <2>1. config.plugins \in Seq(PluginEntry)
      BY DEF WholeInv, TypeOK, Config
    <2>2. R \subseteq PluginEntry
      BY <2>1
    <2> QED
      BY <2>2 DEF PluginEntry
  <1> HIDE DEF R, Elements
  <1>2. \A p \in R : p.process # NoProcess => p.process \in Elements(processes)
    BY <1>1
  <1>3. ASSUME NEW l PROVE l \in PluginLinks(plugins) \cup ChildLinks <=>
                             l \in PluginLinks({p \in AskedPlugins : p.creatable})
    <2>1. l \in PluginLinks(plugins) <=>
             \E p \in R : /\ p.process = NoProcess /\ p.class # NoName /\ p.creatable
                          /\ l \in {<<p, i>> : i \in p.inputs}
      BY <1>1 DEF PluginLinks, Kept
    <2>2. l \in ChildLinks <=>
             \E p \in R : /\ p.process # NoProcess /\ p.class # NoName /\ p.creatable
                          /\ l \in {<<p, i>> : i \in p.inputs}
      <3>1. ASSUME l \in ChildLinks
            PROVE  \E p \in R : /\ p.process # NoProcess /\ p.class # NoName /\ p.creatable
                                /\ l \in {<<p, i>> : i \in p.inputs}
        <4>1. PICK ns \in Processes : child[ns].up /\ l \in PluginLinks(child[ns].loaded)
          BY <3>1 DEF ChildLinks
        <4>2. PICK p \in child[ns].loaded : l \in {<<p, i>> : i \in p.inputs}
          BY <4>1 DEF PluginLinks
        <4>3. p \in R /\ p.process = ns /\ p.class # NoName /\ p.creatable
          BY <1>1, <4>1, <4>2 DEF Kept
        <4> QED
          BY <4>2, <4>3, ServerAssumption
      <3>2. ASSUME NEW p \in R, p.process # NoProcess, p.class # NoName, p.creatable,
                   l \in {<<p, i>> : i \in p.inputs}
            PROVE  l \in ChildLinks
        <4>1. p.process \in Processes /\ child[p.process].up
          BY <1>1, <1>2, <3>2
        <4>2. p \in child[p.process].loaded
          BY <1>1, <3>2, <4>1 DEF Kept
        <4> QED
          BY <3>2, <4>1, <4>2 DEF ChildLinks, PluginLinks
      <3> QED
        BY <3>1, <3>2
    <2>3. l \in PluginLinks({p \in AskedPlugins : p.creatable}) <=>
             \E p \in R : /\ p.class # NoName /\ p.creatable
                          /\ l \in {<<p, i>> : i \in p.inputs}
      BY DEF PluginLinks, AskedPlugins, R
    <2> QED
      BY <2>1, <2>2, <2>3
  <1> QED
    BY <1>3

\* The broker and the server subscribe the output streams: of the plugins
\* here that run, and of all that were handed to a process.
LEMMA OutputsAsAsked ==
    ASSUME WholeInv, AllUp, ClassesDiffer
    PROVE  OutputLinks(plugins) \cup ProcessLinks =
              OutputLinks({p \in AskedPlugins : p.creatable \/ p.process # NoProcess})
  <1> DEFINE R == Elements(config.plugins)
             Given == UNION {LastOfClass(infos[ns]) : ns \in Elements(processes)}
             Answering == {p \in AskedPlugins : p.creatable \/ p.process # NoProcess}
  <1> USE UpMeansLoaded
  <1>1. /\ PluginsRead = R
        /\ \A p \in R : p.process \in Processes \cup {NoProcess}
        /\ Elements(processes) \subseteq Processes
    <2>1. config.plugins \in Seq(PluginEntry) /\ processes \in Seq(Processes)
      BY DEF WholeInv, TypeOK, Config
    <2>2. R \subseteq PluginEntry
      BY <2>1
    <2> QED
      BY <2>1, <2>2 DEF PluginEntry
  <1>2. \A ns \in Processes : LastOfClass(infos[ns]) = Elements(infos[ns])
    <2>1. TAKE ns \in Processes
    <2>2. \A i, j \in DOMAIN infos[ns] : infos[ns][i].class = infos[ns][j].class => i = j
      BY DEF AllUp, WholeInv, PluginInv, InfosDiffer
    <2>3. infos[ns] \in Seq(NamedPlugin)
      BY DEF WholeInv, TypeOK
    <2>4. DOMAIN infos[ns] = 1 .. Len(infos[ns]) /\ Len(infos[ns]) \in Nat
      BY <2>3
    <2>5. ASSUME NEW j \in DOMAIN infos[ns], NEW k \in j + 1 .. Len(infos[ns])
          PROVE  infos[ns][k].class # infos[ns][j].class
      <3>1. k \in DOMAIN infos[ns] /\ k # j
        BY <2>4
      <3> QED
        BY <2>2, <3>1
    <2>6. {j \in DOMAIN infos[ns] : \A k \in j + 1 .. Len(infos[ns]) :
              infos[ns][k].class # infos[ns][j].class} = DOMAIN infos[ns]
      BY <2>5
    <2> QED
      BY <2>6 DEF LastOfClass
  <1> HIDE DEF R, Elements
  <1>3. Given = {p \in R : p.process # NoProcess /\ p.class # NoName}
    <2>1. ASSUME NEW p \in Given
          PROVE  p \in R /\ p.process # NoProcess /\ p.class # NoName
      <3>1. PICK ns \in Elements(processes) : p \in LastOfClass(infos[ns])
        OBVIOUS
      <3>2. p \in Kept(R, ns) /\ ns \in Processes
        BY <1>1, <1>2, <3>1
      <3> QED
        BY <3>2, ServerAssumption DEF Kept
    <2>2. ASSUME NEW p \in R, p.process # NoProcess, p.class # NoName
          PROVE  p \in Given
      <3>1. p.process \in Elements(processes) /\ p.process \in Processes
        BY <1>1, <2>2
      <3>2. p \in LastOfClass(infos[p.process])
        BY <1>1, <1>2, <2>2, <3>1 DEF Kept
      <3> QED
        BY <3>1, <3>2
    <2> QED
      BY <2>1, <2>2
  <1>4. plugins \cup Given = Answering
    <2>1. plugins = {p \in R : p.process = NoProcess /\ p.class # NoName /\ p.creatable}
      BY <1>1 DEF Kept
    <2>2. Answering = {p \in R : p.class # NoName /\ (p.creatable \/ p.process # NoProcess)}
      BY DEF AskedPlugins, R
    <2> HIDE DEF Answering, Given
    <2> QED
      BY <1>3, <2>1, <2>2
  <1>5. ProcessLinks = OutputLinks(Given)
    BY DEF ProcessLinks
  <1>6. \A P, Q : OutputLinks(P) \cup OutputLinks(Q) = OutputLinks(P \cup Q)
    BY DEF OutputLinks
  <1> HIDE DEF Answering, Given
  <1>7. OutputLinks(plugins) \cup ProcessLinks = OutputLinks(Answering)
    BY <1>4, <1>5, <1>6
  <1> QED
    BY <1>7 DEF Answering

\* The broker subscribes the streams to their inputs, the API's to those it
\* was given.
LEMMA StreamsAsAsked ==
    ASSUME WholeInv, AllUp, PortsAlone
    PROVE  StreamLinks({"inbound", "outbound"}) =
              (UNION {{<<s.name, i>> : i \in s.inputs} : s \in AskedStreams})
                 \cup {<<TlmTopic, n>> : n \in ApiInputs}
  <1>1. Elements(streams) = AskedStreams \cup ApiStreams
    BY DEF AllUp, WholeInv, StreamsLoaded, AskedStreams
  <1>2. ASSUME NEW s \in AskedStreams
        PROVE  s.list \in {"inbound", "outbound"} \/ s.inputs = {}
    <2>1. PICK e \in Standing(config.streams) : s = Created(e)
      BY DEF AskedStreams
    <2>2. e \in Elements(config.streams) /\ Fit(e)
      BY <2>1 DEF Standing
    <2>3. e \in StreamEntry
      BY <2>2 DEF WholeInv, TypeOK, Config
    <2>4. CASE e.list = "inbound" /\ Head(e.inputs) = Port
      <3>1. e.inputs # <<>>
        BY <2>2, <2>4 DEF Fit
      <3>2. Elements(e.inputs) = {Port}
        BY <2>2, <2>4, <3>1 DEF PortsAlone
      <3>3. s.inputs = Elements(e.inputs) \ {Port}
        BY <2>1 DEF Created
      <3> QED
        BY <3>2, <3>3
    <2>5. CASE ~(e.list = "inbound" /\ Head(e.inputs) = Port)
      BY <2>1, <2>3, <2>5 DEF Created, StreamEntry
    <2> QED
      BY <2>4, <2>5
  <1> HIDE DEF Elements
  <1>3. ASSUME NEW l
        PROVE  l \in StreamLinks({"inbound", "outbound"}) <=>
                  \/ \E s \in AskedStreams : l \in {<<s.name, i>> : i \in s.inputs}
                  \/ l \in {<<TlmTopic, n>> : n \in ApiInputs}
    <2>1. l \in StreamLinks({"inbound", "outbound"}) <=>
             \E s \in AskedStreams \cup ApiStreams :
                s.list \in {"inbound", "outbound"} /\ l \in {<<s.name, i>> : i \in s.inputs}
      BY <1>1 DEF StreamLinks
    <2>2. (\E s \in ApiStreams : /\ s.list \in {"inbound", "outbound"}
                                 /\ l \in {<<s.name, i>> : i \in s.inputs})
             <=> l \in {<<TlmTopic, n>> : n \in ApiInputs}
      <3>1. CASE ApiInputs = {}
        BY <3>1 DEF ApiStreams
      <3>2. CASE ApiInputs # {}
        <4>1. /\ ApiStreams = {ApiStream} /\ ApiStream.list = "inbound"
              /\ ApiStream.name = TlmTopic /\ ApiStream.inputs = ApiInputs
          BY <3>2 DEF ApiStreams, ApiStream
        <4> QED
          BY <4>1
      <3> QED
        BY <3>1, <3>2
    <2>3. (\E s \in AskedStreams : /\ s.list \in {"inbound", "outbound"}
                                   /\ l \in {<<s.name, i>> : i \in s.inputs})
             <=> \E s \in AskedStreams : l \in {<<s.name, i>> : i \in s.inputs}
      BY <1>2
    <2> QED
      BY <2>1, <2>2, <2>3
  <1> QED
    BY <1>3

\* Nothing that is asked for is the topic of the commands.
LEMMA AskedIsNoCommand ==
    ASSUME TypeOK, CommandsLeftAlone
    PROVE  \A l \in Asked : l[2] # CmdTopic
  <1>1. \A s \in AskedStreams : CmdTopic \notin s.inputs
    <2>1. TAKE s \in AskedStreams
    <2>2. PICK e \in Standing(config.streams) : s = Created(e)
      BY DEF AskedStreams
    <2>3. e \in Elements(config.streams)
      BY <2>2 DEF Standing
    <2>4. s.inputs \subseteq Elements(e.inputs)
      BY <2>2 DEF Created
    <2> QED
      BY <2>3, <2>4 DEF CommandsLeftAlone
  <1> HIDE DEF Elements
  <1>2. CmdTopic \notin ApiInputs
    BY DEF ApiInputs, InboundEntries, CommandsLeftAlone
  <1>3. \A p \in AskedPlugins : CmdTopic \notin p.inputs /\ p.class # CmdTopic
    BY DEF AskedPlugins, CommandsLeftAlone
  <1>4. \A l \in UNION {{<<s.name, i>> : i \in s.inputs} : s \in AskedStreams} : l[2] # CmdTopic
    BY <1>1
  <1>5. \A l \in {<<TlmTopic, n>> : n \in ApiInputs} : l[2] # CmdTopic
    BY <1>2
  <1>6. \A l \in PluginLinks({p \in AskedPlugins : p.creatable}) : l[2] # CmdTopic
    BY <1>3 DEF PluginLinks
  <1> DEFINE Answering == {p \in AskedPlugins : p.creatable \/ p.process # NoProcess}
             Outputs == {s.name : s \in {t \in AskedStreams : t.list = "outbound"}}
             ToPlugins == UNION {(p.outputs \cap Outputs) \X {p.class} : p \in Answering}
             FromStreams == UNION {{<<s.name, i>> : i \in s.inputs} : s \in AskedStreams}
             FromApi == {<<TlmTopic, n>> : n \in ApiInputs}
             FromRunning == PluginLinks({p \in AskedPlugins : p.creatable})
  <1>7. \A l \in ToPlugins : l[2] # CmdTopic
    BY <1>3
  <1>8. Asked = FromStreams \cup FromApi \cup FromRunning \cup ToPlugins
    BY DEF Asked, AskedStreams, AskedPlugins
  <1> HIDE DEF ToPlugins, FromStreams, FromApi, FromRunning
  <1>9. \A l \in FromStreams \cup FromApi \cup FromRunning : l[2] # CmdTopic
    BY <1>4, <1>5, <1>6 DEF FromStreams, FromApi, FromRunning
  <1> QED
    BY <1>7, <1>8, <1>9

\* The links to anything but the topic of the commands are those asked for.
LEMMA UpMeansWired ==
    ASSUME WholeInv, AllUp, PortsAlone, ClassesDiffer
    PROVE  subs = Asked \cup (CommandStreams \X {CmdTopic})
  <1> HIDE DEF Elements
  <1> DEFINE Answering == {p \in AskedPlugins : p.creatable \/ p.process # NoProcess}
             Running == {p \in AskedPlugins : p.creatable}
             FromStreams == UNION {{<<s.name, i>> : i \in s.inputs} : s \in AskedStreams}
             FromApi == {<<TlmTopic, n>> : n \in ApiInputs}
  <1>1. Asked = FromStreams \cup FromApi \cup PluginLinks(Running) \cup OutputLinks(Answering)
    <2>1. OutboundNames = {s.name : s \in {t \in AskedStreams : t.list = "outbound"}}
      BY OutboundAsAsked
    <2>2. OutputLinks(Answering) =
             UNION {(p.outputs \cap {s.name : s \in {t \in AskedStreams : t.list = "outbound"}})
                       \X {p.class} : p \in Answering}
      BY <2>1 DEF OutputLinks
    <2> QED
      BY <2>2 DEF Asked, AskedStreams, AskedPlugins
  <1>2. /\ StreamLinks({"inbound", "outbound"}) = FromStreams \cup FromApi
        /\ PluginLinks(plugins) \cup ChildLinks = PluginLinks(Running)
        /\ OutputLinks(plugins) \cup ProcessLinks = OutputLinks(Answering)
    BY StreamsAsAsked, InputsAsAsked, OutputsAsAsked
  <1>3. subs = BrokerLinks \cup ProcessLinks \cup ChildLinks
    BY UpMeansLoaded
  <1> HIDE DEF Answering, Running, FromStreams, FromApi
  <1> QED
    BY <1>1, <1>2, <1>3 DEF BrokerLinks

\* The broker, the server after the spawns, and each child process subscribe
\* between them exactly what the configuration asks for, in whatever order
\* they run: when no process has a class twice (get_plugin_outputs keeps the
\* last), no port stands among other inputs (the broker skips the "servers"
\* list) and nothing else is subscribed to the commands.
THEOREM WiredWheneverUp ==
    Spec => [](PortsAlone /\ ClassesDiffer /\ CommandsLeftAlone => WiredAsAsked)
  <1>1. WholeInv => (PortsAlone /\ ClassesDiffer /\ CommandsLeftAlone => WiredAsAsked)
    <2> SUFFICES ASSUME WholeInv, PortsAlone, ClassesDiffer, CommandsLeftAlone, AllUp
                 PROVE  {l \in subs : l[2] # CmdTopic} = Asked
      BY DEF WiredAsAsked
    <2>1. subs = Asked \cup (CommandStreams \X {CmdTopic})
      BY UpMeansWired
    <2>2. \A l \in Asked : l[2] # CmdTopic
      BY AskedIsNoCommand DEF WholeInv
    <2>3. \A l \in CommandStreams \X {CmdTopic} : l[2] = CmdTopic
      OBVIOUS
    <2> QED
      BY <2>1, <2>2, <2>3
  <1> QED
    BY <1>1, WholeInvHolds, PTL
-----------------------------------------------------------------------------
(* The command stream.                                                     *)

\* A set of positions that is not empty has a first one.
LEMMA FirstOf ==
    ASSUME NEW S, S \subseteq Nat, S # {}
    PROVE  \E i : {j \in S : \A k \in S : j <= k} = {i} /\ i \in S
  <1>1. IsWellFoundedOn(OpToRel(<, Nat), Nat)
    BY NatLessThanWellFounded
  <1>2. PICK i \in S : \A k \in S : ~(<<k, i>> \in OpToRel(<, Nat))
    BY <1>1, WFMin
  <1>3. \A k \in S : ~(k < i)
    BY <1>2 DEF OpToRel
  <1>4. \A j \in S : (\A k \in S : j <= k) <=> j = i
    BY <1>3
  <1>5. {j \in S : \A k \in S : j <= k} = {i}
    BY <1>4
  <1> QED
    BY <1>5

\* The first outbound stream that asks for the commands is subscribed to them,
\* or else the first one, and no other: when nothing in the configuration
\* itself names their topic (Broker._subscribe_cmdr).
THEOREM CommandsReachOneStream ==
    Spec => [](PortsAlone /\ ClassesDiffer /\ CommandsLeftAlone => OneCommandStream)
  <1>1. ASSUME WholeInv, PortsAlone, ClassesDiffer, CommandsLeftAlone
        PROVE  OneCommandStream
    <2> DEFINE Out == {e \in Standing(config.streams) : e.list = "outbound"}
               Ask == {e \in Out : e.commands}
               Takers == {l[1] : l \in {m \in subs : m[2] = CmdTopic}}
               OutAt == {i \in DOMAIN streams : streams[i].list = "outbound"}
               AskAt == {i \in OutAt : streams[i].commands}
               From(S) == {streams[i].name : i \in {j \in S : \A k \in S : j <= k}}
    <2> SUFFICES ASSUME AllUp
                 PROVE  /\ Out # {} => Cardinality(Takers) = 1
                        /\ Out = {} => Takers = {}
                        /\ \A n \in Takers : \E e \in Out : e.name = n /\ (Ask # {} => e \in Ask)
      BY DEF OneCommandStream
    <2>1. Takers = CommandStreams
      <3>1. subs = Asked \cup (CommandStreams \X {CmdTopic})
        BY <1>1, UpMeansWired
      <3>2. \A l \in Asked : l[2] # CmdTopic
        BY <1>1, AskedIsNoCommand DEF WholeInv
      <3>3. {m \in subs : m[2] = CmdTopic} = CommandStreams \X {CmdTopic}
        BY <3>1, <3>2
      <3>4. Takers = {l[1] : l \in CommandStreams \X {CmdTopic}}
        BY <3>3
      <3>5. \A l \in CommandStreams \X {CmdTopic} : l[1] \in CommandStreams
        OBVIOUS
      <3>6. \A n \in CommandStreams :
               <<n, CmdTopic>> \in CommandStreams \X {CmdTopic} /\ <<n, CmdTopic>>[1] = n
        OBVIOUS
      <3> HIDE DEF Takers
      <3> QED
        BY <3>4, <3>5, <3>6
    <2>2. {s \in Elements(streams) : s.list = "outbound"} = {Created(e) : e \in Out}
      <3>1. \A e : Created(e).list = "outbound" <=> e.list = "outbound"
        BY DEF Created
      <3>2. {s \in AskedStreams : s.list = "outbound"} = {Created(e) : e \in Out}
        BY <3>1 DEF AskedStreams
      <3> QED
        BY <1>1, <3>2, OutboundAsAsked
    <2>3. \A i \in OutAt : \E e \in Out : streams[i] = Created(e)
      BY <2>2
    <2>4. \A e \in Out : \E i \in OutAt : streams[i] = Created(e)
      <3>1. TAKE e \in Out
      <3>2. Created(e) \in {s \in Elements(streams) : s.list = "outbound"}
        BY <2>2
      <3> QED
        BY <3>2
    <2>5. \A e \in Out : Created(e).name = e.name /\ (Created(e).commands <=> e.commands)
      <3>1. Out \subseteq StreamEntry
        BY <1>1 DEF WholeInv, TypeOK, Config, Standing
      <3> QED
        BY <3>1 DEF Created, StreamEntry
    <2>6. (OutAt = {} <=> Out = {}) /\ (AskAt = {} <=> Ask = {})
      <3> HIDE DEF Out
      <3> QED
        BY <2>3, <2>4, <2>5
    <2>7. OutAt \subseteq Nat /\ AskAt \subseteq Nat
      BY <1>1 DEF WholeInv, TypeOK
    <2>8. CommandStreams = IF AskAt # {} THEN From(AskAt) ELSE From(OutAt)
      BY DEF CommandStreams
    <2> HIDE DEF Out, OutAt, Takers
    <2>9. ASSUME NEW S, S \subseteq Nat, S # {}
          PROVE  \E i \in S : From(S) = {streams[i].name}
      <3>1. PICK i : {j \in S : \A k \in S : j <= k} = {i} /\ i \in S
        BY <2>9, FirstOf
      <3> QED
        BY <3>1
    <2>10. CASE Out = {}
      <3>1. AskAt = {} /\ OutAt = {}
        BY <2>6, <2>10
      <3>2. From(OutAt) = {}
        BY <3>1
      <3> QED
        BY <2>1, <2>8, <2>10, <3>1, <3>2
    <2>11. CASE Out # {}
      <3> DEFINE S == IF AskAt # {} THEN AskAt ELSE OutAt
      <3>1. S # {} /\ S \subseteq Nat /\ S \subseteq OutAt /\ (Ask # {} => S = AskAt)
        BY <2>6, <2>7, <2>11
      <3>2. CommandStreams = From(S)
        BY <2>8
      <3> HIDE DEF S
      <3>3. PICK i \in S : From(S) = {streams[i].name}
        BY <2>9, <3>1
      <3>4. PICK e \in Out : streams[i] = Created(e)
        BY <2>3, <3>1
      <3>5. e.name = streams[i].name /\ (Ask # {} => e \in Ask)
        BY <2>5, <3>1, <3>4
      <3>6. Cardinality({streams[i].name}) = 1
        BY FS_Singleton
      <3> HIDE DEF From
      <3> QED
        BY <2>1, <2>11, <3>2, <3>3, <3>5, <3>6
    <2> QED
      BY <2>10, <2>11
  <1>2. WholeInv => (PortsAlone /\ ClassesDiffer /\ CommandsLeftAlone => OneCommandStream)
    BY <1>1
  <1> QED
    BY <1>2, WholeInvHolds, PTL
=============================================================================
