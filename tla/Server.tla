------------------------------- MODULE Server -------------------------------
(***************************************************************************)
(* The start-up of the AIT server: server/server.py builds the streams,    *)
(* the telemetry API's stream and the plugins a configuration asks for,    *)
(* starts their greenlets, spawns the plugin processes (server/process.py) *)
(* and has everything subscribed, part of it by the broker's greenlet      *)
(* (server/broker.py), part by itself and part by each child process.      *)
(*                                                                         *)
(* A stream entry of the configuration is a record of the list it is in,   *)
(* its name (NoName when it has none, or when the entry is null), its      *)
(* inputs (Port is any integer; <<>> when there are none), its handlers,   *)
(* whether those can be created and fit together, whether its port can be  *)
(* bound, whether it asks for commands, and its output.  A plugin entry    *)
(* has the name of its class, its process, its inputs and outputs, and     *)
(* whether it can be created.  A port cannot be bound when the server has  *)
(* no right to it, when another program has it or, on systems that refuse  *)
(* this for sockets with SO_REUSEADDR, when an earlier entry has it.       *)
(***************************************************************************)
EXTENDS Naturals, Sequences, FiniteSets

CONSTANTS Configs,     \* the configurations to start from
          Names,       \* of streams, plugin classes and topics
          Processes,   \* values of process_id
          NoProcess,   \* a plugin entry without process_id
          NoName,      \* an entry without a name
          NullEntry,   \* "plugin:" with nothing below it
          Port,        \* an input that is an integer
          TlmTopic,    \* telemetry.topic
          CmdTopic     \* command.topic

StreamEntry == [list : {"inbound", "outbound"},
                name : Names \cup {NoName},
                inputs : Seq(Names \cup {Port}),
                handlers : {"absent", "empty", "text", "packet", "other"},
                creatable : BOOLEAN,
                bindable : BOOLEAN,
                commands : BOOLEAN,
                output : {"none", "port", "list"}]

PluginEntry == [class : Names \cup {NoName, NullEntry},
                process : Processes \cup {NoProcess},
                inputs : SUBSET Names,
                outputs : SUBSET Names,
                creatable : BOOLEAN]

\* The inbound streams of a configuration stand before the outbound ones.
\* brokerBinds: the URLs of the broker's own sockets can be bound.
Config == [streams : Seq(StreamEntry), api : SUBSET Names, plugins : Seq(PluginEntry),
           brokerBinds : BOOLEAN]

ASSUME ServerAssumption ==
          /\ Configs \subseteq Config
          /\ TlmTopic \in Names
          /\ CmdTopic \in Names
          /\ NoName \notin Names
          /\ NullEntry \notin Names \cup {NoName}
          /\ Port \notin Names
          /\ NoProcess \notin Processes

VARIABLES config,      \* ait.config
          phase,       \* where Server.__init__ and wait are
          streamsLeft, \* stream entries still to be read
          pluginsLeft, \* plugin entries still to be read
          streams,     \* servers, inbound_streams and outbound_streams
          plugins,     \* plugins of the server's own process
          processes,   \* keys of plugin_process_dict, oldest first
          infos,       \* the PluginConfigs of each process
          toSpawn,     \* processes still to be spawned
          broker,      \* the broker has run _subscribe_all
          child,       \* what each child process has still to load, has loaded
          subs         \* who is subscribed to what

vars == <<config, phase, streamsLeft, pluginsLeft, streams, plugins, processes,
          infos, toSpawn, broker, child, subs>>

\* An element of the three lists of streams, with the list it is in and the
\* inputs that are names.
Stream == [name : Names, inputs : SUBSET Names,
           list : {"servers", "inbound", "outbound"},
           bindable : BOOLEAN, port : BOOLEAN, commands : BOOLEAN]

\* What is left of the plugin entries that have a name
NamedPlugin == {p \in PluginEntry : p.class \in Names}

Child == [todo : Seq(NamedPlugin), loaded : SUBSET NamedPlugin, up : BOOLEAN]

Elements(q) == {q[i] : i \in DOMAIN q}

Init == /\ config \in Configs
        /\ phase = "streams"
        /\ streamsLeft = config.streams
        /\ pluginsLeft = config.plugins
        /\ streams = <<>>
        /\ plugins = {}
        /\ processes = <<>>
        /\ infos = [ns \in Processes |-> <<>>]
        /\ toSpawn = <<>>
        /\ broker = FALSE
        /\ child = [ns \in Processes |-> [todo |-> <<>>, loaded |-> {}, up |-> FALSE]]
        /\ subs = {}

-----------------------------------------------------------------------------
(* Server._load_streams: an entry that cannot be made a stream is skipped. *)

NameTaken(n) == \/ \E s \in Elements(streams) : s.name = n
                \/ \E p \in plugins : p.class = n

\* mutated: only the streams of the same list are looked at
CreatableInList(e) ==
    /\ e.name # NoName
    /\ ~\E s \in Elements(streams) : s.name = e.name /\ s.list = e.list
    /\ e.creatable
    /\ e.list = "inbound" => e.inputs # <<>>

\* _get_stream_name, _get_stream_handlers and the checks that follow
Creatable(e) == /\ e.name # NoName
                /\ ~NameTaken(e.name)
                /\ e.creatable
                /\ e.list = "inbound" => e.inputs # <<>>

\* The stream that _create_inbound_stream or _create_outbound_stream returns
Created(e) == [name |-> e.name,
               inputs |-> Elements(e.inputs) \ {Port},
               list |-> CASE e.list = "outbound" -> "outbound"
                          [] e.list = "inbound" /\ Head(e.inputs) = Port -> "servers"
                          [] OTHER -> "inbound",
               bindable |-> e.bindable,
               port |-> e.list = "outbound" /\ e.output = "port",
               commands |-> e.list = "outbound" /\ e.commands]

\* mutated: the first bad entry ends the list
LoadStreamOrStop ==
    /\ phase = "streams"
    /\ streamsLeft # <<>>
    /\ LET e == Head(streamsLeft) IN
       \/ /\ Creatable(e)
          /\ streams' = Append(streams, Created(e))
          /\ streamsLeft' = Tail(streamsLeft)
       \/ /\ ~Creatable(e)
          /\ streamsLeft' = <<>>
          /\ UNCHANGED streams
    /\ UNCHANGED <<config, phase, pluginsLeft, plugins, processes, infos,
                   toSpawn, broker, child, subs>>

LoadStream ==
    /\ phase = "streams"
    /\ streamsLeft # <<>>
    /\ streamsLeft' = Tail(streamsLeft)
    /\ LET e == Head(streamsLeft) IN
       \/ Creatable(e) /\ streams' = Append(streams, Created(e))
       \/ ~Creatable(e) /\ UNCHANGED streams
    /\ UNCHANGED <<config, phase, pluginsLeft, plugins, processes, infos,
                   toSpawn, broker, child, subs>>

-----------------------------------------------------------------------------
(* Server._create_api_telem_stream reads the inbound entries again, the    *)
(* ones that were skipped included, and outside of any try.                *)

InboundEntries == {e \in Elements(config.streams) : e.list = "inbound"}

\* stream["name"] and stream["handlers"][-1]["name"] raise
Unreadable(e) == e.name = NoName \/ e.handlers \in {"empty", "text"}

\* The default, when no streams are configured for the API
ValidApiStreams == {e.name : e \in {f \in InboundEntries : f.handlers = "packet"}}

\* Names no inbound entry has are skipped.
ApiInputs == (IF config.api = {} THEN ValidApiStreams ELSE config.api)
                \cap {e.name : e \in InboundEntries}

ApiStream == [name |-> TlmTopic, inputs |-> ApiInputs, list |-> "inbound",
              bindable |-> TRUE, port |-> FALSE, commands |-> FALSE]

CreateApiStream ==
    /\ phase = "streams"
    /\ streamsLeft = <<>>
    /\ \/ /\ \/ \E e \in InboundEntries : Unreadable(e)
             \/ ApiInputs # {} /\ NameTaken(TlmTopic)
          /\ phase' = "crashed"
          /\ UNCHANGED streams
       \/ /\ ~\E e \in InboundEntries : Unreadable(e)
          /\ \/ ApiInputs = {} /\ UNCHANGED streams
             \/ /\ ApiInputs # {}
                /\ ~NameTaken(TlmTopic)
                /\ streams' = Append(streams, ApiStream)
          /\ phase' = "plugins"
    /\ UNCHANGED <<config, streamsLeft, pluginsLeft, plugins, processes, infos,
                   toSpawn, broker, child, subs>>

-----------------------------------------------------------------------------
(* Server._load_plugins                                                    *)

\* A plugin of the server's own process, or none when it cannot be created
LoadOwnPlugin(p) ==
    /\ p.process = NoProcess
    /\ plugins' = IF p.class # NoName /\ p.creatable THEN plugins \cup {p} ELSE plugins
    /\ UNCHANGED <<processes, infos>>

\* mutated: a plugin's process is made anew each time its process_id is met
DeferPluginAlone(p) ==
    /\ p.process # NoProcess
    /\ processes' = IF p.process \in Elements(processes) THEN processes
                    ELSE Append(processes, p.process)
    /\ infos' = [infos EXCEPT ![p.process] = IF p.class # NoName THEN <<p>> ELSE <<>>]
    /\ UNCHANGED plugins

\* Its configuration is kept for the process, which is made when it is first
\* named.  Whether the plugin can be created will only turn out there.
DeferPlugin(p) ==
    /\ p.process # NoProcess
    /\ processes' = IF p.process \in Elements(processes) THEN processes
                    ELSE Append(processes, p.process)
    /\ infos' = IF p.class # NoName THEN [infos EXCEPT ![p.process] = Append(@, p)]
                ELSE infos
    /\ UNCHANGED plugins

\* mutated: a plugin that cannot be created is not caught
LoadPluginUncaught ==
    /\ phase = "plugins"
    /\ pluginsLeft # <<>>
    /\ pluginsLeft' = Tail(pluginsLeft)
    /\ LET p == Head(pluginsLeft) IN
       \/ /\ p.class = NullEntry \/ (p.process = NoProcess /\ ~p.creatable)
          /\ phase' = "crashed"
          /\ UNCHANGED <<plugins, processes, infos>>
       \/ /\ p.class # NullEntry
          /\ p.process # NoProcess \/ p.creatable
          /\ LoadOwnPlugin(p) \/ DeferPlugin(p)
          /\ UNCHANGED phase
    /\ UNCHANGED <<config, streamsLeft, streams, toSpawn, broker, child, subs>>

\* A null entry raises before the try
LoadPlugin ==
    /\ phase = "plugins"
    /\ pluginsLeft # <<>>
    /\ pluginsLeft' = Tail(pluginsLeft)
    /\ LET p == Head(pluginsLeft) IN
       \/ /\ p.class = NullEntry
          /\ phase' = "crashed"
          /\ UNCHANGED <<plugins, processes, infos>>
       \/ /\ p.class # NullEntry
          /\ LoadOwnPlugin(p) \/ DeferPlugin(p)
          /\ UNCHANGED phase
    /\ UNCHANGED <<config, streamsLeft, streams, toSpawn, broker, child, subs>>

-----------------------------------------------------------------------------
(* Server.wait                                                             *)

\* The greenlets are started, the broker's first and the servers last, none of which runs
\* before the last one is.  A server binds its port in start(), outside of any try.
StartGreenlets ==
    /\ phase = "plugins"
    /\ pluginsLeft = <<>>
    /\ \/ /\ \E s \in Elements(streams) : s.list = "servers" /\ ~s.bindable
          /\ phase' = "crashed"
          /\ UNCHANGED toSpawn
       \/ /\ \A s \in Elements(streams) : s.list = "servers" => s.bindable
          /\ phase' = "spawn"
          /\ toSpawn' = processes
    /\ UNCHANGED <<config, streamsLeft, pluginsLeft, streams, plugins, processes,
                   infos, broker, child, subs>>

\* PluginsProcess.spawn_process hands a copy of the configurations over.
SpawnProcess ==
    /\ phase = "spawn"
    /\ toSpawn # <<>>
    /\ toSpawn' = Tail(toSpawn)
    /\ child' = [child EXCEPT ![Head(toSpawn)].todo = infos[Head(toSpawn)]]
    /\ UNCHANGED <<config, phase, streamsLeft, pluginsLeft, streams, plugins,
                   processes, infos, broker, subs>>

OutboundNames == {s.name : s \in {t \in Elements(streams) : t.list = "outbound"}}

\* Output streams are subscribed to a plugin by the name of its class.
OutputLinks(P) == UNION {(p.outputs \cap OutboundNames) \X {p.class} : p \in P}

\* get_plugin_outputs: a dictionary, so a later plugin replaces an earlier one
\* of the same class
LastOfClass(q) == {q[i] : i \in {j \in DOMAIN q :
                                    \A k \in j + 1 .. Len(q) : q[k].class # q[j].class}}

\* _subscribe_process_plugins_outputs
SubscribeProcessOutputs ==
    /\ phase = "spawn"
    /\ toSpawn = <<>>
    /\ phase' = "joined"
    /\ subs' = subs \cup OutputLinks(UNION {LastOfClass(infos[ns]) : ns \in Elements(processes)})
    /\ UNCHANGED <<config, streamsLeft, pluginsLeft, streams, plugins, processes,
                   infos, toSpawn, broker, child>>

-----------------------------------------------------------------------------
(* Broker._subscribe_all, when the broker's greenlet first runs            *)

StreamLinks(lists) ==
    UNION {{<<s.name, i>> : i \in s.inputs} :
              s \in {t \in Elements(streams) : t.list \in lists}}

PluginLinks(P) == UNION {{<<p, i>> : i \in p.inputs} : p \in P}

\* mutated: every stream that asks for the commands gets them
AllCommandStreams == {s.name : s \in {t \in Elements(streams) :
                                         t.list = "outbound" /\ t.commands}}

\* _subscribe_cmdr: the first outbound stream that asks for the commands, or
\* else the first outbound stream
CommandStreams ==
    LET Outbound == {i \in DOMAIN streams : streams[i].list = "outbound"}
        Asking == {i \in Outbound : streams[i].commands}
        First(S) == {streams[i].name : i \in {j \in S : \A k \in S : j <= k}}
    IN IF Asking # {} THEN First(Asking) ELSE First(Outbound)

\* When its own sockets cannot be bound, _setup_proxy raises and the greenlet ends.
BrokerSubscribes ==
    /\ config.brokerBinds
    /\ phase \in {"spawn", "joined"}
    /\ ~broker
    /\ broker' = TRUE
    /\ subs' = subs \cup StreamLinks({"inbound", "outbound"})
                    \cup PluginLinks(plugins)
                    \cup OutputLinks(plugins)
                    \cup (CommandStreams \X {CmdTopic})
    /\ UNCHANGED <<config, phase, streamsLeft, pluginsLeft, streams, plugins,
                   processes, infos, toSpawn, child>>

-----------------------------------------------------------------------------
(* PluginsProcess.start_plugins_process, in the child                      *)

Spawned(ns) == /\ phase \in {"spawn", "joined"}
               /\ ns \in Elements(processes) \ Elements(toSpawn)

\* load_plugins creates the next plugin, or skips it
ChildLoads(ns) ==
    /\ Spawned(ns)
    /\ child[ns].todo # <<>>
    /\ LET p == Head(child[ns].todo) IN
       child' = [child EXCEPT
                   ![ns].todo = Tail(@),
                   ![ns].loaded = IF p.creatable THEN @ \cup {p} ELSE @]
    /\ UNCHANGED <<config, phase, streamsLeft, pluginsLeft, streams, plugins,
                   processes, infos, toSpawn, broker, subs>>

\* subscribe_plugins_to_inputs and start_and_join_all
ChildStarts(ns) ==
    /\ Spawned(ns)
    /\ child[ns].todo = <<>>
    /\ ~child[ns].up
    /\ child' = [child EXCEPT ![ns].up = TRUE]
    /\ subs' = subs \cup PluginLinks(child[ns].loaded)
    /\ UNCHANGED <<config, phase, streamsLeft, pluginsLeft, streams, plugins,
                   processes, infos, toSpawn, broker>>

-----------------------------------------------------------------------------
Next == \/ LoadStream
        \/ CreateApiStream
        \/ LoadPlugin
        \/ StartGreenlets
        \/ SpawnProcess
        \/ SubscribeProcessOutputs
        \/ BrokerSubscribes
        \/ \E ns \in Processes : ChildLoads(ns) \/ ChildStarts(ns)

\* The server's main greenlet, the broker's and every child process keep running.
Fairness == /\ WF_vars(LoadStream \/ CreateApiStream \/ LoadPlugin \/ StartGreenlets
                         \/ SpawnProcess \/ SubscribeProcessOutputs)
            /\ WF_vars(BrokerSubscribes)
            /\ \A ns \in Processes : WF_vars(ChildLoads(ns) \/ ChildStarts(ns))

Spec == Init /\ [][Next]_vars /\ Fairness

-----------------------------------------------------------------------------
\* The type of the variables, and what a phase says about them.
TypeOK == /\ config \in Config
          /\ phase \in {"streams", "plugins", "spawn", "joined", "crashed"}
          /\ streamsLeft \in Seq(StreamEntry)
          /\ pluginsLeft \in Seq(PluginEntry)
          /\ streams \in Seq(Stream)
          /\ plugins \in SUBSET NamedPlugin
          /\ processes \in Seq(Processes)
          /\ infos \in [Processes -> Seq(NamedPlugin)]
          /\ toSpawn \in Seq(Processes)
          /\ broker \in BOOLEAN
          /\ child \in [Processes -> Child]
          /\ subs \in SUBSET ((Names \cup NamedPlugin) \X Names)

\* "Stream names must be unique" (server.py 228-234), across the three lists
\* and with the stream the server adds for the API.
UniqueStreamNames ==
    \A i, j \in DOMAIN streams : streams[i].name = streams[j].name => i = j

\* The entry of the configuration a stream name stands for: the first one that
\* is fit to become a stream.
Fit(e) == /\ e.name # NoName
          /\ e.creatable
          /\ e.list = "inbound" => e.inputs # <<>>

Standing(q) == {q[i] : i \in {j \in DOMAIN q :
                   Fit(q[j]) /\ \A k \in 1 .. j - 1 : Fit(q[k]) => q[k].name # q[j].name}}

\* A bad entry costs its own stream only: once the entries are read, the
\* streams are exactly those of the entries that stand (server.py 124-141).
BadEntriesAreContained ==
    streamsLeft = <<>> =>
       Elements(streams) \ {ApiStream} = {Created(e) : e \in Standing(config.streams)}
                                            \ {ApiStream}

\* Everything the server starts has come up.
AllUp == /\ phase = "joined"
         /\ broker
         /\ \A ns \in Elements(processes) : child[ns].up

\* What the configuration asks for, read off the configuration alone.
Asked ==
    LET Streams == {Created(e) : e \in Standing(config.streams)}
        Outputs == {s.name : s \in {t \in Streams : t.list = "outbound"}}
        Plugins == {p \in Elements(config.plugins) : p.class # NoName}
        Running == {p \in Plugins : p.creatable}
        Answering == {p \in Plugins : p.creatable \/ p.process # NoProcess}
    IN (UNION {{<<s.name, i>> : i \in s.inputs} : s \in Streams})
         \cup {<<TlmTopic, n>> : n \in ApiInputs}
         \cup PluginLinks(Running)
         \cup UNION {(p.outputs \cap Outputs) \X {p.class} : p \in Answering}

\* The three parties that subscribe (the broker, the server after the spawns,
\* each child) leave no link of the configuration out and make up none, in
\* whatever order they run; the links to the command topic are apart.
WiredAsAsked == AllUp => {l \in subs : l[2] # CmdTopic} = Asked

\* server_architecture.rst 72: the entry point for commands is "connected to a
\* single outbound stream, either explicitly declared by the stream [...], or
\* decided by the server".
OneCommandStream ==
    AllUp => LET Outbound == {e \in Standing(config.streams) : e.list = "outbound"}
                 Asking == {e \in Outbound : e.commands}
                 Takers == {l[1] : l \in {m \in subs : m[2] = CmdTopic}}
             IN /\ Outbound # {} => Cardinality(Takers) = 1
                /\ Outbound = {} => Takers = {}
                /\ \A n \in Takers : \E e \in Outbound :
                      e.name = n /\ (Asking # {} => e \in Asking)

\* Entries that the code fails on outside of a try
Fatal == \/ \E e \in InboundEntries : Unreadable(e)
         \/ \E e \in Standing(config.streams) : e.name = TlmTopic
         \/ \E p \in Elements(config.plugins) : p.class = NullEntry
         \/ \E e \in Standing(config.streams) : Created(e).list = "servers" /\ ~e.bindable
         \/ ~config.brokerBinds

\* An entry that cannot be created, is taken or is incomplete, stream or plugin, costs
\* itself only: unless an entry is one of those the code fails on outside of a try, or
\* a socket cannot be bound, the server comes up with what is left, and so does every
\* plugin process (server.py 59-74, 124-141; process.py 96-131).
ComesUp == ~Fatal ~> AllUp

\* server_architecture.rst 63-64 and 81-102: no stream entry of the kind shown
\* there, with a name, keeps the server from coming up.
NeverCrashes == phase # "crashed"
=============================================================================
