# A TLA+ verification of AIT-Core

AIT-Core (the AMMOS Instrument Toolkit) is a ground data system for
instruments: a server receives telemetry, passes it along streams of handlers
and plugins, publishes commands, and feeds displays; a ground script API,
command line tools and a capture daemon stand around it.  This directory models
the concurrent and stateful core of the program, checks the models with TLC and
proves what matters most about them with TLAPS.

Run `tlc -config <name>.cfg <module>.tla` for a check (the list is below) and
`tlapm <Name>Proofs.tla` for the proofs.

## 1. Inventory

Paths are below `src/ait/core/`.

| Component | State it keeps | Operations and interactions | What is hard | What makes it correct |
|---|---|---|---|---|
| Greenlet deque, `api.py` `GeventDeque` | a bounded deque, an Event, the parked greenlets | append, pop, extend, ... shared by the greenlets of a process; buffers of the ground script API, queue of the OpenMCT plugin | wake-ups and timeouts against inserts and clears; the cap | no lost wake-up, no item twice, timed pops end, the newest items stay in order |
| Message bus, `server/broker.py`, `server/client.py` | the broker's sockets, each client's PUB and SUB socket, subscriptions, pipes | publish, subscribe (broker, `Server.wait`, other processes), the broker's loop, the clients' receive loops | subscriptions travel against messages, hop by hop; drops at high-water marks and before subscriptions arrive; a client that dies | matched, ordered, at most once delivery; no gaps once a flow is up; all subscriptions arrive |
| Server start-up, `server/server.py`, `server/process.py`, `server/plugin.py` | lists of streams, plugins and plugin processes; who is subscribed to what | reads the configuration, creates what it can, starts greenlets, spawns processes | errors in single entries; three parties that subscribe in any order | bad entries are contained, names unique, the wiring is what the configuration asks for, the server comes up |
| Streams and handlers, `server/stream.py`, `server/handler.py`, `server/handlers/` | chain of handlers of each stream | `process` runs a message through the chain and publishes | a handler that returns nothing; lengths and APID masks | what is published is what the last handler made |
| OpenMCT plugin, `server/plugins/openmct.py` | telemetry queue, set of web sockets, each one's subscriptions | `process` queues, one greenlet broadcasts, one greenlet per web socket reads | a set that changes while it is iterated; failing sends and requests; the full queue | order per client, every subscriber gets a broadcast, the set matches the requests |
| Other plugins, `server/plugins/` | accumulated packets; trip counters; routing table | `process` on every message; a timer | publish between read and clear; counters at thresholds | nothing lost, alerts at threshold and period |
| Ground script API, `api.py` | command history file, packet buffers, monitor greenlet | `send`, `validate`, `wait`, telemetry by name | history after send; polling with timeouts | a recorded command was sent; a satisfied wait returns true |
| Binary stream capture, `bsc.py` | capturers by address, handlers with open logs, a pool of greenlets | add, stop, rotate by web requests, capture loops | a capturer that dies; the pool's limit; handlers of one name; rotation that fails | what is registered captures; what is stopped is closed |
| Packet capture files, `pcap.py` | file, counters of bytes, packets and seconds | write with rollover, read, query, segment, times | boundaries of the thresholds, truncated files | no packet lost or written twice, segments within limits |
| Commands, `cmd.py`, `dtype.py` | the dictionary, by name and by opcode | define, create, validate, encode, decode | opcodes that repeat, arguments out of order, values at the bounds | a valid command arrives as it was given |
| Telemetry, `tlm.py`, `dtype.py`, `limits.py` | packet definitions with a history of fields; a packet's bytes | place fields, set, read, `when`, masks | fields that share bytes, fields that are there sometimes | setting a field leaves the others; the history has the newest value |
| Sequences, `seq.py`, `bin/ait_seq_*.py` | lines in a process, a text and a binary file | read, append, write, validate, the tools | a checksum written last, rounding of delays, a crash between writes | a file that reads has the lines that were written |
| Tables, `table.py`, `bin/ait_table_*.py` | a definition, a text and a binary file | encode, decode | names that repeat, padding, files cut short | decoding gives the rows of the text |
| Event records, `evr.py` | a dictionary | look up, format | | |
| Databases, `db.py`, `server/plugins/data_archive.py`, `bin/ait_tlm_db_insert.py` | a connection, a table for each packet type | insert, query | merging results of several types; one type that fails | each packet once, none missing but of types reported |
| Time, `dmc.py` | leap second table, cached in a file | conversions, update over the network | the very second of a change; a file written half | GPS time is the time that has elapsed |
| Configuration, `cfg.py` | merged levels, path variables | reload, expand, read | precedence of levels, reload after a failure | the most specific level wins |
| Dictionaries, `val.py`, `util.py`, `json.py`, `server/serial.py` | a cache of dictionaries | load, validate | a stale cache | the dictionary is the file's |
| Geometry, logging, notification, tools, `geom.py`, `coord.py`, `log.py`, `notify.py`, `gds.py`, `bin/` | none to speak of | formulas and I/O | | |

How they interact: an inbound stream receives on a UDP port or from the bus,
runs its handlers and publishes under its own name; plugins and outbound
streams subscribe to names.  Everything in the server's process is a greenlet:
a function runs until it waits for a socket, an event or a timer, and every
interleaving in the models happens at such a place.  Plugins with a
`process_id` run in child processes, with sockets of their own.

## 2. The modules

| Module | Models | Role |
|---|---|---|
| `GeventDeque` | `api.py` class GeventDeque | component |
| `PubSub` | the promise of the message bus | abstract specification |
| `Broker` | `broker.py`, `client.py` | component; implements `PubSub` |
| `Server` | `server.py`, `process.py`, `plugin.py`, subscriptions of `broker.py` | component |
| `OpenMct` | realtime half of `openmct.py` | component |
| `StreamCapture` | `bsc.py` | component |
| `Segments`, `CaptureFile` | `pcap.py`: rollover, segment and times; a file appended to and read | components |
| `PacketAccumulator`, `LimitMonitor`, `ApidRouter` | three plugins of `server/plugins/`, with `limits.py` and `notify.py` | components |
| `Streams` | `stream.py`, `handler.py`, `handlers/` | component |
| `GroundApi` | `api.py` without `GeventDeque` | component |
| `DataTypes` | the integers of `dtype.py`, their bytes and bits, slices of bytes | operators |
| `Commands`, `Packets`, `Tables` | `cmd.py`; `tlm.py`; `table.py` with its tools | components over `DataTypes` |
| `SequenceFile` | `seq.py` with its tools | component |
| `LeapSeconds` | the leap second table of `dmc.py` | component |
| `PacketArchive` | `db.py`, the data archive plugin, `ait-tlm-db-insert` | component |
| `Config` | `cfg.py` | component |
| `GeventDequeProofs`, `BrokerProofs`, `ServerProofs`, `StreamCaptureProofs`, `OpenMctProofs` | the component of that name | theorems |
| `FileProofs` | `SequenceFile`, `LeapSeconds`, `Segments`, `CaptureFile`, `PacketArchive`, `Tables` | theorems |
| `ApplicationProofs` | `GroundApi`, `PacketAccumulator`, `LimitMonitor`, `ApidRouter`, `Streams`, `Config`, `Commands`, `Packets` | theorems |
| `Lemmas` | `DataTypes` | lemmas: induction, recursion and counting on the natural numbers; division; numbers, their bytes and bits; slices; bytes that are put together |
| `MCGeventDeque`, `MCBroker`, `MCServer`, `MCOpenMct`, `MCStreamCapture` | | instances for TLC |
| `MCParts` | | one instance of the fourteen small components, which share nothing: the variable `part` chooses in the initial state which of them moves |

Definitions whose comment begins with `mutated:` are wrong on purpose: each is
a plausible bug in the definition below it.  No specification uses them; put in
that definition's place they break the property they are listed with in
`PROJECT.json`, which shows that the property can fail.

### GeventDeque

`deque` and `notEmpty` are the fields of the class; `notifier` is whether the
Event has scheduled its callback in gevent's hub; `status`, `left` and `timed`
say where each greenlet is in `_pop`.  Each method is one action, because
greenlets switch only in `wait()`: a blocking pop is `PopBlock`, which takes
at once, parks or spins, followed by `Notify` (the callback starts), `Wake`
(it switches to the greenlet, which goes round the loop) or `TimerFires`.
Items are numbered in the order of insertion, so that order and uniqueness can
be said.  "spinning" is the state in which the loop of `_pop` turns without
ever waiting: the Event is set and the deque is empty.  As nothing else in the
process can run then, every action asks that nobody spins.  `uses` is a history
variable: which part of the interface has been called so far.  No action reads
it; the properties that hold of a deque used as a queue, or of one whose
`remove()` is never called, are stated with it.

The Event is external: `set()` schedules one callback, which switches to those
who are parked when it starts and looks again at its end, and timers do not run
inside a callback; that is what gevent's `AbstractLinkable` does.

### Broker and PubSub

`requested`, `xpub`, `xsub` and `filter` are the same subscriptions at four
places on their way from a client's `setsockopt` to the PUB sockets of the
publishers.  `up` and `down` are the ZeroMQ pipes, bounded by `Hwm`; `sent` and
`handled` record what was published and what `process()` was called with.
`SubscribeAll` is the start of the broker's greenlet, `LoopTurn` one turn of
its loop (a message, a subscription, or both), `SubscribeLate` any later
subscription, `Publish` and `Receive` the two halves of a client; `XpubReads`
and `PubLearns` are ZeroMQ's I/O threads.  ZeroMQ matches prefixes, and
`PrefixOf` says which topics begin with which.  A `Receive` may end the
client's greenlet: `process()` may raise, and nothing restarts it.  `overflow`
is a history variable: a full pipe has made a socket drop a message.

`PubSub` keeps four of the variables and says nothing about sockets: a client
handles matching messages, each at most once, and those of a publisher in
order.  `Bus == INSTANCE PubSub WITH ...` in `Broker` maps each of the four to
the variable of its name.

### Server

An entry of the configuration is a record of what the code looks at (name,
inputs, kind of handlers, whether they can be created, whether its port can be
bound, flags); a run takes any of a set of configurations.  `LoadStream`, `CreateApiStream` and `LoadPlugin`
are the turns of the loops in `Server.__init__`; `StartGreenlets`,
`SpawnProcess` and `SubscribeProcessOutputs` are `Server.wait`, which ends when a
server cannot bind its port, since `start()` is called outside of any try;
`BrokerSubscribes` is the broker's greenlet; `ChildLoads` and `ChildStarts` are
a child process.  From `StartGreenlets` on they interleave freely: the server's
main greenlet yields while it starts a process, and the children are processes.
`subs` are pairs of a subscriber and a topic.

### OpenMct

`process` is `Process`; the greenlet of a request is `Connect`, the messages,
`PeerCloses` and `Leave`; the polling greenlet is `Take` or `TakeNothing`,
then `Visit` for each socket of the set, and `SendDone` or `SendFails`, until
`IterationEnds`.  A send waits, so anything may happen during it.  `iter`
describes Python's iterator over a set: it raises when the size of the set has
changed, and when as many came as went it may come to any element, again or not
at all.  The queue is used here by its contract, which `GeventDeque` checks
(`NewestInOrder`, `TimedPopEnds`).  A packet is "good", or too short for a
scalar or for an element of an array, which the code takes in three ways.
Greenlets switch at waits only: the others run while the polling greenlet waits
for the queue, is in the middle of a send, or is dead (`Free`), and never between
the beginning of an iteration and its first send; after a packet it takes the next
one of the queue without waiting ("again").

### StreamCapture

`bsc.py` patches the standard library, so the web server and the capturers are
greenlets of one process; the web server takes one request after the other.
`registered` and `greenlet` are the manager's table, `pool` is who is in
gevent's pool; handlers are numbered in the order they are added, which is
their order in `capture_handlers`.  `request` is what the web server is in the
middle of: it lets others run only while it waits for room in the pool
(`AddCapturer`, `PoolAdmits`) or for a greenlet it killed (`StopNext`,
`StopJoined`; `StopCapturer`, `CapturerJoined`).  `StopFails` is a log that does
not close, which has its buffer still to write: the request ends there, and what
it had emptied stays in the table.  `Capture`, `CaptureFails`, `RotationFails`,
`WriteFails` and `Killed` are the turns of a capturer's loop.  Any set of logs may
be due for rotation at any packet; opening, transforming, writing and closing may
fail, and the first log that does not close when a capturer ends leaves the later
ones open (`CleanUp`).
`written` and `since` are history: what is in the log of a handler, across its
rotations, and how many packets its capturer had seen when it came.

### Segments and CaptureFile

`Segments` is a `PCapRolloverStream`: `WritePacket` opens a file if there is
none, writes, counts and closes, all in one call of `write()`.  Time is counted
in half seconds, because the code rounds seconds up for a threshold and down
for a name; a file is named after its second, and opening a name that is taken
overwrites.  `times` is the function of that name, on one file.  `CaptureFile`
is a `PCapStream` in mode "a" as blocks: the global header, the two halves of a
packet's header, its data.  A process that is killed loses what Python had
buffered, and as a large packet does not fit behind its header, the header can
be in the file without it.  The reader says nothing about what follows a place
where it takes other blocks for a header.

### PacketAccumulator, LimitMonitor, ApidRouter

`process()` and the timer of `PacketAccumulator` are one action each, since
publishing on a PUB socket does not wait; joining payloads of two types raises
and ends the greenlet it happens in.  The size of what is queued is a total over
the packets, computed again in the properties and not taken from the counter.  `LimitMonitor` checks one field of a
packet per action; an exception while a value is read or a mail is sent ends
it.  `ApidRouter` reads a routing table entry by entry; an exclusion is assumed to
name an APID once, since each time it is named takes back one listing.

### Streams

An inbound stream with a port and an outbound stream that names it.  `Open`
is the constructor with the check of the workflow (`valid_workflow`), which
compares types where both are declared.  `Arrive` is a datagram that
`PortInputClient.handle` passes to the chain of handlers in a greenlet of its
own, `Forward` a turn of the outbound stream's receive loop.  The CCSDS handler's length and
APID checks are computed from the datagram as the code does it; octets of any other
origin, when there are seven or more, are taken for a packet (`PacketOf`), as the
code takes them; a handler that
returns nothing, or raises, is a message of its own.  What a handler declares as
its output type is assumed to be the truth or nothing: the code compares
declarations and never looks at a message.  `forwarding` is whether
the greenlet of the outbound stream still runs.  The bus between the two is
`Broker`'s; here it loses nothing.

### GroundApi

`script` says where a ground script is: idle, between `socket.sendto` and
the write to the history file, in `wait()`, or killed.  A call of `send()` is
`SendRefused` (validation), `SendFails` (the socket or the publisher) or
`SendLeaves`, followed by `Record` and `SendReturns`, or by `RecordFails`, which
may leave the record in the file, as the flush or the close may raise;
`ScriptKilled` may come between any two of them and `ScriptRestarts` after it.  `Monitor` is a turn of the greenlet
that fills the packet buffers, `MonitorDies` its end by a packet that cannot be
decoded.  `Wait` is the start of `wait()`; `WakeUp` is the end of its sleep of a
quarter of a second and the look that follows, in the order of the code:
time-out first, condition afterwards.  `WaitForValue` is a `wait()` on a number
or a truth value, `Confirm` a prompt.  `trueSince` is a history variable: the
step since which the condition has been true.

### DataTypes, Commands, Packets, Tables

`DataTypes` has a type's bounds (`min`, `max`, as `validate` compares with),
what `struct.pack` takes (`Packs`, which is not the same), bytes in both orders,
Python's slices and slice assignments, and the bits of a number as a set (`Bits`,
`OfBits`), with which `&`, `|` and `~` are intersection, union and difference.

`Commands` is a dictionary and one command on its way: `Define` and
`DefineAgain` are `CmdDict.add`, `CreatePositional` and `CreateKeywords` are
`CmdDict.create`, then `Validate`, `Encode` and `Decode`.  Encoding writes each
argument into the slice its definition names, decoding reads argument after
argument.

`Packets` are the packets of one definition: `slices` is `_update_bytes`,
`MakePacket` is `Packet.__init__`, which reads the fields with a history,
`SetField` is `__setattr__` with its mask and shift, and is not possible where the
code raises: when the value or the mask does not fit the type, or the field's slice is
longer than its type (`Settable`).  Of fields of one name the last is the one that can
be reached (`Number`).  `asSet` and `presented` are history variables: what every field was last set to, and what the packets
have shown.

`Tables` has the two tools as actions (`EncodeTool`, which pads and checks the
size, `DecodeTool`, which makes a comment of the first row) beside the module's
functions (`EncodeToFile`, `DecodeToFile`).  Each may be killed while it writes
and leave any part of its file; `EncodeNothing` and `DecodeNothing` are those
that raise before they open it, or, for the decoding tool, find no definition or
several of the upload type in the first byte.  When that byte picks another
definition (`DecodeAsOther`), the text may become anything.  `EditText` is another text.  `source0` and
`size0` remember what the bytes were made from.

### SequenceFile

`tool` is what a process does with its `Seq`: `ReadText`, `ReadBinary` and
`ReadRaises` are `read()`, `AppendLine` is `append()`, `WriteText` and
`WriteTextRaises` are `write_text()`, and `write_binary()` is
`WriteBinary` (the file is truncated and gets its header), `EncodeLine` for each
line, `CloseBinary`, and `FillChecksum`, which opens the file again for the
checksum.  `LineRaises` is a line without an encoding; `ToolEnds` is the end of
the process, wherever it is, with as much in the file as had left the buffer.
Delays
are numbers of a unit that divides a millisecond and a 255th of a second, so
that the rounding of the binary form is exact arithmetic.

A command whose encoding is longer than the 106 bytes of its slot (`LongCommands`)
displaces what follows: `read_binary` takes slots of fixed size.  `Readings` are the
lines that may come of a file: up to the first such command those in the file, behind
it anything that the bytes there may decode to (`Strays`), or an exception
(`SlotRaises`).  What the displaced bytes are is left open.

### LeapSeconds

`ClockMoves` and `Announce` are the world: time passes and the published list
is extended before it runs out.  `Load` is the import of the module, which
reads the file; an expired or missing table makes it fetch the list (`Fetch`,
`UpdateRefused`, `UpdateRaises`), and `WriteTable` is the file, which is opened,
and so emptied, before anything is packed into it: a kill in between
(`ModuleKilled`) leaves it short.  A table is a set of dates with their offsets;
GPS time of a date is an operator over the table in force.  Whether a table has
expired is asked of the local clock, which `ZoneOffsets` sets apart from UTC.

### PacketArchive

`tables` are rows by packet type; `Connect`, `InsertAtTime` and `InsertRaises`
are the backend, which differ between SQLite and InfluxDB in what creates a
table and in what a missing one does.  A query (`QuerySqlite`, `QueryInflux`)
leaves a cursor for each type; the generator is `NextRound`, which takes one row
of every cursor and sorts them, and `YieldPacket`.  With InfluxDB it may end in an
exception (`GeneratorRaises`): a time without a fraction, or with nine digits of one,
does not parse.  A table is a set of rows, and
what the code leaves to SQL and to `sort` is `Sorted`, which puts in its n-th
place what n - 1 others precede.  `DictionaryGrows` is a new
process with one more packet type.  `asked` remembers the rows there were when
the query was made.

### Config

`Reload` is `reload()` on one of a set of files: `flatten` merges their levels,
the path variables come on top, and paths are expanded (`expand_config_paths`),
a variable with several values making several paths.  `ReloadMissing` is a file
that is not there, `ReloadRaises` one whose levels cannot be merged.
`add_path_variables` is an action of its own and takes effect at the next
reload.

## 3. What is checked

Bounds are the smallest for which every action fires and each hazard can
happen: a deque that overflows under three greenlets, a pipe that overflows with
two subscribers of one publisher and one that subscribes late, every pair of
entries of a menu of good and bad ones, a queue of one packet with a second one
behind it, a pool that is full while three handlers share two names and two
addresses, four packets over two seconds against five sets of thresholds,
a buffer that a packet overruns by itself or with a header, rows of three values
beyond a limit, routing tables of four entries over three APIDs.  Larger ones (four or five items, three greenlets, pipes of one and of
four messages, three packets over a queue of two) were run by hand with the same
result; they take minutes where these take seconds.

The components of `Parts` added to these have bounds as follows; each is run
alone, so their states add up and do not multiply (447,000 in all).

* `GroundApi`: one kind of packet with two modes and a buffer of one, two
  commands, two packets, time-outs of none, 0, 1 and 2 steps.  A history that
  differs from what was sent takes two commands and a failure; a wait that
  gives up wrongly takes a packet between two looks.
* `Commands`: five definitions with repeated opcodes, an opcode too large,
  fixed arguments, a range, an enumeration and arguments out of order; values
  at the bounds of their types; three definitions of which one command is made,
  padded to 6 bytes.
* `Packets`: six fields, of which four share bytes in pairs, one is there
  sometimes and one has a place of its own; four sources of bytes, two packets,
  two settings.
* `LeapSeconds`: a week of 3, a list that runs out 2 ahead, a clock to 7 that is
  read up to 1 early or late, two kills: a leap second is announced, missed, caught up with, and the file is cut
  short once while it is still needed.
* `PacketArchive`: three packet types of which two are there at first, three
  rows at two times, one query.  Fewer rows cannot be out of order.
* `SequenceFile`: texts of up to two lines, a command that fits its slot, one that
  is longer and one that is not known, a
  delay that is a multiple of 1/255 s and may yet be rounded down, two binary
  writes, so that the remains of
  the first may be read after the second.
* `Streams`: 25 workflows (typed and untyped, valid and refused), two of 27
  datagrams: APIDs that match a pattern, the second one, none; lengths stated
  right, too small and too large, and data that is again long enough for a packet.
* `Tables`: a definition with a header and one with names that repeat, six
  texts, three runs of a tool (encode, decode, encode what was decoded).
* `Config`: 9 files of three levels that add to a section, replace it or
  cannot be merged, two sets of variables, two reloads.

| Run (cfg) | Properties | Instance | Shows |
|---|---|---|---|
| `GeventDeque` | `NoLostWakeup`, `ReturnedOnce`, `NeverSpins`, `NewestInOrder`, `TimedPopEnds`, `SleeperServed` | 3 greenlets, 3 items, maxlen 2 | wake-ups and items are safe; without `remove()` pops end and do not freeze the process; as a queue, only the oldest items are lost |
| `GeventDequeSpin` | `TimedPopCanEnd`, violated | 2 greenlets | `remove()` of the last item freezes the next blocking pop |
| `BrokerBus` | `BusSpec` | 4 clients that may die, two late ones on one topic, a topic nobody can decode, pipes of 2 | the bus implements `PubSub` |
| `BrokerLive` | `NoGapsOnceFlowing`, `SubscriptionsSettle`, `TakenIsHandled` | 3 clients, two late, prefix topics, pipes of 2 | messages are lost at start-up or over a full pipe only; subscriptions arrive, taken messages are handled |
| `Server` | `UniqueStreamNames`, `BadEntriesAreContained`, `OneCommandStream`, `WiredAsAsked`, `ComesUp` | 24128 configurations: all pairs of good and bad stream entries (`MessyConfigs`), all triples of plugins in own and child processes (`PluginConfigs`) | bad entries cost only themselves; the wiring is complete in every order of the parties; the server comes up unless it fails outside of a try or a socket cannot be bound |
| `ServerDocExample` | `NeverCrashes`, violated | the documentation's example | it stops the server |
| `OpenMct` | `InOrder`, `SetMatchesHandlers`, `BroadcastReaches` | 2 sockets, 2 fields, 2 packets, a queue of 1 | order, the set agrees with the requests, a failing client does not stop the others |
| `OpenMctChanged` | `PollerGoesOn`, violated | 2 sockets | a client that comes or goes during a slow send ends the broadcasts |
| `StreamCapture` | `TypeOK`, `LogsAreComplete`, `TableIsSound`, `RequestsEnd` | 2 addresses, a pool of 1, 2 names, 3 handlers, 2 packets at each address | logs of living capturers are complete, what captures can be stopped, requests end |
| `StreamCaptureStale` | `AddedToMonitoring`, violated | 1 address | a handler is added to a capturer that is dead |
| `Parts` | `PartsTypeOK`, `SegmentsAsAsked`, `TimesTellGaps`, `LogReadsBack`, `AccumulatesOnce`, `NotifiedAsConfigured`, `RoutesAsListed`, `HistoryTellsSent`, `TimeoutIsJust`, `CommandsArrive`, `FieldsKeepApart`, `HistoryIsNewest`, `GpsTimeIsElapsed`, `QueryYieldsEach`, `SequenceReadsBack`, `StreamsDeliver`, `TableReadsBack`, `MostSpecificWins` | each small component by itself | see below |
| `ArchiveUnsorted` | `QueryIsTimeSorted`, violated | as `Parts` | packets of several types come back out of order |

What the properties of `Parts` say:

* `SegmentsAsAsked`, `TimesTellGaps`: capture files are cut behind the packet that
  reaches a threshold, and `times` reports the gaps there are.
* `LogReadsBack`: what was flushed before a torn packet is read back.
* `AccumulatesOnce`: packets are published once and in order.
* `NotifiedAsConfigured`: notifications come at threshold and frequency.
* `RoutesAsListed`: routes are those of the table.
* `HistoryTellsSent`: across failures and restarts the history file lists only
  commands that were sent, in the order they were, and every one whose `send()`
  returned True; none that was answered with False was sent.  A call that raised or
  was killed leaves it open whether its command is in the file.
* `TimeoutIsJust`: a `wait()` that gives up has not overlooked a condition that
  had been true for a step.
* `CommandsArrive`: a command that validates and encodes is decoded to the
  command and the arguments that were given, wherever they are placed.
* `FieldsKeepApart`: a field that shares no bit with others reads as it was last
  set, whatever was set around it.
* `HistoryIsNewest`: a field's history is its value in the newest bytes that had
  the field, whether or not a packet came of them.
* `GpsTimeIsElapsed`: with a valid table, GPS time differs from UTC by the leap
  seconds that have happened, also after crashes in the middle of an update.
* `QueryYieldsEach`: a query yields each packet in its range once, those of a
  type in order, while others are inserted; one that an exception ends has yielded
  the first of each type.
* `SequenceReadsBack`: a binary file that can be read has the commands of the last
  write, each at most 1/255 s early and never late, up to the first that is longer
  than its slot; when there is none, a file with its checksum can be read.  Behind
  such a command nothing is promised, nor does the code keep anything.
* `StreamsDeliver`: a CCSDS handler publishes exactly the datagrams that are whole
  and of a known type, in order and once, with the identifier of the first pattern
  that fits and all of their data; and a handler is given what it declares.
* `TableReadsBack`: a complete file decodes to the rows it was made from, up to
  names and padding; a file cut short gives the first of them or an error.
* `MostSpecificWins`: a parameter has the value of the most specific level that
  gives it, with path variables above all, and none that no level gives.  It speaks
  of reloads that came to their end; what one that raised leaves is modelled
  (`ReloadRaises`), and nothing is promised of it.

Deadlock is not checked where the system may stop: when the bounded number of
messages is used up and every subscription has arrived, a start-up that is
complete, a set of sockets that came and went, packets, calls or table entries
that are used up, a capture nobody asks anything of.

Fairness.  gevent's hub runs every callback and timer that is due and every
greenlet that can run, and each action of a greenlet, once enabled, stays
enabled until it runs or another greenlet does its work: weak fairness of each
of them.  The same holds of ZeroMQ's I/O threads and of child processes.  No
client is assumed to publish, connect or send anything, no caller to call.
`OpenMct` also assumes that a send ends: the code has no timeout on it, so this
is an assumption about clients, and a client that stops reading does stall the
others.

## 4. What is proved

TLAPS proves these for all values of the constants, from the named assumptions
in the modules only (sets of greenlets, clients and configurations may be
infinite).  Where an invariant that TLC checks is not inductive, the invariant
that is has a name and is described here.

* `GeventDequeProofs`: `TypeCorrect`; `NoWakeupIsLost`; `PopsNeverSpin`.
  `NoLostWakeup` is not inductive: that somebody parked will be woken depends on
  the Event's flag and on what the callback will do at its end.  The invariant
  `WakeupInv` adds that an item in the deque implies a set Event, and that a set
  Event with somebody parked implies a callback.  `SpinInv` adds that, until
  `remove()` is called, nobody spins and a set Event implies an item.
  `ItemsAreReturnedOnce` rests on `OnceInv`: the numbers in the deque and those
  returned have been inserted, so that a new one is not among them; lemmas say of
  each operation where every item comes from.  `QueueKeepsNewest` adds
  `SleepersTakeLeft`: as long as the deque is used as a queue, every parked pop
  takes from the left.
* `BrokerProofs`: `TypeCorrect`; `BusImplementsPubSub`, the refinement.
  `BusInv` says where each message can be: what is in `up` and `down` was sent,
  carries its true topic, is newer than what the client handled of the same
  publisher, and matches a subscription of the client; and that what XPUB holds
  was requested.  The step of `PubSub` that needs it is `Handle`; every other
  action of `Broker` is a step of its own name or a stutter.
  `NothingLostOnceFlowing` (`NoGapsOnceFlowing`) rests on two more.  `KeptInv`: a
  message that is anywhere has passed a subscription, and that subscription is
  still there, at the publisher and at the broker, since nothing takes one back.
  `FlowInv`: as long as no pipe was full, every later message of its topic is in
  the pipe to the broker, in the pipe to the client, or handled.  Without the first,
  the second is not inductive: a message could follow one that a forgotten
  subscription let through.
* `ServerProofs`: `TypeCorrect`; `StreamNamesAreUnique`;
  `BadEntriesStayContained`.  `LoadInv` relates the streams that were created to
  the entries read so far, entry by entry.  `WiredWheneverUp` (`WiredAsAsked`) and
  `CommandsReachOneStream` (`OneCommandStream`) rest on `WholeInv`, which adds
  `PluginInv`, the same for plugins and processes, and `WireInv`: which of the
  three parties that subscribe has done so, and that each has subscribed what its
  own lists say and nothing else.  The two theorems have hypotheses on the
  configuration, because without them the properties are false and the code does
  not check them (section 5): `PortsAlone`, a stream that receives on a port names
  no other input; `ClassesDiffer`, no process has two plugins of one class;
  `CommandsLeftAlone`, no entry names the topic of the commands itself.  All
  configurations of the `Server` run satisfy the three.
* `StreamCaptureProofs`: `TypeCorrect` (with the pool's size);
  `TableStaysSound`; `LogsStayComplete`.  `TableInv` says of a stop request
  that is under way which capturers it still has to remove: those it came across
  without handlers, which are dead but for the one it waits for.  `PoolLives` says
  that the pool's greenlets live, so that a capturer which an ended request left
  behind cannot come back to life.  `LogInv` adds to the logs that
  no handler has two capturers and that the pool's greenlets live, without
  which a kill could seem to revive one.
* `OpenMctProofs`: `TypeCorrect`; `SetAgreesWithRequests`; `ClientsSeeOrder`,
  for any set of web sockets and any length of the queue.  `OrderInv` says that
  packet numbers grow along a packet's way: what a client has is older than what
  waits in the queue and not newer than what is being broadcast, which a disturbed
  iteration may send it twice.
* `ApplicationProofs`:
  * `GroundApi`: `ScriptTypeCorrect`; `GivingUpIsJust` (`TimeoutIsJust`), by
    `WaitInv`, which adds `Asleep`: while a script sleeps, its condition can only
    have become true during this sleep, or it would have returned at the look
    before.  `HistoryIsTrue` (`HistoryTellsSent`), by `SentInv`: a command
    that left is of a call that was made, and the one that is being recorded, or is
    recorded and not yet answered, left in the last call, whose answer is still open;
    so the history stays in order as it grows, and the answer True comes after it.
  * `LimitMonitor`: `LimitMonitorTypeCorrect`; `NotifiedRight` (`NotifiedAsConfigured`).  `Counting` says that
    a counter is the length of the row of bad values that the field ends with; the
    property speaks of the values alone and never of the counter.
  * `PacketAccumulator`: `AccumulatorTypeCorrect`; `PublishedOnce` (`AccumulatesOnce`).  `AccInv` divides the
    packets among what was published, what waits and what was lost when types did
    not join (`Shared`), and says that the counter is the total of what waits and
    which payloads reached the size (`Sized`).
  * `ApidRouter`: `RouterTypeCorrect`; `RoutesRight` (`RoutesAsListed`).  `RowInv` says of an APID and a
    topic that is listed for it once at most that the topic stands in the APID's row
    exactly once if no later entry excludes it, and else nowhere.
  * `Config`: `ConfigTypeCorrect`; `SpecificLevelsWin` (`MostSpecificWins`).  `MergesTo` says of the first
    n levels what each key and each key within a section has come to, and from which
    level; `ReloadedAs` carries it through the path variables and the expansion of
    paths.
  * `Streams`: `StreamsTypeCorrect`; `CompletePacketsGoOut` (`StreamsDeliver`).  The
    k-th datagram that is complete is the k-th message that was published, by
    counting those before it; that a handler gets what it declares follows from
    `FitInv`, that only workflows that fit are opened.
  * `Commands`: `CommandsAreSound`; `CommandsArriveAsCreated` (`CommandsArrive`);
    `CommandsTypeCorrect`.  `CommandsInv` says that the dictionary has each definition
    under its name and its opcode, unless two share one and `add` refused
    (`DictionarySound`); that a command is found valid before it is encoded and that the
    bytes are the encoding of its arguments (`CommandSound`).  That these bytes decode to
    the arguments is a chain of lemmas: each argument's slice is behind that of the one
    before (`FieldsEnd`), so writing one leaves the others and the opcode; a value that
    `struct.pack` takes has bytes that give the value again, for every number of bytes,
    sign and order; and the arguments that are given are counted the same way on both
    sides.
  * `Packets`: `PacketsAreSound`; `FieldsReadBack` (`FieldsKeepApart`);
    `HistoryHasNewest` (`HistoryIsNewest`); `PacketsTypeCorrect`.  `FieldsKeepApart` alone
    is not inductive: a field can only be read back if it can be read, so `PacketsInv`
    adds that a packet which was made with all its bytes keeps them (`PacketsWhole`),
    whichever field is set.  The proof looks at a field bit by bit: the bits of a number
    are those of its bytes, in either order, so `__setattr__`, which goes byte by byte,
    sets the bits under the mask (`ReadsBack`) and leaves those of a field that shares
    none with it (`NeighbourStays`).  The history is proved by `Newest`, the value in
    the last reading that had the field: `PacketHistory.add` makes its reading the last.
* `FileProofs`:
  * `SequenceFile`: `SequenceTypeCorrect`; `SequencesReadBack`
    (`SequenceReadsBack`).  `WriteInv` says what is in the binary file by how far
    `write_binary` has come: nothing that can be read until all lines were encoded,
    then lines that convey those of the sequence (`Conveys`), a delay losing less
    than a fraction.  As what is read agrees with the file up to the first command
    that is longer than its slot (`Readings`), it conveys the sequence so far.
  * `LeapSeconds`: `LeapTypeCorrect`; `GpsTimeIsRight` (`GpsTimeIsElapsed`).  `LeapInv` says that a table,
    in memory or in the file, was made of the list as it was once, and that all that
    was published since lies behind the table's expiry.
  * `Segments`: `SegmentsTypeCorrect`; `SegmentsRight` (`SegmentsAsAsked`);
    `TimesAreRight` (`TimesTellGaps`).  `FilesAre` has four parts: what a file holds
    (`FileKept`), that one which is closed reached a threshold (`FileLeft`), that the
    totals are those of the open file (`OpenFile`), and that nothing is missing while
    no two files begin alike (`AllInFiles`).  `times` is a recursive function, and what
    its ranges are after n packets is proved by induction on n.
  * `CaptureFile`: `CaptureFileTypeCorrect`; `FlushedReadBack` (`LogReadsBack`).
    `FileIs` says that a file is whole (`Intact`) or has a first packet that was torn
    (`TornAt`), where in it every packet before that begins (`Placed`), and what the
    last, unfinished packet may have left (`AtHand`); the reader, a recursive function
    over places, comes past each of them.
  * `PacketArchive`: `ArchiveTypeCorrect`; `QueriesYieldEach` (`QueryYieldsEach`).
    `Query` says of each type that its rows were yielded from the first on, that at
    most one is in the round, and that the cursor has the rest (`Part`).  That `Sorted`
    is a sequence of the set, each element once and in order, is proved by the ranks
    of the elements.
  * `Tables`: `TablesTypeCorrect`; `TablesReadBack` (`TableReadsBack`).  `TableInv` says
    that the binary file begins as the encoding of a text does, as far as it goes, and
    has zeros behind it (`BeginsAs`).  `Together` puts rows and columns behind each
    other, so each is found where those before it end (`RowEnds`, `FoundAt`).  The
    decoder is a recursive function, and `ReadRight` says of each of its states that the
    rows so far are those of the text, then rows of zeros, and that it stands where the
    next row begins; a row that lacks a byte makes it raise, or is the end when it lacks
    all (`ReadRightStep`).  With no byte missing no row is (`ReadsAll`).

The library states induction for an operator, which the provers here cannot
instantiate.  `Lemmas` states what the proofs need for sets and functions
instead: induction over a set of numbers, also up to a bound; that a function
defined by recursion satisfies its equation (`Recursion`); that a number follows
from another by steps (`Follows`); least and greatest elements; and how the number
of elements up to n grows with n.  Each is derived from the well-foundedness of the
natural numbers.  This is why the models define totals and readers as recursive
functions and count with sets where the code has a loop.  `Lemmas` also has what
`DataTypes` is used for: division by the powers of 256 and of 2, that a number is its
bytes and its bits, slices that touch or lie apart, and bytes that are put together
from parts.

Only model-checked:

* liveness (`TimedPopEnds`, `SleeperServed`, `SubscriptionsSettle`,
  `TakenIsHandled`, `ComesUp`, `BroadcastReaches`, `RequestsEnd`), which needs
  fairness and ENABLED;
* `PartsTypeOK`, which joins the types of the small components: each part of it is a
  theorem of its component's own specification, the composition of all of them is not.

## 5. Disagreements between the code and its documentation

Five are runs that TLC ends with a counterexample, quoted with their lines in
`PROJECT.json`, "findings".

* `GeventDequeSpin`: `remove()` does not clear the Event; a pop with a timeout
  may never end, and freezes the process.
* `ServerDocExample`: the documentation's own example stops the server, because
  `_create_api_telem_stream` indexes a handler that is a bare name.
* `OpenMctChanged`: a client that connects or leaves during a slow send ends
  the realtime telemetry of all clients for good.
* `StreamCaptureStale`: a capturer that died of an exception stays in the
  table, and what is added for its address never captures.
* `ArchiveUnsorted`: `query_packets` is to give packets "in time-sorted order"
  (`db.py` 794-795), and sorts those of a round only (845-863).

The models show others, which are read off their definitions and have no run:

* `Matches`: an input name also selects every name it is a prefix of, because
  ZeroMQ's subscriptions are prefixes (`broker.py` 194).
* `StreamLinks` leaves out the streams that receive on a port, so what such a
  stream names beside the port (`server_architecture.rst` 64) is never
  subscribed.  The configurations of the `Server` run have no such entry;
  `WiredAsAsked` is false with one.
* `LastOfClass`: of two plugins of one class in a process only the later one's
  outputs are subscribed (`process.py` 83).  The configurations have no such
  pair; `WiredAsAsked` is false with one.
* `Created`: an output written as a list, as in `server_architecture.rst`
  122-123, does not publish to the port.
* `ApiInputs`: by default the API's stream subscribes to streams that failed to
  load.  `WiredAsAsked` counts these as asked for.
* `Take`: a packet with an array cut short raises the exception that stands for
  an empty queue, so it is lost and a probe is sent (`openmct.py` 1009-1016).
* `HandlerDies`: a request that fails leaves its socket in the set for good
  (`openmct.py` 714-715 says it is removed).
* `LastNamed`: `stop_capture_handler` is to remove "all handlers with a given
  name" (`bsc.py` 573), and removes the last one at each address.
* `WritePacket`: "writing a new packet will cause the current file to be closed and
  a new file to be opened" when a threshold is exceeded, and a new file starts "when
  a packet is written with a timestamp that exceeds" the interval (`pcap.py` 216-220,
  239-240); the code writes the packet into the current file first and closes that
  afterwards (306-309, 313-314), so the packet beyond the threshold is the last of the
  old file.  `SegmentsAsAsked` follows the code and the parameters' "Rollover after"
  (242-245).
* `WritePacket`: a segment whose first packet falls into the second another
  segment is named after overwrites it, and the packets in it are lost
  (`pcap.py` 294-303; 216-220 says that a new file is opened).
* `PacketsOf`: a packet cut short is returned as if it were whole, and after a
  torn packet the next one's header is taken for data (`pcap.py` 398-402).
* `AccumulatorInit`: a timer or size that is not positive is to be replaced by a
  default (`PacketAccumulator.py` 26-37), but the class has no `self.log`, so
  that the constructor raises.
* `RemoveTopic`: "Removes a topic name from all the APIDs" (`apid_routing.py`
  158) takes back one listing; a topic that lists an APID twice keeps it.
* `APIDRouter.process` takes no `topic` (`apid_routing.py` 86), and the receive
  loop passes one (`client.py` 111): the first message ends the plugin, which is
  why `ApidRouter` stops at the table.
* `NotificationRaises`: `_send_email` catches `SMTPException` only (`notify.py`
  94), so a mail server that refuses the connection ends the limit monitor.
* `SendFails`, `RecordFails`: `send()` is to return False otherwise
  (`api.py` 186-187), and raises AttributeError for a socket or a history file
  that fails, because exceptions have no `message` (232-235).
* `Monitor`: `PacketBuffers.insert` calls `_create`, which is `create`
  (`api.py` 500); this raises for a packet whose buffer was not created.
* `Evaluate`: `wait()` looks at its time-out before its condition (`api.py` 725),
  so a condition that comes true in the last step is reported as a time-out.
* `min`, `max`: the bounds of signed types are off by one at both ends
  (`dtype.py` 172-173): 128 validates for an I8 and does not pack, -128 packs and
  does not validate.
* `SendRefused`, `Validate`: an unknown keyword makes `CmdDefn.validate` read
  `cmd.unrecognized`, which is `_unrecognized` (`cmd.py` 390-393).
* `packetSize`: a last field placed by its first byte alone makes the packet too
  short for it.
* `Settable`: a name is never found in an enumeration, as the view that
  `keys()` returns cannot be indexed (`tlm.py` 201, 389).
* `Add`: "previous values" are stored (`telemetry_intro.rst` 199);
  a packet adds its own values as it is made, so `history.field` is its own value.
* `InsertRaises`: SQLite without a time passes the value for the sequence of
  values (`db.py` 715 lacks the comma of a tuple), and the data archive plugin
  gives no time: with SQLite it archives nothing.
* `Connect`: an SQLite file that exists gets no tables for new packet types;
  `ait-tlm-db-insert` calls `create()` before `connect()`.
* `GeneratorRaises`: `rfc3339_str_to_datetime` wants a point and digits (`dmc.py`
  45, 279), and InfluxDB writes a whole second without them and the server's clock
  with nine: such a row ends the generator of `query_packets`.
* `QueryInflux`: several names end up in one pair of quotes, and no table has that
  name.
* `to_gps_week_and_secs` counts leap seconds, `to_gps_seconds` (`dmc.py` 142-160)
  does not.
* `UpdateRaises`: a refused connection is not among the exceptions that an update
  catches, so it fails the import of the module.
* `ReadText`: reading a `Seq` a second time adds to its lines.
* `WriteTextRaises`: `write_text()` of a sequence that was read from text has no
  checksum to print (`seq.py` 144): it truncates the file and raises.
* `ReadBinary`: the checksum is read and never compared.
* `Readings`: the 106 bytes that `Cmd.encode` pads to are "the maximum size of the encoded
  command" (`cmd.py` 243-244), but it takes the larger of that size and the encoding
  (260-274), so they are a minimum; a sequence with a longer command is written without
  complaint, and what follows it is read from the wrong place, with the checksum
  right.
* `Seq.validate` appends to `self.message` and `self.messages`, which do not exist
  (`seq.py` 233, 239), and `ait_seq_print.py` 73 calls `printText`, which is
  `print_text`; these have no definition.
* `is_valid`: the local time is compared with an expiry in UTC (`dmc.py` 298), so a
  table may be fetched some hours early or late.
* `DecodeTool`: the header is written as comments "so the table can be re-encoded
  easily" (`ait_table_decode.py` 66), but encoding skips comments and takes the
  first row for the header; without a header the first row is lost.
* `Padded`: padding decodes to rows of zeros.
* `UserData`: the slice is one octet longer than the packet states
  (`ccsds_packet_handler.py` 95).
* `Forward`: a last handler that returns a tuple ends the outbound stream.
* `Reload`: path variables are merged over the configuration and become part of
  it, so a variable of the name of a parameter replaces it.

## 6. Plan

Done, in this order:

1. `GeventDeque` with proofs.
2. `PubSub`, `Broker` with the refinement and its proof.
3. `Server` with proofs.
4. `OpenMct` with proofs.
5. `StreamCapture` with proofs.
6. `Segments` and `CaptureFile`.
7. `PacketAccumulator`, `LimitMonitor`, `ApidRouter`.
8. `GroundApi`.
9. `DataTypes`, `Commands`, `Packets`, `SequenceFile`, `Tables`.
10. `PacketArchive`, `LeapSeconds`.
11. `Streams`, `Config`.

12. `Lemmas`, and with it the proofs of what was only model-checked before:
    the flow of the bus, the wiring of the server, and the small components
    (`FileProofs`, `ApplicationProofs`).

Left: the dictionary caches of `util.py` with `val.py`;
event records; the serialization of `server/serial.py`; the historical queries of the
OpenMCT plugin.

## 7. What is not modelled

* Contents of messages and of log lines, ZeroMQ's connections (they are always
  up) and reconnects, crashes of the broker's process, which take all of the
  server with them.
* Strings, floating-point numbers, times and arrays of `dtype.py`; conversions
  and derivations of telemetry, which evaluate Python expressions.
* What is inside SQLite, InfluxDB, gevent and ZeroMQ, beyond what the code relies
  on; these definitions are marked external.
* The historical queries, the dictionary conversion and the debug routes of the
  OpenMCT plugin, and its web client in JavaScript.
* Geometry and coordinates, which are floating-point formulas; schema validation,
  which is a library's; YAML; logging, syslog and e-mail beyond the exceptions
  they raise; command lines.
* Event records and tagged serialization: pure functions of data that the other
  models do not look into.
