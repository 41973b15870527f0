------------------------------ MODULE MCBroker ------------------------------
(***************************************************************************)
(* Instances of Broker.  A UDP input stream feeds a plugin, the plugin     *)
(* feeds an output stream, which also takes the commands of another        *)
(* process.                                                                *)
(***************************************************************************)
EXTENDS Broker, TLC

CONSTANTS inStream, plugin, outStream, cmdApi,
          nameIn, namePlugin, cmdTopic

MCTopicsOf == [c \in Clients |-> CASE c = inStream -> {nameIn}
                                   [] c = plugin -> {namePlugin}
                                   [] c = cmdApi -> {cmdTopic}
                                   [] OTHER -> {}]

Equal == {<<t, t>> : t \in Topics}

\* The plugin runs in a process of its own: it subscribes itself, and
\* Server.wait subscribes the output stream.
ProcessWanted == [c \in Clients |-> IF c = outStream THEN {cmdTopic} \cap Topics ELSE {}]
ProcessLate == [c \in Clients |-> CASE c = plugin -> {nameIn}
                                    [] c = outStream -> {namePlugin}
                                    [] OTHER -> {}]

\* The output stream takes the input stream itself, beside the commands.
BothLate == [c \in Clients |-> IF c \in {plugin, outStream} THEN {nameIn} ELSE {}]

\* Bounds on the messages: two of the input stream to see their order, one of
\* the others to see them mixed.
TwoInOneOther == [c \in Clients |-> CASE c = inStream -> 2
                                      [] c = outStream -> 0
                                      [] OTHER -> 1]
TwoInOneCmd == [c \in Clients |-> CASE c = inStream -> 2 [] c = cmdApi -> 1 [] OTHER -> 0]

\* The name of the input stream is a prefix of the plugin's.
Prefixed == Equal \cup {<<nameIn, namePlugin>>}
=============================================================================
