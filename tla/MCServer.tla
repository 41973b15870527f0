------------------------------ MODULE MCServer ------------------------------
(***************************************************************************)
(* Configurations for Server: every list of at most so many entries taken  *)
(* from a menu that holds one entry of each kind the code tells apart.     *)
(***************************************************************************)
EXTENDS Server, TLC

CONSTANTS inA, inB, out, outToo, Plug, Other, proc, proc2

In(name, inputs, handlers, creatable) ==
    [list |-> "inbound", name |-> name, inputs |-> inputs, handlers |-> handlers,
     creatable |-> creatable, bindable |-> TRUE, commands |-> FALSE, output |-> "none"]

Out(name, creatable, commands, output) ==
    [list |-> "outbound", name |-> name, inputs |-> <<>>, handlers |-> "absent",
     creatable |-> creatable, bindable |-> TRUE, commands |-> commands, output |-> output]

Plugin(class, process, inputs, outputs, creatable) ==
    [class |-> class, process |-> process, inputs |-> inputs, outputs |-> outputs,
     creatable |-> creatable]

UpTo(n, S) == UNION {[1 .. k -> S] : k \in 0 .. n}

InMenu == {In(inA, <<Port>>, "packet", TRUE),
           In(inA, <<Port>>, "other", FALSE),
           In(inA, <<inB>>, "absent", TRUE),
           In(inB, <<inA>>, "packet", TRUE),
           In(inB, <<inA>>, "packet", FALSE),
           In(inB, <<>>, "absent", TRUE),
           In(inB, <<Port>>, "empty", TRUE),
           [In(inB, <<Port>>, "other", TRUE) EXCEPT !.bindable = FALSE],
           In(NoName, <<Port>>, "absent", TRUE),
           In(TlmTopic, <<Port>>, "other", TRUE)}

OutMenu == {Out(out, TRUE, TRUE, "port"),
            Out(out, FALSE, TRUE, "none"),
            Out(outToo, TRUE, FALSE, "none"),
            Out(outToo, TRUE, TRUE, "list"),
            Out(inA, TRUE, TRUE, "none"),
            Out(NoName, TRUE, TRUE, "port")}

\* Anything may be wrong with the streams; one plugin at most.
MessyConfigs ==
    {[streams |-> i \o o, api |-> a, plugins |-> p, brokerBinds |-> TRUE] :
        i \in UpTo(2, InMenu), o \in UpTo(2, OutMenu), a \in {{}, {inA, out}},
        p \in {<<>>, <<Plugin(Plug, NoProcess, {inB}, {out}, TRUE)>>,
               <<Plugin(Plug, NoProcess, {inB}, {out}, FALSE)>>}}

PluginMenu == {Plugin(Plug, NoProcess, {inA}, {out}, TRUE),
               Plugin(Plug, NoProcess, {inA}, {out}, FALSE),
               Plugin(Plug, proc, {inA, Other}, {outToo}, TRUE),
               Plugin(Other, proc, {inB}, {out, inA}, TRUE),
               Plugin(Other, proc, {inB}, {out}, FALSE),
               Plugin(Other, proc2, {Plug}, {out, outToo}, TRUE),
               Plugin(NoName, proc2, {}, {}, TRUE),
               Plugin(NullEntry, NoProcess, {}, {}, TRUE)}

\* Lists of plugins with no class twice in one process
PluginLists ==
    {q \in UpTo(3, PluginMenu) :
        \A i, j \in DOMAIN q : i < j => <<q[i].class, q[i].process>> # <<q[j].class, q[j].process>>}

\* The streams load; a port has no other inputs beside it.
PluginConfigs ==
    {[streams |-> s, api |-> {}, plugins |-> p, brokerBinds |-> p = <<>> => b] :
        s \in {<<In(inA, <<Port>>, "packet", TRUE), In(inB, <<inA>>, "absent", TRUE),
                 Out(out, TRUE, FALSE, "port"), Out(outToo, TRUE, TRUE, "none")>>,
               <<In(inA, <<Port>>, "packet", TRUE), Out(outToo, FALSE, TRUE, "none")>>},
        p \in PluginLists, b \in BOOLEAN}

AllConfigs == MessyConfigs \cup PluginConfigs

\* The streams of server_architecture.rst 83-123: telem_port_in_stream has its
\* handler as a bare name, command_port_out_stream its output as a list.
DocExample ==
    {[streams |-> <<In(inA, <<Port>>, "text", FALSE), In(inB, <<inA>>, "packet", TRUE),
                    Out(out, FALSE, FALSE, "none"), Out(outToo, TRUE, FALSE, "list")>>,
      api |-> {}, plugins |-> <<>>, brokerBinds |-> TRUE]}
=============================================================================
