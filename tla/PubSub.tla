------------------------------- MODULE PubSub -------------------------------
(***************************************************************************)
(* What AIT's message bus promises the streams and plugins it connects     *)
(* (server/broker.py and client.py, without their sockets): a client       *)
(* handles messages it asked for, each at most once, those of one          *)
(* publisher in the order they were published.  Messages may be lost; a    *)
(* client whose greenlet died handles nothing any more.                    *)
(***************************************************************************)
EXTENDS Naturals, Sequences

CONSTANTS Clients,   \* streams, plugins and other processes on the bus
          Topics,    \* topics, which are names of clients or free strings
          PrefixOf   \* the pairs <<p, t>> of topics with p a prefix of t

VARIABLES requested,  \* the topics each client was subscribed to
          sent,       \* the topics each client published on, in order
          handled,    \* what each client handled, in order
          alive       \* the client's greenlet runs

vars == <<requested, sent, handled, alive>>

\* ZeroMQ matches a subscription with every topic it is a prefix of.
Matches(T, t) == \E p \in T : <<p, t>> \in PrefixOf

\* The n-th message of src.
Messages == [src : Clients, topic : Topics, n : Nat \ {0}]

Init == /\ requested = [c \in Clients |-> {}]
        /\ sent = [c \in Clients |-> <<>>]
        /\ handled = [c \in Clients |-> <<>>]
        /\ alive = [c \in Clients |-> TRUE]

\* Subscriptions are only added: one at a time, or by the broker for all the
\* clients of the server in one go.
Request == /\ requested' \in [Clients -> SUBSET Topics]
           /\ \A c \in Clients : requested[c] \subseteq requested'[c]
           /\ UNCHANGED <<sent, handled, alive>>

Publish(c, t) == /\ sent' = [sent EXCEPT ![c] = Append(@, t)]
                 /\ UNCHANGED <<requested, handled, alive>>

\* Client c handles the n-th message of src, never an older one afterwards.
Handle(c, src, n) ==
    /\ alive[c]
    /\ n \in 1 .. Len(sent[src])
    /\ Matches(requested[c], sent[src][n])
    /\ \A i \in 1 .. Len(handled[c]) :
          handled[c][i].src = src => handled[c][i].n < n
    /\ handled' = [handled EXCEPT ![c] =
                     Append(@, [src |-> src, topic |-> sent[src][n], n |-> n])]
    /\ alive' \in {alive, [alive EXCEPT ![c] = FALSE]}
    /\ UNCHANGED <<requested, sent>>

Next == \/ Request
        \/ \E c \in Clients, t \in Topics : Publish(c, t)
        \/ \E c, src \in Clients : \E n \in 1 .. Len(sent[src]) : Handle(c, src, n)

Spec == Init /\ [][Next]_vars
=============================================================================
