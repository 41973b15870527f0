------------------------------- MODULE Broker -------------------------------
(***************************************************************************)
(* The message bus of the AIT server: server/broker.py and the ZeroMQ      *)
(* clients of server/client.py.  Every client has a PUB socket connected   *)
(* to the broker's XSUB and, but for the UDP input streams, a SUB socket   *)
(* connected to the broker's XPUB.                                         *)
(*                                                                         *)
(*   publish -> PUB --up--> XSUB -> broker loop -> XPUB --down--> SUB      *)
(*   PUB's filter <- XSUB <- broker loop <- XPUB <------ setsockopt        *)
(*                                                                         *)
(* Subscriptions flow against the messages, and a PUB socket drops what no *)
(* subscription it has heard of asks for.  Sets of subscriptions only      *)
(* grow, so what is under way between two sockets is the difference of     *)
(* what the two know.                                                      *)
(***************************************************************************)
EXTENDS Naturals, Sequences

CONSTANTS Clients, Topics, PrefixOf,
          TopicsOf,    \* the topics a client publishes on: its name, mostly
          Wanted,      \* what _subscribe_all subscribes each client to
          Late,        \* what other parties subscribe each client to:
                       \* Server.wait, a plugin process, TlmMonitor
          Undecodable, \* topics on which decode_message fails
          Hwm,         \* high-water mark of each pipe, in messages
          MaxMsgs      \* bound: how many messages each client publishes

ASSUME ConstantsAssumption ==
          /\ PrefixOf \subseteq Topics \X Topics
          /\ TopicsOf \in [Clients -> SUBSET Topics]
          /\ Wanted \in [Clients -> SUBSET Topics]
          /\ Late \in [Clients -> SUBSET Topics]
          /\ Undecodable \subseteq Topics
          /\ Hwm \in Nat
          /\ MaxMsgs \in [Clients -> Nat]

VARIABLES brokerPc,   \* the broker's greenlet: "start", then "loop"
          requested,  \* subscriptions set on each client's SUB socket
          xpub,       \* those of each client that the XPUB socket has read
          xsub,       \* those the broker has passed to the XSUB socket
          filter,     \* those each client's PUB socket has learnt of
          sent,       \* topics of all the messages of each client
          up,         \* the pipe from each PUB to the XSUB
          down,       \* the pipe from the XPUB to each SUB
          handled,    \* what each client's process() was called with
          alive,      \* the greenlet of the client has not died
          overflow    \* history: a full pipe made a socket drop a message

vars == <<brokerPc, requested, xpub, xsub, filter, sent, up, down, handled, alive,
          overflow>>

subscriptionVars == <<brokerPc, requested, xpub, xsub, filter>>

Message == [src : Clients, topic : Topics, n : Nat \ {0}]

Matches(T, t) == \E p \in T : <<p, t>> \in PrefixOf

Init == /\ brokerPc = "start"
        /\ requested = [c \in Clients |-> {}]
        /\ xpub = [c \in Clients |-> {}]
        /\ xsub = {}
        /\ filter = [c \in Clients |-> {}]
        /\ sent = [c \in Clients |-> <<>>]
        /\ up = [c \in Clients |-> <<>>]
        /\ down = [c \in Clients |-> <<>>]
        /\ handled = [c \in Clients |-> <<>>]
        /\ alive = [c \in Clients |-> TRUE]
        /\ overflow = FALSE

-----------------------------------------------------------------------------
(* Subscriptions.                                                          *)

\* Broker._run, up to the loop: the sockets are bound, then every client the
\* server built is subscribed without the greenlet yielding.
SubscribeAll ==
    /\ brokerPc = "start"
    /\ brokerPc' = "loop"
    /\ requested' = [c \in Clients |-> requested[c] \cup Wanted[c]]
    /\ UNCHANGED <<xpub, xsub, filter, sent, up, down, handled, alive, overflow>>

\* Broker.subscribe from Server.wait, or setsockopt in another process
SubscribeLate(c, t) ==
    /\ t \in Late[c] \ requested[c]
    /\ requested' = [requested EXCEPT ![c] = @ \cup {t}]
    /\ UNCHANGED <<brokerPc, xpub, xsub, filter, sent, up, down, handled, alive, overflow>>

\* The subscription reaches the XPUB socket, which from now on sends c the
\* messages it matches and, when no other client has it, queues it for the broker.
XpubReads(c, t) ==
    /\ t \in requested[c] \ xpub[c]
    /\ xpub' = [xpub EXCEPT ![c] = @ \cup {t}]
    /\ UNCHANGED <<brokerPc, requested, xsub, filter, sent, up, down, handled, alive, overflow>>

\* A subscription the XSUB socket holds reaches the PUB socket of c.
PubLearns(c, t) ==
    /\ t \in xsub \ filter[c]
    /\ filter' = [filter EXCEPT ![c] = @ \cup {t}]
    /\ UNCHANGED <<brokerPc, requested, xpub, xsub, sent, up, down, handled, alive, overflow>>

\* Subscriptions waiting to be received from the XPUB socket
Unforwarded == (UNION {xpub[c] : c \in Clients}) \ xsub

-----------------------------------------------------------------------------
(* Messages.                                                               *)

\* ZMQClient.publish.  The PUB socket drops a message that no subscription it
\* knows of matches, and one for a pipe that is full.
Publish(c, t) ==
    /\ Len(sent[c]) < MaxMsgs[c]
    /\ t \in TopicsOf[c]
    /\ sent' = [sent EXCEPT ![c] = Append(@, t)]
    /\ LET m == [src |-> c, topic |-> t, n |-> Len(sent[c]) + 1] IN
       up' = IF Matches(filter[c], t) /\ Len(up[c]) < Hwm
             THEN [up EXCEPT ![c] = Append(@, m)] ELSE up
    /\ overflow' = (overflow \/ (Matches(filter[c], t) /\ Len(up[c]) = Hwm))
    /\ UNCHANGED <<subscriptionVars, down, handled, alive>>

\* What XPUB.send does with m: a copy for every client with a matching
\* subscription and room in its pipe.
Distributed(m) ==
    [c \in Clients |-> IF Matches(xpub[c], m.topic) /\ Len(down[c]) < Hwm
                       THEN Append(down[c], m) ELSE down[c]]

Overflowing(m) ==
    \E c \in Clients : Matches(xpub[c], m.topic) /\ Len(down[c]) = Hwm

\* mutated: the message stays where it is in a turn that finds a subscription
ForwardAgain(p) == /\ up[p] # <<>>
                   /\ up' = IF Unforwarded = {} THEN [up EXCEPT ![p] = Tail(@)] ELSE up
                   /\ down' = Distributed(Head(up[p]))
                   /\ overflow' = (overflow \/ Overflowing(Head(up[p])))

\* mutated: the message received in a turn that finds a subscription is dropped
ForwardWhenIdle(p) == /\ up[p] # <<>>
                      /\ up' = [up EXCEPT ![p] = Tail(@)]
                      /\ down' = IF Unforwarded = {} THEN Distributed(Head(up[p])) ELSE down
                      /\ overflow' = (overflow \/ Overflowing(Head(up[p])))

\* One turn of the broker's loop after a poll that found p's message at the
\* frontend, or the subscription t at the backend, or both.
ForwardMessage(p) == /\ up[p] # <<>>
                     /\ up' = [up EXCEPT ![p] = Tail(@)]
                     /\ down' = Distributed(Head(up[p]))
                     /\ overflow' = (overflow \/ Overflowing(Head(up[p])))

\* mutated: only the first subscription is passed on
ForwardFirstSubscription(t) == /\ t \in Unforwarded
                               /\ xsub = {}
                               /\ xsub' = {t}

ForwardSubscription(t) == /\ t \in Unforwarded
                          /\ xsub' = xsub \cup {t}

NothingUp == \A c \in Clients : up[c] = <<>>

LoopTurn ==
    /\ brokerPc = "loop"
    /\ \/ \E p \in Clients : ForwardMessage(p)
       \/ NothingUp /\ UNCHANGED <<up, down, overflow>>
    /\ \/ \E t \in Topics : ForwardSubscription(t)
       \/ Unforwarded = {} /\ UNCHANGED xsub
    /\ ~(NothingUp /\ Unforwarded = {})
    /\ UNCHANGED <<brokerPc, requested, xpub, filter, sent, handled, alive>>

\* mutated: an exception in process() is caught and the message forgotten
ReceiveForgetful(c) ==
    /\ alive[c]
    /\ down[c] # <<>>
    /\ down' = [down EXCEPT ![c] = Tail(@)]
    /\ \/ UNCHANGED handled
       \/ handled' = [handled EXCEPT ![c] = Append(@, Head(down[c]))]
    /\ UNCHANGED <<subscriptionVars, sent, up, alive, overflow>>

\* ZMQInputClient._run: receive and decode a message, and process it.  An
\* exception leaves the loop and ends the greenlet for good.
Receive(c) ==
    /\ alive[c]
    /\ down[c] # <<>>
    /\ down' = [down EXCEPT ![c] = Tail(@)]
    /\ LET m == Head(down[c]) IN
       \/ /\ m.topic \in Undecodable
          /\ UNCHANGED <<handled, alive>>
       \/ /\ m.topic \notin Undecodable
          /\ handled' = [handled EXCEPT ![c] = Append(@, m)]
          /\ \/ UNCHANGED alive
             \/ alive' = [alive EXCEPT ![c] = FALSE]
    /\ UNCHANGED <<subscriptionVars, sent, up, overflow>>

-----------------------------------------------------------------------------
Next == \/ SubscribeAll
        \/ LoopTurn
        \/ \E c \in Clients :
              \/ \E t \in Topics : \/ SubscribeLate(c, t)
                                   \/ XpubReads(c, t)
                                   \/ PubLearns(c, t)
                                   \/ Publish(c, t)
              \/ Receive(c)

\* gevent runs every ready greenlet and ZeroMQ's I/O thread every pipe; nothing
\* obliges a client to publish.
Fairness == /\ WF_vars(SubscribeAll)
            /\ WF_vars(LoopTurn)
            /\ \A c \in Clients : WF_vars(Receive(c))
            /\ \A c \in Clients, t \in Topics :
                  /\ WF_vars(SubscribeLate(c, t))
                  /\ WF_vars(XpubReads(c, t))
                  /\ WF_vars(PubLearns(c, t))

Spec == Init /\ [][Next]_vars /\ Fairness

-----------------------------------------------------------------------------
TypeOK == /\ brokerPc \in {"start", "loop"}
          /\ requested \in [Clients -> SUBSET Topics]
          /\ xpub \in [Clients -> SUBSET Topics]
          /\ xsub \in SUBSET Topics
          /\ filter \in [Clients -> SUBSET Topics]
          /\ sent \in [Clients -> Seq(Topics)]
          /\ up \in [Clients -> Seq(Message)]
          /\ down \in [Clients -> Seq(Message)]
          /\ handled \in [Clients -> Seq(Message)]
          /\ alive \in [Clients -> BOOLEAN]
          /\ overflow \in BOOLEAN
          /\ \A c \in Clients : Len(up[c]) <= Hwm /\ Len(down[c]) <= Hwm

MessagesOf(q) == {q[i] : i \in 1 .. Len(q)}

\* Messages of p on topic t that are past the broker on their way to c.
ReachedClient(c, p, t) == {m \in MessagesOf(down[c] \o handled[c]) :
                              m.src = p /\ m.topic = t}

\* Start-up is the only time messages are lost (as long as no pipe was full,
\* and the topic is decodable): once a client got one message of a publisher on a topic,
\* it gets all later ones.  Subscriptions travel publisher by publisher and
\* hop by hop (broker.py 46-51), so this needs every hop to keep what it learnt.
NoGapsOnceFlowing == ~overflow =>
    \A c, p \in Clients : \A t \in TopicsOf[p] \ Undecodable :
       \A m \in ReachedClient(c, p, t) :
          \A j \in m.n + 1 .. Len(sent[p]) :
             sent[p][j] = t => \E q \in MessagesOf(up[p] \o down[c] \o handled[c]) :
                                  q.src = p /\ q.n = j

\* The bus keeps the promise of PubSub.
Bus == INSTANCE PubSub WITH Clients <- Clients, Topics <- Topics, PrefixOf <- PrefixOf,
                            requested <- requested, sent <- sent, handled <- handled,
                            alive <- alive
BusSpec == Bus!Spec

\* Every subscription of the configuration, the late ones included, reaches the
\* PUB socket of every client, and the sockets agree from then on.
SubscriptionsSettle ==
    <>[](/\ \A c \in Clients : xpub[c] = Wanted[c] \cup Late[c]
         /\ \A c \in Clients : filter[c] = UNION {Wanted[d] \cup Late[d] : d \in Clients})

\* A message the publisher's socket took is handled by every client whose
\* subscription the XPUB socket holds, unless the client dies or a pipe fills up.
TakenIsHandled ==
    \A c, p \in Clients : \A n \in 1 .. MaxMsgs[p] : \A t \in TopicsOf[p] \ Undecodable :
       LET m == [src |-> p, topic |-> t, n |-> n] IN
       (m \in MessagesOf(up[p]) /\ Matches(xpub[c], t))
          ~> (m \in MessagesOf(handled[c]) \/ ~alive[c] \/ overflow)
=============================================================================
