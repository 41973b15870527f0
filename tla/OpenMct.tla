------------------------------ MODULE OpenMct ------------------------------
(***************************************************************************)
(* The realtime telemetry of server/plugins/openmct.py: process() queues   *)
(* packets, one greenlet takes them off the queue and broadcasts them to   *)
(* the web sockets of a Python set, and a greenlet for every web socket    *)
(* reads the client's messages, having put its socket into that set.       *)
(*                                                                         *)
(* Greenlets switch only where they wait: for the queue when it is empty,  *)
(* for a message, and in the middle of a send to a client that is slow;    *)
(* what the polling greenlet does between two sends is not disturbed.  The *)
(* web sockets are gevent-websocket's, which are external: their receive() *)
(* and send() end, or raise WebSocketError, and the one of a request whose *)
(* greenlet ended is closed.                                               *)
(***************************************************************************)
EXTENDS Naturals, Sequences, FiniteSets

CONSTANTS Sockets,     \* web sockets; each connects once
          NoSocket,    \* none of them
          Fields,      \* fields of the one kind of packet there is
          Kinds,       \* "good", or too short for one of its fields: a
                       \* "scalar" or an element of an "array"
          QueueLen,    \* maxlen of the queue, 100 in the code
          MaxPackets   \* bound: packets ever received

ASSUME OpenMctAssumption == /\ Kinds \subseteq {"good", "scalar", "array"}
                            /\ QueueLen \in Nat \ {0}
                            /\ MaxPackets \in Nat
                            /\ IsFiniteSet(Sockets)
                            /\ NoSocket \notin Sockets

VARIABLES queue,       \* _tlmQueue
          received,    \* packets received so far; they are numbered
          handler,     \* greenlet of each web socket's request
          alive,       \* is_alive: not closed by either side, no error
          subscribed,  \* the fields of each socket's _subscribed_dict
          socketSet,   \* _socket_set
          poller,      \* where the polling greenlet is
          job,         \* what it broadcasts
          target,      \* the socket it sends to
          iter,        \* its iterator over _socket_set
          got          \* numbers of the packets sent to each socket

vars == <<queue, received, handler, alive, subscribed, socketSet, poller, job,
          target, iter, got>>

socketVars == <<handler, alive, subscribed, socketSet>>
pollerVars == <<poller, job, target>>

Packet == [n : 1 .. MaxPackets, kind : Kinds]
Probe == [n |-> 0, kind |-> "good"]   \* DEFAULT_WS_EMPTY_MESSAGE

\* A set iterator: the size of the set when it was made, how often it came to
\* each element, and whether the set changed under it.
IterOf(n) == [size |-> n, visits |-> [s \in Sockets |-> 0], disturbed |-> FALSE]
NoIter == IterOf(0)

Init == /\ queue = <<>>
        /\ received = 0
        /\ handler = [s \in Sockets |-> "none"]
        /\ alive = [s \in Sockets |-> TRUE]
        /\ subscribed = [s \in Sockets |-> {}]
        /\ socketSet = {}
        /\ poller = "idle"
        /\ job = Probe
        /\ target = NoSocket
        /\ iter = NoIter
        /\ got = [s \in Sockets |-> <<>>]

\* Greenlets other than the polling one run while that one waits, or is no more: not
\* between two sends, and not when it goes on with a queue that is not empty.
Free == poller \in {"idle", "sending", "dead"}

-----------------------------------------------------------------------------
(* process(), in the greenlet of the plugin                                *)

\* mutated: while the poller is at work, process() sends the packet itself
ProcessAtOnce(k) ==
    /\ Free
    /\ received < MaxPackets
    /\ received' = received + 1
    /\ IF poller = "idle"
       THEN queue' = <<[n |-> received', kind |-> k]>> /\ UNCHANGED got
       ELSE /\ got' = [s \in Sockets |-> IF s \in socketSet /\ subscribed[s] # {}
                                        THEN Append(got[s], received') ELSE got[s]]
            /\ UNCHANGED queue
    /\ UNCHANGED <<socketVars, pollerVars, iter>>

\* A full queue loses its oldest packet.
Process(k) == /\ Free
              /\ received < MaxPackets
              /\ received' = received + 1
              /\ LET q == Append(queue, [n |-> received', kind |-> k])
                 IN queue' = IF Len(q) > QueueLen THEN Tail(q) ELSE q
              /\ UNCHANGED <<socketVars, pollerVars, iter, got>>

-----------------------------------------------------------------------------
(* get_realtime_tlm and manage_web_socket, in the greenlet of the request  *)

ChangeSet(S) == /\ socketSet' = S
                /\ iter' = [iter EXCEPT !.disturbed = poller = "sending"]

Connect(s) == /\ Free
              /\ handler[s] = "none"
              /\ handler' = [handler EXCEPT ![s] = "reading"]
              /\ ChangeSet(socketSet \cup {s})
              /\ UNCHANGED <<queue, received, alive, subscribed, pollerVars, got>>

Reads(s) == Free /\ handler[s] = "reading" /\ alive[s]

Dies(s) == alive' = [alive EXCEPT ![s] = FALSE]

\* An exception leaves manage_web_socket: bottle answers for it, the request is
\* over, and nobody takes the socket out of the set.
HandlerDies(s) == handler' = [handler EXCEPT ![s] = "dead"] /\ Dies(s)

CloseMessage(s) == /\ Reads(s)
                   /\ Dies(s)
                   /\ UNCHANGED <<queue, received, handler, subscribed, socketSet,
                                  pollerVars, iter, got>>

SubscribeMessage(s, f) ==
    /\ Reads(s)
    /\ subscribed' = [subscribed EXCEPT ![s] = @ \cup {f}]
    /\ UNCHANGED <<queue, received, handler, alive, socketSet, pollerVars, iter, got>>

\* set.remove raises KeyError for a field that is not there, unless none is.
UnsubscribeMessage(s, f) ==
    /\ Reads(s)
    /\ \/ /\ f \in subscribed[s] \/ subscribed[s] = {}
          /\ subscribed' = [subscribed EXCEPT ![s] = @ \ {f}]
          /\ UNCHANGED <<handler, alive>>
       \/ /\ f \notin subscribed[s] /\ subscribed[s] # {}
          /\ HandlerDies(s)
          /\ UNCHANGED subscribed
    /\ UNCHANGED <<queue, received, socketSet, pollerVars, iter, got>>

\* A field id with two dots, "unsubscribe" without a field, a binary message
BadMessage(s) == /\ Reads(s)
                 /\ HandlerDies(s)
                 /\ UNCHANGED <<queue, received, subscribed, socketSet, pollerVars,
                                iter, got>>

\* The client closes the connection or it breaks: web_socket.closed is set, or
\* receive() raises WebSocketError.
PeerCloses(s) == /\ Reads(s)
                 /\ Dies(s)
                 /\ UNCHANGED <<queue, received, handler, subscribed, socketSet,
                                pollerVars, iter, got>>

\* The loop ends, the socket leaves the set and the request is over.
Leave(s) == /\ Free
            /\ handler[s] = "reading"
            /\ ~alive[s]
            /\ handler' = [handler EXCEPT ![s] = "done"]
            /\ ChangeSet(socketSet \ {s})
            /\ UNCHANGED <<queue, received, alive, subscribed, pollerVars, got>>

-----------------------------------------------------------------------------
(* poll_telemetry, in a greenlet of its own                                *)

Broadcast(j) == /\ poller' = "iterating"
                /\ job' = j
                /\ iter' = IterOf(Cardinality(socketSet))

\* Formatting the packet reads all of its fields.  An array that is cut short
\* raises IndexError, which is what an empty queue raises; anything else that
\* is cut short raises struct.error, which nothing handles.
Take == /\ poller \in {"idle", "again"}
        /\ queue # <<>>
        /\ queue' = Tail(queue)
        /\ LET p == Head(queue) IN
           \/ p.kind = "good" /\ Broadcast(p)
           \/ p.kind = "array" /\ Broadcast(Probe)
           \/ p.kind = "scalar" /\ poller' = "dead" /\ UNCHANGED <<job, iter>>
        /\ UNCHANGED <<received, socketVars, target, got>>

\* The queue stayed empty for DEFAULT_TELEM_QUEUE_TIMEOUT_SECS.
TakeNothing == /\ poller = "idle"
               /\ queue = <<>>
               /\ Broadcast(Probe)
               /\ UNCHANGED <<queue, received, socketVars, target, got>>

\* The next element of a Python set: RuntimeError when its size has changed.
\* When as many sockets came as went, the iterator may come to any of them,
\* again (twice at most in this model) or not at all.
Changed == Cardinality(socketSet) # iter.size
MayVisit(s) == /\ s \in socketSet
               /\ iter.visits[s] = 0 \/ (iter.disturbed /\ iter.visits[s] = 1)
MayStop == iter.disturbed \/ \A s \in socketSet : iter.visits[s] > 0

\* send_socket_pkt_mesg; a probe goes to every live socket.
Wants(s, j) == alive[s] /\ (j = Probe \/ subscribed[s] # {})

Visit(s) == /\ poller = "iterating"
            /\ ~Changed
            /\ MayVisit(s)
            /\ iter' = [iter EXCEPT !.visits[s] = @ + 1]
            /\ \/ Wants(s, job) /\ poller' = "sending" /\ target' = s
               \/ ~Wants(s, job) /\ UNCHANGED <<poller, target>>
            /\ UNCHANGED <<queue, received, socketVars, job, got>>

\* After a packet, though not after a probe, the next one is taken at once.
IterationEnds == /\ poller = "iterating"
                 /\ \/ Changed /\ poller' = "dead"
                    \/ /\ ~Changed /\ MayStop
                       /\ poller' = IF job # Probe /\ queue # <<>> THEN "again" ELSE "idle"
                 /\ job' = Probe
                 /\ iter' = NoIter
                 /\ UNCHANGED <<queue, received, socketVars, target, got>>

SendDone == /\ poller = "sending"
            /\ poller' = "iterating"
            /\ got' = IF job = Probe THEN got
                      ELSE [got EXCEPT ![target] = Append(@, job.n)]
            /\ target' = NoSocket
            /\ UNCHANGED <<queue, received, socketVars, job, iter>>

\* mutated: a socket that fails is taken out of the set at once
SendFailsRemoves == /\ poller = "sending"
                    /\ poller' = "iterating"
                    /\ Dies(target)
                    /\ ChangeSet(socketSet \ {target})
                    /\ target' = NoSocket
                    /\ UNCHANGED <<queue, received, handler, subscribed, job, got>>

\* mutated: the exception ends the broadcast
SendFailsAborts == /\ poller = "sending"
                   /\ poller' = "idle"
                   /\ Dies(target)
                   /\ target' = NoSocket
                   /\ job' = Probe
                   /\ iter' = NoIter
                   /\ UNCHANGED <<queue, received, handler, subscribed, socketSet, got>>

\* send() raises WebSocketError.
SendFails == /\ poller = "sending"
             /\ poller' = "iterating"
             /\ Dies(target)
             /\ target' = NoSocket
             /\ UNCHANGED <<queue, received, handler, subscribed, socketSet, job,
                            iter, got>>

-----------------------------------------------------------------------------
Poll == \/ Take
        \/ TakeNothing
        \/ \E s \in Sockets : Visit(s)
        \/ IterationEnds
        \/ SendDone
        \/ SendFails

Messages(s) == \/ CloseMessage(s)
               \/ BadMessage(s)
               \/ \E f \in Fields : SubscribeMessage(s, f) \/ UnsubscribeMessage(s, f)

Next == \/ \E k \in Kinds : Process(k)
        \/ Poll
        \/ \E s \in Sockets : \/ Connect(s)
                              \/ Messages(s)
                              \/ Leave(s)
                              \/ PeerCloses(s)

\* The polling greenlet runs.  That a send ends is an assumption about the clients: the
\* code has no timeout on it.
Fairness == WF_vars(Poll)

Spec == Init /\ [][Next]_vars /\ Fairness

-----------------------------------------------------------------------------
TypeOK == /\ queue \in Seq(Packet)
          /\ Len(queue) <= QueueLen
          /\ received \in 0 .. MaxPackets
          /\ handler \in [Sockets -> {"none", "reading", "done", "dead"}]
          /\ alive \in [Sockets -> BOOLEAN]
          /\ subscribed \in [Sockets -> SUBSET Fields]
          /\ socketSet \subseteq Sockets
          /\ poller \in {"idle", "again", "iterating", "sending", "dead"}
          /\ job \in Packet \cup {Probe}
          /\ target \in Sockets \cup {NoSocket}
          /\ iter \in [size : Nat, visits : [Sockets -> 0 .. 2], disturbed : BOOLEAN]
          /\ got \in [Sockets -> Seq(1 .. MaxPackets)]

\* A client sees the packets in the order they came in, whatever queues up,
\* is dropped or disturbs the broadcast (openmct.py 1006, 1036, 1049).
InOrder == \A s \in Sockets : \A i, j \in DOMAIN got[s] : i < j => got[s][i] <= got[s][j]

\* _socket_set.remove (733) never fails, and a socket that stays in the set
\* without a greenlet is never sent to again.
SetMatchesHandlers ==
    \A s \in Sockets : /\ handler[s] = "reading" => s \in socketSet
                       /\ s \in socketSet /\ handler[s] # "reading" => ~alive[s]

\* What is broadcast reaches every socket that goes on wanting it, unless
\* sockets come or go meanwhile: one that fails does not stop the others
\* (1101-1108), provided that every send ends.
BroadcastReaches ==
    \A s \in Sockets : \A n \in 1 .. MaxPackets :
       (poller = "iterating" /\ job.n = n /\ iter.visits[s] = 0 /\ s \in socketSet
          /\ Wants(s, job))
         ~> (n \in {got[s][i] : i \in DOMAIN got[s]}
               \/ iter.disturbed \/ ~alive[s] \/ subscribed[s] = {})

\* poll_telemetry (998-1000): a packet on the queue "is broadcast to all of the
\* managed web-sockets", again and again: the greenlet that does it goes on.
PollerGoesOn == poller # "dead"
=============================================================================
