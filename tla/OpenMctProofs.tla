--------------------------- MODULE OpenMctProofs ---------------------------
(***************************************************************************)
(* Theorems about OpenMct for every set of web sockets and fields, every   *)
(* length of the queue and number of packets: its types, what the set of   *)
(* sockets says of the requests, and the order in which a client gets      *)
(* packets.                                                                *)
(***************************************************************************)
EXTENDS OpenMct, FiniteSetTheorems, SequenceTheorems, TLAPS

USE OpenMctAssumption

-----------------------------------------------------------------------------
(* The queue.                                                              *)

\* What process() makes of the queue: the packet at its end, the oldest one
\* gone if it was full.
Queued(p) == LET q == Append(queue, p) IN IF Len(q) > QueueLen THEN Tail(q) ELSE q

\* Each packet in the queue after process() is the new one, which is last, or
\* one that was there, in the same order.
LEMMA QueuedProperties ==
    ASSUME queue \in Seq(Packet), Len(queue) <= QueueLen, NEW p \in Packet
    PROVE  /\ Queued(p) \in Seq(Packet)
           /\ Len(Queued(p)) <= QueueLen
           /\ \E d \in {0, 1} :
                /\ Len(Queued(p)) = Len(queue) + 1 - d
                /\ \A i \in 1 .. Len(Queued(p)) :
                     Queued(p)[i] = IF i + d = Len(queue) + 1 THEN p ELSE queue[i + d]
<1> DEFINE q == Append(queue, p)
<1>1. /\ q \in Seq(Packet) /\ Len(q) = Len(queue) + 1
      /\ Len(queue) \in Nat
      /\ \A i \in 1 .. Len(queue) : q[i] = queue[i]
      /\ q[Len(queue) + 1] = p
  BY AppendProperties, LenProperties
<1>2. CASE Len(q) > QueueLen
  <2>1. Queued(p) = Tail(q)
    BY <1>2 DEF Queued
  <2>2. q # <<>>
    BY <1>1
  <2>3. /\ Tail(q) \in Seq(Packet) /\ Len(Tail(q)) = Len(q) - 1
        /\ \A i \in 1 .. Len(Tail(q)) : Tail(q)[i] = q[i + 1]
    BY <1>1, <2>2, HeadTailProperties
  <2>4. \A i \in 1 .. Len(Tail(q)) :
          Tail(q)[i] = IF i + 1 = Len(queue) + 1 THEN p ELSE queue[i + 1]
    BY <1>1, <2>3
  <2> HIDE DEF q
  <2>5. Len(Queued(p)) = Len(queue) + 1 - 1 /\ Len(Queued(p)) <= QueueLen
    BY <1>1, <2>1, <2>3
  <2> QED  BY <2>1, <2>3, <2>4, <2>5
<1>3. CASE ~(Len(q) > QueueLen)
  <2>1. Queued(p) = q
    BY <1>3 DEF Queued
  <2>2. \A i \in 1 .. Len(q) : q[i] = IF i + 0 = Len(queue) + 1 THEN p ELSE queue[i + 0]
    BY <1>1
  <2> HIDE DEF q
  <2>3. Len(q) = Len(queue) + 1 - 0 /\ Len(q) <= QueueLen
    BY <1>1, <1>3
  <2> QED  BY <1>1, <2>1, <2>2, <2>3
<1> QED  BY <1>2, <1>3

\* Taking the first packet shifts the others.
LEMMA TakenProperties ==
    ASSUME queue \in Seq(Packet), queue # <<>>
    PROVE  /\ Head(queue) \in Packet /\ Head(queue) = queue[1]
           /\ Tail(queue) \in Seq(Packet)
           /\ Len(queue) \in Nat /\ Len(queue) > 0
           /\ Len(Tail(queue)) = Len(queue) - 1
           /\ \A i \in 1 .. Len(Tail(queue)) : Tail(queue)[i] = queue[i + 1]
<1>1. Len(queue) \in Nat /\ Len(queue) > 0
  BY EmptySeq, LenProperties
<1> QED  BY <1>1, HeadTailProperties, ElementOfSeq

-----------------------------------------------------------------------------
(* Type correctness.                                                       *)

LEMMA CardinalityOfSet ==
    ASSUME socketSet \subseteq Sockets
    PROVE  Cardinality(socketSet) \in Nat
BY FS_Subset, FS_CardinalityType

LEMMA ChangeSetType ==
    ASSUME TypeOK, NEW S \in SUBSET Sockets, ChangeSet(S)
    PROVE  /\ socketSet' \subseteq Sockets
           /\ iter' \in [size : Nat, visits : [Sockets -> 0 .. 2], disturbed : BOOLEAN]
<1>1. iter \in [size : Nat, visits : [Sockets -> 0 .. 2], disturbed : BOOLEAN]
  BY DEF TypeOK
<1>2. (poller = "sending") \in BOOLEAN
  OBVIOUS
<1>3. iter' = [iter EXCEPT !.disturbed = poller = "sending"]
  BY DEF ChangeSet
<1>4. iter' = [size |-> iter.size, visits |-> iter.visits,
               disturbed |-> poller = "sending"]
  BY <1>1, <1>3
<1>5. iter' \in [size : Nat, visits : [Sockets -> 0 .. 2], disturbed : BOOLEAN]
  BY <1>1, <1>2, <1>4
<1> QED  BY <1>5 DEF ChangeSet

LEMMA BroadcastType ==
    ASSUME TypeOK, NEW j \in Packet \cup {Probe}, Broadcast(j)
    PROVE  /\ poller' \in {"idle", "again", "iterating", "sending", "dead"}
           /\ job' \in Packet \cup {Probe}
           /\ iter' \in [size : Nat, visits : [Sockets -> 0 .. 2], disturbed : BOOLEAN]
<1>1. Cardinality(socketSet) \in Nat
  BY CardinalityOfSet DEF TypeOK
<1> QED  BY <1>1 DEF Broadcast, IterOf

LEMMA NoIterType == NoIter \in [size : Nat, visits : [Sockets -> 0 .. 2], disturbed : BOOLEAN]
BY DEF NoIter, IterOf

LEMMA InitType == Init => TypeOK
<1> SUFFICES ASSUME Init PROVE TypeOK
  OBVIOUS
<1>1. <<>> \in Seq(Packet) /\ Len(<<>>) = 0 /\ <<>> \in Seq(1 .. MaxPackets)
  OBVIOUS
<1> QED  BY <1>1, NoIterType DEF Init, TypeOK

LEMMA NextType == TypeOK /\ [Next]_vars => TypeOK'
<1> SUFFICES ASSUME TypeOK, [Next]_vars PROVE TypeOK'
  OBVIOUS
<1> USE DEF TypeOK
<1>1. ASSUME NEW k \in Kinds, Process(k) PROVE TypeOK'
  <2>1. received' \in 1 .. MaxPackets
    BY <1>1 DEF Process
  <2>2. [n |-> received', kind |-> k] \in Packet
    BY <2>1 DEF Packet
  <2>3. queue' = Queued([n |-> received', kind |-> k])
    BY <1>1 DEF Process, Queued
  <2>4. queue' \in Seq(Packet) /\ Len(queue') <= QueueLen
    BY <2>2, <2>3, QueuedProperties
  <2> QED  BY <1>1, <2>1, <2>4 DEF Process, socketVars, pollerVars
<1>2. CASE Take
  <2>1. /\ Head(queue) \in Packet /\ queue' \in Seq(Packet)
        /\ Len(queue') <= QueueLen
    BY <1>2, TakenProperties DEF Take
  <2>2. /\ poller' \in {"idle", "again", "iterating", "sending", "dead"}
        /\ job' \in Packet \cup {Probe}
        /\ iter' \in [size : Nat, visits : [Sockets -> 0 .. 2], disturbed : BOOLEAN]
    <3>1. CASE Broadcast(Head(queue))
      BY <2>1, <3>1, BroadcastType
    <3>2. CASE Broadcast(Probe)
      BY <3>2, BroadcastType
    <3>3. CASE poller' = "dead" /\ UNCHANGED <<job, iter>>
      BY <3>3
    <3> QED  BY <1>2, <3>1, <3>2, <3>3 DEF Take
  <2> QED  BY <1>2, <2>1, <2>2 DEF Take, socketVars
<1>3. CASE TakeNothing
  <2>1. Broadcast(Probe)
    BY <1>3 DEF TakeNothing
  <2> QED  BY <1>3, <2>1, BroadcastType DEF TakeNothing, socketVars
<1>4. ASSUME NEW s \in Sockets, Visit(s) PROVE TypeOK'
  <2>1. iter' \in [size : Nat, visits : [Sockets -> 0 .. 2], disturbed : BOOLEAN]
    <3>1. iter.visits[s] + 1 \in 0 .. 2
      BY <1>4 DEF Visit, MayVisit
    <3> QED  BY <1>4, <3>1 DEF Visit
  <2> QED  BY <1>4, <2>1 DEF Visit, socketVars
<1>5. CASE IterationEnds
  BY <1>5, NoIterType DEF IterationEnds, socketVars
<1>6. CASE SendDone
  <2>1. got' \in [Sockets -> Seq(1 .. MaxPackets)]
    <3>1. CASE job = Probe
      BY <1>6, <3>1 DEF SendDone
    <3>2. CASE job # Probe
      <4>1. job.n \in 1 .. MaxPackets
        BY <3>2 DEF Packet
      <4>2. CASE target \in Sockets
        <5>1. Append(got[target], job.n) \in Seq(1 .. MaxPackets)
          BY <4>1, <4>2, AppendProperties
        <5> QED  BY <1>6, <3>2, <4>2, <5>1 DEF SendDone
      <4>3. CASE target \notin Sockets
        BY <1>6, <3>2, <4>3 DEF SendDone
      <4> QED  BY <4>2, <4>3
    <3> QED  BY <3>1, <3>2
  <2> QED  BY <1>6, <2>1 DEF SendDone, socketVars
<1>7. CASE SendFails
  BY <1>7 DEF SendFails, Dies
<1>8. ASSUME NEW s \in Sockets, Connect(s) PROVE TypeOK'
  BY <1>8, ChangeSetType DEF Connect, pollerVars
<1>9. ASSUME NEW s \in Sockets, Messages(s) PROVE TypeOK'
  <2>1. CASE CloseMessage(s) \/ BadMessage(s)
    BY <2>1 DEF CloseMessage, BadMessage, HandlerDies, Dies, pollerVars
  <2>2. ASSUME NEW f \in Fields, SubscribeMessage(s, f) PROVE TypeOK'
    BY <2>2 DEF SubscribeMessage, pollerVars
  <2>3. ASSUME NEW f \in Fields, UnsubscribeMessage(s, f) PROVE TypeOK'
    <3>1. /\ subscribed' \in [Sockets -> SUBSET Fields]
          /\ handler' \in [Sockets -> {"none", "reading", "done", "dead"}]
          /\ alive' \in [Sockets -> BOOLEAN]
      <4>1. CASE subscribed' = [subscribed EXCEPT ![s] = @ \ {f}] /\ UNCHANGED <<handler, alive>>
        BY <4>1
      <4>2. CASE HandlerDies(s) /\ UNCHANGED subscribed
        BY <4>2 DEF HandlerDies, Dies
      <4> HIDE DEF TypeOK
      <4> QED  BY <2>3, <4>1, <4>2 DEF UnsubscribeMessage
    <3> QED  BY <2>3, <3>1 DEF UnsubscribeMessage, pollerVars
  <2> HIDE DEF TypeOK
  <2> QED  BY <1>9, <2>1, <2>2, <2>3 DEF Messages
<1>10. ASSUME NEW s \in Sockets, Leave(s) PROVE TypeOK'
  <2>1. socketSet \ {s} \in SUBSET Sockets
    OBVIOUS
  <2> QED  BY <1>10, <2>1, ChangeSetType DEF Leave, pollerVars
<1>11. ASSUME NEW s \in Sockets, PeerCloses(s) PROVE TypeOK'
  BY <1>11 DEF PeerCloses, Dies, pollerVars
<1>12. CASE UNCHANGED vars
  BY <1>12 DEF vars
<1>13. CASE Poll
  <2> HIDE DEF TypeOK
  <2> QED  BY <1>2, <1>3, <1>4, <1>5, <1>6, <1>7, <1>13 DEF Poll
<1>14. ASSUME NEW s \in Sockets, Connect(s) \/ Messages(s) \/ Leave(s) \/ PeerCloses(s)
       PROVE  TypeOK'
  <2> HIDE DEF TypeOK
  <2> QED  BY <1>8, <1>9, <1>10, <1>11, <1>14
<1> HIDE DEF TypeOK
<1> QED  BY <1>1, <1>12, <1>13, <1>14 DEF Next

\* Every variable keeps its type, and the queue its length, in every state of
\* the plugin (openmct.py 505-1178).
THEOREM TypeCorrect == Spec => []TypeOK
<1> QED  BY InitType, NextType, PTL DEF Spec

-----------------------------------------------------------------------------
(* The set of sockets and the requests.                                    *)

\* Nothing revives a socket, and a request that is over stays so.
LEMMA SetNext == SetMatchesHandlers /\ TypeOK /\ [Next]_vars => SetMatchesHandlers'
<1> SUFFICES ASSUME SetMatchesHandlers, TypeOK, [Next]_vars PROVE SetMatchesHandlers'
  OBVIOUS
<1> USE DEF SetMatchesHandlers
<1>1. ASSUME NEW k \in Kinds, Process(k) PROVE SetMatchesHandlers'
  BY <1>1 DEF Process, socketVars
<1>2. CASE Take \/ TakeNothing \/ IterationEnds \/ SendDone
  BY <1>2 DEF Take, TakeNothing, IterationEnds, SendDone, socketVars
<1>3. ASSUME NEW s \in Sockets, Visit(s) PROVE SetMatchesHandlers'
  BY <1>3 DEF Visit, socketVars
<1>4. CASE SendFails
  BY <1>4 DEF SendFails, Dies, TypeOK
<1>5. ASSUME NEW s \in Sockets, Connect(s) PROVE SetMatchesHandlers'
  BY <1>5 DEF Connect, ChangeSet, TypeOK
<1>6. ASSUME NEW s \in Sockets, Messages(s) PROVE SetMatchesHandlers'
  BY <1>6 DEF Messages, CloseMessage, BadMessage, SubscribeMessage,
              UnsubscribeMessage, HandlerDies, Dies, TypeOK
<1>7. ASSUME NEW s \in Sockets, Leave(s) PROVE SetMatchesHandlers'
  BY <1>7 DEF Leave, ChangeSet, TypeOK
<1>8. ASSUME NEW s \in Sockets, PeerCloses(s) PROVE SetMatchesHandlers'
  BY <1>8 DEF PeerCloses, Dies, TypeOK
<1>9. CASE UNCHANGED vars
  BY <1>9 DEF vars
<1> QED  BY <1>1, <1>2, <1>3, <1>4, <1>5, <1>6, <1>7, <1>8, <1>9 DEF Next, Poll

\* A request that is served has its socket in the set, so that taking it out
\* (openmct.py 733) never fails, and a socket whose request is over is never
\* sent to again, however requests end.
THEOREM SetAgreesWithRequests == Spec => []SetMatchesHandlers
<1>1. Init => SetMatchesHandlers
  BY DEF Init, SetMatchesHandlers
<1> QED  BY <1>1, SetNext, TypeCorrect, PTL DEF Spec

-----------------------------------------------------------------------------
(* The order of the packets.                                               *)

\* The numbers of the packets grow along a packet's way: what a client has is
\* older than what waits in the queue and, if a packet is being broadcast, not
\* newer than that one.
OrderInv == /\ \A i, j \in DOMAIN queue : i < j => queue[i].n < queue[j].n
            /\ \A i \in DOMAIN queue : job.n < queue[i].n /\ queue[i].n <= received
            /\ job.n <= received
            /\ \A s \in Sockets : \A i \in DOMAIN got[s] :
                 /\ got[s][i] <= received
                 /\ \A j \in DOMAIN queue : got[s][i] < queue[j].n
                 /\ job # Probe => got[s][i] <= job.n
            /\ InOrder

\* The numbers OrderInv speaks of are numbers.
LEMMA NumberTypes ==
    ASSUME TypeOK
    PROVE  /\ received \in Nat /\ job.n \in Nat
           /\ DOMAIN queue = 1 .. Len(queue) /\ Len(queue) \in Nat
           /\ \A i \in DOMAIN queue : queue[i] \in Packet /\ queue[i].n \in Nat /\ queue[i].n > 0
           /\ \A s \in Sockets : /\ DOMAIN got[s] = 1 .. Len(got[s])
                                 /\ Len(got[s]) \in Nat
                                 /\ \A i \in DOMAIN got[s] : got[s][i] \in Nat
<1>1. received \in Nat /\ job.n \in Nat
  BY DEF TypeOK, Packet, Probe
<1>2. /\ DOMAIN queue = 1 .. Len(queue) /\ Len(queue) \in Nat
      /\ \A i \in 1 .. Len(queue) : queue[i] \in Packet
  BY LenProperties, ElementOfSeq DEF TypeOK
<1>3. \A i \in DOMAIN queue : queue[i] \in Packet /\ queue[i].n \in Nat /\ queue[i].n > 0
  BY <1>2 DEF Packet
<1>4. ASSUME NEW s \in Sockets
      PROVE  /\ DOMAIN got[s] = 1 .. Len(got[s])
             /\ Len(got[s]) \in Nat
             /\ \A i \in DOMAIN got[s] : got[s][i] \in Nat
  <2>1. got[s] \in Seq(1 .. MaxPackets)
    BY DEF TypeOK
  <2> QED  BY <2>1, LenProperties, ElementOfSeq
<1> QED  BY <1>1, <1>2, <1>3, <1>4

LEMMA OrderProcess ==
    ASSUME TypeOK, OrderInv, NEW k \in Kinds, Process(k)
    PROVE  OrderInv'
<1> DEFINE p == [n |-> received', kind |-> k]
<1>1. received' = received + 1 /\ received' \in 1 .. MaxPackets /\ received \in Nat
  BY DEF Process, TypeOK
<1>2. p \in Packet /\ p.n = received + 1
  BY <1>1 DEF Packet
<1>3. queue' = Queued(p)
  BY DEF Process, Queued
<1>4. UNCHANGED <<job, got>>
  BY DEF Process, pollerVars
<1>5. queue \in Seq(Packet) /\ Len(queue) <= QueueLen
  BY DEF TypeOK
<1> HIDE DEF p
<1>6. PICK d \in {0, 1} :
        /\ Len(queue') = Len(queue) + 1 - d
        /\ \A i \in 1 .. Len(queue') :
             queue'[i] = IF i + d = Len(queue) + 1 THEN p ELSE queue[i + d]
  BY ZenonT(60), <1>2, <1>3, <1>5, QueuedProperties
<1>7. queue' \in Seq(Packet)
  BY <1>2, <1>3, <1>5, QueuedProperties
<1>8. DOMAIN queue' = 1 .. Len(queue')
  BY <1>7, LenProperties
<1>9. \A i \in DOMAIN queue' :
        \/ i + d = Len(queue) + 1 /\ queue'[i].n = received + 1
        \/ i + d \in DOMAIN queue /\ queue'[i].n = queue[i + d].n
  <2> SUFFICES ASSUME NEW i \in 1 .. Len(queue')
               PROVE  \/ i + d = Len(queue) + 1 /\ queue'[i].n = received + 1
                      \/ i + d \in DOMAIN queue /\ queue'[i].n = queue[i + d].n
    BY <1>8
  <2>1. CASE i + d = Len(queue) + 1
    BY <1>2, <1>6, <2>1
  <2>2. CASE i + d # Len(queue) + 1
    <3>1. i + d \in 1 .. Len(queue)
      BY <1>6, <2>2, NumberTypes
    <3> QED  BY <1>6, <2>2, <3>1, NumberTypes
  <2> QED  BY <2>1, <2>2
<1>10. \A i, j \in DOMAIN queue' : i < j => queue'[i].n < queue'[j].n
  BY SMTT(30), <1>1, <1>6, <1>8, <1>9, NumberTypes DEF OrderInv
<1>11. \A i \in DOMAIN queue' : job.n < queue'[i].n /\ queue'[i].n <= received'
  BY <1>1, <1>9, NumberTypes DEF OrderInv
<1>12. \A s \in Sockets : \A i \in DOMAIN got[s] :
         /\ got[s][i] <= received'
         /\ \A j \in DOMAIN queue' : got[s][i] < queue'[j].n
  BY <1>1, <1>9, NumberTypes DEF OrderInv
<1>13. job.n <= received'
  BY <1>1, NumberTypes DEF OrderInv
<1> QED  BY <1>4, <1>10, <1>11, <1>12, <1>13 DEF OrderInv, InOrder

LEMMA OrderTake ==
    ASSUME TypeOK, OrderInv, Take
    PROVE  OrderInv'
<1>1. /\ queue # <<>> /\ queue' = Tail(queue)
      /\ UNCHANGED <<received, got>>
      /\ \/ job' = Head(queue)
         \/ job' = Probe
         \/ job' = job
  BY DEF Take, Broadcast
<1>2. /\ Head(queue) = queue[1] /\ 1 \in DOMAIN queue
      /\ DOMAIN queue' = 1 .. Len(queue')
      /\ Len(queue') = Len(queue) - 1
      /\ \A i \in DOMAIN queue' : queue'[i] = queue[i + 1] /\ i + 1 \in DOMAIN queue /\ 1 < i + 1
  <2>1. queue \in Seq(Packet)
    BY DEF TypeOK
  <2>2. queue' \in Seq(Packet) /\ DOMAIN queue' = 1 .. Len(queue')
    BY <1>1, <2>1, TakenProperties, LenProperties
  <2> QED  BY <1>1, <2>1, <2>2, TakenProperties, LenProperties
<1>3. \A i, j \in DOMAIN queue' : i < j => queue'[i].n < queue'[j].n
  BY <1>2, NumberTypes DEF OrderInv
<1>4. \A s \in Sockets : \A i \in DOMAIN got[s] :
        /\ got[s][i] <= received
        /\ \A j \in DOMAIN queue' : got[s][i] < queue'[j].n
  BY <1>2 DEF OrderInv
<1>5. /\ \A i \in DOMAIN queue' : job'.n < queue'[i].n /\ queue'[i].n <= received
      /\ job'.n <= received
      /\ job' # Probe => \A s \in Sockets : \A i \in DOMAIN got[s] : got[s][i] <= job'.n
  <2>1. CASE job' = Head(queue)
    <3>1. job' = queue[1]
      BY <1>2, <2>1
    <3>2. \A s \in Sockets : \A i \in DOMAIN got[s] : got[s][i] <= job'.n
      BY <1>2, <3>1, NumberTypes DEF OrderInv
    <3> QED  BY <1>2, <3>1, <3>2 DEF OrderInv
  <2>2. CASE job' = Probe
    BY <1>2, <2>2, NumberTypes DEF OrderInv, Probe
  <2>3. CASE job' = job
    BY <1>2, <2>3 DEF OrderInv
  <2> QED  BY <1>1, <2>1, <2>2, <2>3
<1> QED  BY <1>1, <1>3, <1>4, <1>5 DEF OrderInv, InOrder

\* No packet is broadcast any more.
LEMMA OrderProbe ==
    ASSUME TypeOK, OrderInv, job' = Probe, UNCHANGED <<queue, received, got>>
    PROVE  OrderInv'
BY NumberTypes DEF OrderInv, InOrder, Probe

LEMMA OrderSent ==
    ASSUME TypeOK, OrderInv, SendDone
    PROVE  OrderInv'
<1>1. UNCHANGED <<queue, received, job>>
  BY DEF SendDone
<1>2. CASE job = Probe \/ target \notin Sockets
  <2>1. got' = got
    BY <1>2 DEF SendDone, TypeOK
  <2> QED  BY <1>1, <2>1 DEF OrderInv, InOrder
<1>3. CASE job # Probe /\ target \in Sockets
  <2>1. got' = [got EXCEPT ![target] = Append(@, job.n)]
    BY <1>3 DEF SendDone
  <2>2. ASSUME NEW s \in Sockets
        PROVE  \/ got'[s] = got[s]
               \/ /\ DOMAIN got'[s] = 1 .. Len(got[s]) + 1
                  /\ \A i \in DOMAIN got[s] : got'[s][i] = got[s][i]
                  /\ got'[s][Len(got[s]) + 1] = job.n
    <3>1. got[s] \in Seq(1 .. MaxPackets) /\ job.n \in 1 .. MaxPackets
      BY <1>3 DEF TypeOK, Packet
    <3>2. CASE s = target
      <4>1. got'[s] = Append(got[s], job.n)
        BY <2>1, <3>2 DEF TypeOK
      <4>2. /\ Append(got[s], job.n) \in Seq(1 .. MaxPackets)
            /\ Len(Append(got[s], job.n)) = Len(got[s]) + 1
            /\ \A i \in 1 .. Len(got[s]) : Append(got[s], job.n)[i] = got[s][i]
            /\ Append(got[s], job.n)[Len(got[s]) + 1] = job.n
        BY <3>1, AppendProperties
      <4>3. DOMAIN Append(got[s], job.n) = 1 .. Len(got[s]) + 1
        BY <4>2, LenProperties
      <4> QED  BY <4>1, <4>2, <4>3, NumberTypes
    <3>3. CASE s # target
      BY <2>1, <3>3 DEF TypeOK
    <3> QED  BY <3>2, <3>3
  <2>3. ASSUME NEW s \in Sockets, NEW i \in DOMAIN got'[s]
        PROVE  \/ i \in DOMAIN got[s] /\ got'[s][i] = got[s][i]
               \/ /\ got'[s][i] = job.n
                  /\ \A j \in DOMAIN got'[s] : j < i => j \in DOMAIN got[s]
                                                        /\ got'[s][j] = got[s][j]
                  /\ \A j \in DOMAIN got'[s] : ~(i < j)
    <3>1. CASE got'[s] = got[s]
      BY <2>3, <3>1
    <3>2. CASE got'[s] # got[s]
      <4>1. /\ DOMAIN got'[s] = 1 .. Len(got[s]) + 1
            /\ \A j \in DOMAIN got[s] : got'[s][j] = got[s][j]
            /\ got'[s][Len(got[s]) + 1] = job.n
            /\ DOMAIN got[s] = 1 .. Len(got[s]) /\ Len(got[s]) \in Nat
        BY <2>2, <3>2, NumberTypes
      <4> QED  BY <4>1
    <3> QED  BY <3>1, <3>2
  <2>4. \A s \in Sockets : \A i \in DOMAIN got'[s] :
          /\ got'[s][i] <= received
          /\ \A j \in DOMAIN queue : got'[s][i] < queue[j].n
          /\ got'[s][i] <= job.n
    BY <1>3, <2>3, NumberTypes DEF OrderInv
  <2>5. ASSUME NEW s \in Sockets, NEW i \in DOMAIN got'[s], NEW j \in DOMAIN got'[s], i < j
        PROVE  got'[s][i] <= got'[s][j]
    <3>1. CASE j \in DOMAIN got[s] /\ got'[s][j] = got[s][j]
      <4>1. i \in DOMAIN got[s] /\ got'[s][i] = got[s][i]
        BY <2>3, <2>5
      <4> QED  BY <2>5, <3>1, <4>1 DEF OrderInv, InOrder
    <3>2. CASE got'[s][j] = job.n
      BY <2>4, <3>2
    <3> QED  BY <2>3, <3>1, <3>2
  <2> QED  BY <1>1, <2>4, <2>5 DEF OrderInv, InOrder
<1> QED  BY <1>2, <1>3

LEMMA OrderNext == OrderInv /\ TypeOK /\ [Next]_vars => OrderInv'
<1> SUFFICES ASSUME OrderInv, TypeOK, [Next]_vars PROVE OrderInv'
  OBVIOUS
<1>1. ASSUME NEW k \in Kinds, Process(k) PROVE OrderInv'
  BY <1>1, OrderProcess
<1>2. CASE Take
  BY <1>2, OrderTake
<1>3. CASE TakeNothing
  BY <1>3, OrderProbe DEF TakeNothing, Broadcast
<1>4. CASE IterationEnds
  BY <1>4, OrderProbe DEF IterationEnds
<1>5. CASE SendDone
  BY <1>5, OrderSent
<1>6. CASE UNCHANGED <<queue, received, job, got>>
  BY <1>6 DEF OrderInv, InOrder
<1>7. ASSUME NEW s \in Sockets, Visit(s) \/ Connect(s) \/ Messages(s) \/ Leave(s) \/ PeerCloses(s)
      PROVE  OrderInv'
  <2>1. UNCHANGED <<queue, received, job, got>>
    BY <1>7 DEF Visit, Connect, Messages, Leave, PeerCloses, CloseMessage, BadMessage,
                SubscribeMessage, UnsubscribeMessage, pollerVars
  <2> QED  BY <1>6, <2>1
<1>8. CASE SendFails
  BY <1>6, <1>8 DEF SendFails
<1>9. CASE UNCHANGED vars
  BY <1>6, <1>9 DEF vars
<1> QED  BY <1>1, <1>2, <1>3, <1>4, <1>5, <1>7, <1>8, <1>9 DEF Next, Poll

\* Every client sees packets in the order they came in, however full the queue
\* is, whatever sends fail, and although a broadcast may come to a socket twice.
THEOREM ClientsSeeOrder == Spec => []InOrder
<1>1. Init => OrderInv
  BY DEF Init, OrderInv, InOrder, Probe
<1>2. OrderInv => InOrder
  BY DEF OrderInv
<1> QED  BY <1>1, <1>2, OrderNext, TypeCorrect, PTL DEF Spec
=============================================================================
