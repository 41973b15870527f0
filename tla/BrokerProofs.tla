---------------------------- MODULE BrokerProofs ----------------------------
(***************************************************************************)
(* Theorems about Broker, for all clients, topics, subscriptions and       *)
(* high-water marks: its types, that it implements PubSub, and that a      *)
(* subscription has no gaps once messages flow.                            *)
(***************************************************************************)
EXTENDS Broker, SequenceTheorems, TLAPS

-----------------------------------------------------------------------------
(* Types.                                                                  *)

LEMMA TailType ==
    ASSUME NEW S, NEW q \in Seq(S), q # <<>>
    PROVE  /\ Head(q) \in S /\ Head(q) = q[1] /\ 1 \in 1 .. Len(q)
           /\ Tail(q) \in Seq(S)
           /\ Len(q) \in Nat
           /\ Len(Tail(q)) = Len(q) - 1
           /\ \A i \in 1 .. Len(Tail(q)) : i + 1 \in 1 .. Len(q) /\ Tail(q)[i] = q[i + 1]
<1>1. Len(q) \in Nat \ {0}
  BY EmptySeq
<1>2. Len(Tail(q)) = Len(q) - 1 /\ Tail(q) \in Seq(S) /\ Head(q) \in S
  BY HeadTailProperties
<1>3. \A i \in 1 .. Len(Tail(q)) : Tail(q)[i] = q[i + 1]
  BY HeadTailProperties
<1>4. \A n \in Nat \ {0} : 1 \in 1 .. n /\ \A i \in 1 .. n - 1 : i + 1 \in 1 .. n
  OBVIOUS
<1> QED BY <1>1, <1>2, <1>3, <1>4

LEMMA DistributedType ==
    ASSUME TypeOK, NEW m \in Message
    PROVE  /\ Distributed(m) \in [Clients -> Seq(Message)]
           /\ \A c \in Clients : Len(Distributed(m)[c]) <= Hwm
           /\ \A c \in Clients : \/ Distributed(m)[c] = down[c]
                                 \/ /\ Matches(xpub[c], m.topic)
                                    /\ Distributed(m)[c] = Append(down[c], m)
<1> SUFFICES ASSUME NEW c \in Clients
             PROVE  /\ Distributed(m)[c] \in Seq(Message)
                    /\ Len(Distributed(m)[c]) <= Hwm
                    /\ \/ Distributed(m)[c] = down[c]
                       \/ /\ Matches(xpub[c], m.topic)
                          /\ Distributed(m)[c] = Append(down[c], m)
  BY DEF Distributed
<1>1. down[c] \in Seq(Message) /\ Len(down[c]) \in Nat /\ Len(down[c]) <= Hwm
  BY LenProperties DEF TypeOK
<1>2. Append(down[c], m) \in Seq(Message) /\ Len(Append(down[c], m)) = Len(down[c]) + 1
  BY <1>1, AppendProperties
<1>3. Hwm \in Nat
  BY ConstantsAssumption
<1>4. Len(down[c]) < Hwm => Len(Append(down[c], m)) <= Hwm
  BY <1>1, <1>2, <1>3
<1> QED BY <1>1, <1>2, <1>4 DEF Distributed

LEMMA TypeInit == Init => TypeOK
<1>1. /\ \A S : <<>> \in Seq(S)
      /\ Len(<<>>) = 0
  BY EmptySeq
<1>2. Hwm \in Nat
  BY ConstantsAssumption
<1> SUFFICES ASSUME Init PROVE TypeOK
  OBVIOUS
<1>3. \A c \in Clients : Len(up[c]) <= Hwm /\ Len(down[c]) <= Hwm
  <2>1. 0 <= Hwm
    BY <1>2
  <2>2. \A c \in Clients : up[c] = <<>> /\ down[c] = <<>>
    BY DEF Init
  <2> QED BY <1>1, <2>1, <2>2
<1> QED BY <1>1, <1>3 DEF Init, TypeOK

LEMMA TypeStep == TypeOK /\ [Next]_vars => TypeOK'
<1> SUFFICES ASSUME TypeOK, [Next]_vars PROVE TypeOK'
  OBVIOUS
<1>1. CASE SubscribeAll
  BY <1>1, ConstantsAssumption DEF TypeOK, SubscribeAll
<1>2. ASSUME NEW c \in Clients, NEW t \in Topics,
             SubscribeLate(c, t) \/ XpubReads(c, t) \/ PubLearns(c, t)
      PROVE  TypeOK'
  <2>1. CASE SubscribeLate(c, t)
    BY <2>1 DEF TypeOK, SubscribeLate
  <2>2. CASE XpubReads(c, t)
    BY <2>2 DEF TypeOK, XpubReads
  <2>3. CASE PubLearns(c, t)
    BY <2>3 DEF TypeOK, PubLearns
  <2> QED BY <1>2, <2>1, <2>2, <2>3
<1>3. ASSUME NEW c \in Clients, NEW t \in Topics, Publish(c, t)
      PROVE  TypeOK'
  <2> DEFINE m == [src |-> c, topic |-> t, n |-> Len(sent[c]) + 1]
  <2>1. /\ sent[c] \in Seq(Topics) /\ Len(sent[c]) \in Nat
        /\ up[c] \in Seq(Message) /\ Len(up[c]) \in Nat
        /\ Hwm \in Nat
    BY LenProperties, ConstantsAssumption DEF TypeOK
  <2>2. m \in Message
    BY <2>1 DEF Message
  <2>3. Append(sent[c], t) \in Seq(Topics)
    BY <2>1, AppendProperties
  <2>4. Append(up[c], m) \in Seq(Message) /\ Len(Append(up[c], m)) = Len(up[c]) + 1
    BY <2>1, <2>2, AppendProperties
  <2>5. sent' \in [Clients -> Seq(Topics)]
    BY <1>3, <2>3 DEF Publish, TypeOK
  <2>6. /\ up' \in [Clients -> Seq(Message)]
        /\ \A d \in Clients : Len(up'[d]) <= Hwm
    <3>1. CASE Matches(filter[c], t) /\ Len(up[c]) < Hwm
      <4>1. up' = [up EXCEPT ![c] = Append(up[c], m)]
        BY <1>3, <3>1 DEF Publish
      <4>2. Len(Append(up[c], m)) <= Hwm
        BY <2>1, <2>4, <3>1
      <4> QED BY <4>1, <4>2, <2>4 DEF TypeOK
    <3>2. CASE ~(Matches(filter[c], t) /\ Len(up[c]) < Hwm)
      BY <1>3, <3>2 DEF Publish, TypeOK
    <3> QED BY <3>1, <3>2
  <2> QED BY <1>3, <2>5, <2>6 DEF Publish, TypeOK, subscriptionVars
<1>4. CASE LoopTurn
  <2>1. /\ up' \in [Clients -> Seq(Message)]
        /\ down' \in [Clients -> Seq(Message)]
        /\ \A d \in Clients : Len(up'[d]) <= Hwm /\ Len(down'[d]) <= Hwm
    <3>1. ASSUME NEW p \in Clients, ForwardMessage(p)
          PROVE  /\ up' \in [Clients -> Seq(Message)]
                 /\ down' \in [Clients -> Seq(Message)]
                 /\ \A d \in Clients : Len(up'[d]) <= Hwm /\ Len(down'[d]) <= Hwm
      <4>1. up[p] \in Seq(Message) /\ up[p] # <<>> /\ Len(up[p]) <= Hwm /\ Hwm \in Nat
        BY <3>1, ConstantsAssumption DEF TypeOK, ForwardMessage
      <4>2. /\ Head(up[p]) \in Message /\ Tail(up[p]) \in Seq(Message)
            /\ Len(Tail(up[p])) = Len(up[p]) - 1 /\ Len(up[p]) \in Nat
        BY <4>1, TailType
      <4>3. Len(Tail(up[p])) <= Hwm
        BY <4>1, <4>2
      <4> QED BY <3>1, <4>2, <4>3, DistributedType DEF ForwardMessage, TypeOK
    <3> QED BY <1>4, <3>1 DEF LoopTurn, TypeOK
  <2>2. xsub' \in SUBSET Topics
    BY <1>4 DEF LoopTurn, ForwardSubscription, TypeOK
  <2>3. overflow' \in BOOLEAN
    BY <1>4 DEF LoopTurn, ForwardMessage, Overflowing, TypeOK
  <2> QED BY <1>4, <2>1, <2>2, <2>3 DEF LoopTurn, TypeOK
<1>5. ASSUME NEW c \in Clients, Receive(c)
      PROVE  TypeOK'
  <2>1. down[c] \in Seq(Message) /\ down[c] # <<>> /\ Len(down[c]) <= Hwm /\ Hwm \in Nat
    BY <1>5, ConstantsAssumption DEF TypeOK, Receive
  <2>2. /\ Head(down[c]) \in Message /\ Tail(down[c]) \in Seq(Message)
        /\ Len(Tail(down[c])) = Len(down[c]) - 1 /\ Len(down[c]) \in Nat
    BY <2>1, TailType
  <2>3. Len(Tail(down[c])) <= Hwm
    BY <2>1, <2>2
  <2>4. handled[c] \in Seq(Message) /\ Append(handled[c], Head(down[c])) \in Seq(Message)
    BY <2>2, AppendProperties DEF TypeOK
  <2>5. handled' \in [Clients -> Seq(Message)] /\ alive' \in [Clients -> BOOLEAN]
    BY <1>5, <2>4 DEF Receive, TypeOK
  <2> QED BY <1>5, <2>2, <2>3, <2>5 DEF Receive, TypeOK, subscriptionVars
<1>6. CASE UNCHANGED vars
  BY <1>6 DEF TypeOK, vars
<1> QED BY <1>1, <1>2, <1>3, <1>4, <1>5, <1>6 DEF Next

\* No pipe of the bus ever holds more than its high-water mark, and every
\* socket holds what it should, in every interleaving of the bus.
THEOREM TypeCorrect == Spec => []TypeOK
<1>1. Init => TypeOK
  BY TypeInit
<1>2. TypeOK /\ [Next]_vars => TypeOK'
  BY TypeStep
<1> QED BY <1>1, <1>2, PTL DEF Spec

-----------------------------------------------------------------------------
(***************************************************************************)
(* Broker implements PubSub.  What PubSub's Handle asks of a message (that *)
(* it was published, is wanted, and is newer than what the client handled) *)
(* must hold of the messages still in the pipes, and between the pipes.    *)
(***************************************************************************)

\* m is what its publisher published at that place of its log.
Genuine(log, m) == m.n \in 1 .. Len(log[m.src]) /\ m.topic = log[m.src][m.n]

\* The messages of every publisher in q, of any in r, appear in this order.
Sorted(q) == \A i, j \in 1 .. Len(q) : i < j /\ q[i].src = q[j].src => q[i].n < q[j].n
Before(q, r) == \A i \in 1 .. Len(q), j \in 1 .. Len(r) :
                   q[i].src = r[j].src => q[i].n < r[j].n

SubscribedInv == \A c \in Clients : xpub[c] \subseteq requested[c]

UpInv == \A p \in Clients : /\ Sorted(up[p])
                            /\ \A i \in 1 .. Len(up[p]) :
                                  up[p][i].src = p /\ Genuine(sent, up[p][i])

DownInv == \A c \in Clients : /\ Sorted(down[c])
                              /\ \A i \in 1 .. Len(down[c]) :
                                    /\ Genuine(sent, down[c][i])
                                    /\ Matches(xpub[c], down[c][i].topic)
                              /\ \A p \in Clients : Before(down[c], up[p])

HandledInv == \A c \in Clients :
                 /\ \A i \in 1 .. Len(handled[c]) : Genuine(sent, handled[c][i])
                 /\ Before(handled[c], down[c])
                 /\ \A p \in Clients : Before(handled[c], up[p])

BusInv == TypeOK /\ SubscribedInv /\ UpInv /\ DownInv /\ HandledInv

-----------------------------------------------------------------------------
(* Order is kept by the two operations of a pipe.                          *)

LEMMA SortedTail ==
    ASSUME NEW q \in Seq(Message), q # <<>>, Sorted(q)
    PROVE  /\ Sorted(Tail(q))
           /\ \A j \in 1 .. Len(Tail(q)) :
                 q[1].src = Tail(q)[j].src => q[1].n < Tail(q)[j].n
<1>1. /\ 1 \in 1 .. Len(q) /\ Len(q) \in Nat /\ Len(Tail(q)) \in Nat
      /\ \A i \in 1 .. Len(Tail(q)) : i + 1 \in 1 .. Len(q) /\ Tail(q)[i] = q[i + 1]
  BY TailType
<1>2. \A i, j \in 1 .. Len(Tail(q)) : i < j => i + 1 < j + 1
  BY <1>1
<1>3. \A j \in 1 .. Len(Tail(q)) : 1 < j + 1
  BY <1>1
<1> QED BY <1>1, <1>2, <1>3 DEF Sorted

LEMMA BeforeTail ==
    ASSUME NEW q \in Seq(Message), q # <<>>
    PROVE  /\ \A r : Before(q, r) => Before(Tail(q), r)
           /\ \A r : Before(r, q) => Before(r, Tail(q))
<1>1. \A i \in 1 .. Len(Tail(q)) : i + 1 \in 1 .. Len(q) /\ Tail(q)[i] = q[i + 1]
  BY TailType
<1> QED BY <1>1 DEF Before

LEMMA AppendOrder ==
    ASSUME NEW q \in Seq(Message), NEW m \in Message
    PROVE  /\ \A i \in 1 .. Len(Append(q, m)) :
                 \/ i \in 1 .. Len(q) /\ Append(q, m)[i] = q[i]
                 \/ i = Len(q) + 1 /\ Append(q, m)[i] = m
           /\ \A i \in 1 .. Len(q) : i \in 1 .. Len(Append(q, m)) /\ Append(q, m)[i] = q[i]
           /\ (/\ Sorted(q)
               /\ \A i \in 1 .. Len(q) : q[i].src = m.src => q[i].n < m.n)
                 => Sorted(Append(q, m))
<1>1. /\ Len(q) \in Nat
      /\ Len(Append(q, m)) = Len(q) + 1
      /\ \A i \in 1 .. Len(q) : Append(q, m)[i] = q[i]
      /\ Append(q, m)[Len(q) + 1] = m
  BY AppendProperties, LenProperties
<1>2. /\ \A i \in 1 .. Len(q) + 1 : i \in 1 .. Len(q) \/ i = Len(q) + 1
      /\ \A i \in 1 .. Len(q) : i \in 1 .. Len(q) + 1
  BY <1>1
<1>3. \A i \in 1 .. Len(Append(q, m)) :
         \/ i \in 1 .. Len(q) /\ Append(q, m)[i] = q[i]
         \/ i = Len(q) + 1 /\ Append(q, m)[i] = m
  BY <1>1, <1>2
<1>4. ASSUME Sorted(q), \A i \in 1 .. Len(q) : q[i].src = m.src => q[i].n < m.n,
             NEW i \in 1 .. Len(Append(q, m)), NEW j \in 1 .. Len(Append(q, m)), i < j,
             Append(q, m)[i].src = Append(q, m)[j].src
      PROVE  Append(q, m)[i].n < Append(q, m)[j].n
  <2>1. i \in 1 .. Len(q)
    BY <1>1, <1>4
  <2>2. CASE j \in 1 .. Len(q)
    BY <1>1, <1>4, <2>1, <2>2 DEF Sorted
  <2>3. CASE j = Len(q) + 1
    BY <1>1, <1>4, <2>1, <2>3
  <2> QED BY <1>3, <2>2, <2>3
<1> QED BY <1>1, <1>2, <1>3, <1>4 DEF Sorted

LEMMA InPipe ==
    ASSUME TypeOK, NEW c \in Clients
    PROVE  /\ \A i \in 1 .. Len(up[c]) : up[c][i] \in Message
           /\ \A i \in 1 .. Len(down[c]) : down[c][i] \in Message
           /\ \A i \in 1 .. Len(handled[c]) : handled[c][i] \in Message
BY ElementOfSeq DEF TypeOK

LEMMA MessageFields ==
    \A m \in Message : /\ m.src \in Clients /\ m.topic \in Topics /\ m.n \in Nat
                       /\ m = [src |-> m.src, topic |-> m.topic, n |-> m.n]
BY DEF Message

-----------------------------------------------------------------------------
(* The invariant, action by action.                                        *)

LEMMA InvInit == Init => BusInv
<1> SUFFICES ASSUME Init PROVE BusInv
  OBVIOUS
<1>1. Len(<<>>) = 0
  BY EmptySeq
<1>2. \A c \in Clients : /\ Len(up[c]) = 0 /\ Len(down[c]) = 0 /\ Len(handled[c]) = 0
                         /\ xpub[c] = {}
  BY <1>1 DEF Init
<1>3. \A i \in 1 .. 0 : FALSE
  OBVIOUS
<1>4. UpInv /\ DownInv /\ HandledInv /\ SubscribedInv
  BY <1>2, <1>3 DEF UpInv, DownInv, HandledInv, SubscribedInv, Sorted, Before
<1> QED BY <1>4, TypeInit DEF BusInv

\* Subscriptions only grow, and nothing else moves.
LEMMA InvSubscriptions ==
    ASSUME BusInv, UNCHANGED <<sent, up, down, handled>>,
           \A c \in Clients : xpub[c] \subseteq xpub'[c] /\ xpub'[c] \subseteq requested'[c]
    PROVE  SubscribedInv' /\ UpInv' /\ DownInv' /\ HandledInv'
<1>1. \A c \in Clients : \A t : Matches(xpub[c], t) => Matches(xpub'[c], t)
  BY DEF Matches
<1>2. \A m : Genuine(sent, m) => Genuine(sent', m)
  BY DEF Genuine
<1>3. SubscribedInv'
  BY DEF SubscribedInv
<1>4. UpInv'
  BY <1>2 DEF BusInv, UpInv
<1>5. DownInv'
  <2> SUFFICES ASSUME NEW c \in Clients
               PROVE  /\ Sorted(down'[c])
                      /\ \A i \in 1 .. Len(down'[c]) :
                            /\ Genuine(sent', down'[c][i])
                            /\ Matches(xpub'[c], down'[c][i].topic)
                      /\ \A p \in Clients : Before(down'[c], up'[p])
    BY DEF DownInv
  <2> QED BY <1>1, <1>2 DEF BusInv, DownInv
<1>6. HandledInv'
  BY <1>2 DEF BusInv, HandledInv
<1> QED BY <1>3, <1>4, <1>5, <1>6

LEMMA InvPublish ==
    ASSUME BusInv, NEW c \in Clients, NEW t \in Topics, Publish(c, t)
    PROVE  UpInv' /\ DownInv' /\ HandledInv'
<1>0. PICK m : m = [src |-> c, topic |-> t, n |-> Len(sent[c]) + 1]
  OBVIOUS
<1>1. /\ TypeOK /\ UpInv /\ DownInv /\ HandledInv
      /\ UNCHANGED <<xpub, down, handled>>
      /\ sent' = [sent EXCEPT ![c] = Append(@, t)]
  BY DEF BusInv, Publish, subscriptionVars
<1>2. /\ sent[c] \in Seq(Topics) /\ Len(sent[c]) \in Nat
      /\ up[c] \in Seq(Message) /\ sent \in [Clients -> Seq(Topics)]
      /\ up \in [Clients -> Seq(Message)]
  BY <1>1, LenProperties DEF TypeOK
<1>3. m \in Message /\ m.src = c /\ m.topic = t /\ m.n = Len(sent[c]) + 1
  BY <1>0, <1>2 DEF Message
<1>4. /\ Len(sent'[c]) = Len(sent[c]) + 1
      /\ \A k \in 1 .. Len(sent[c]) : k \in 1 .. Len(sent'[c]) /\ sent'[c][k] = sent[c][k]
      /\ sent'[c][Len(sent[c]) + 1] = t
      /\ \A d \in Clients : d # c => sent'[d] = sent[d]
  <2>1. sent'[c] = Append(sent[c], t)
    BY <1>1, <1>2
  <2>2. /\ Len(Append(sent[c], t)) = Len(sent[c]) + 1
        /\ \A k \in 1 .. Len(sent[c]) : Append(sent[c], t)[k] = sent[c][k]
        /\ Append(sent[c], t)[Len(sent[c]) + 1] = t
    BY <1>2, AppendProperties
  <2>3. \A k \in 1 .. Len(sent[c]) : k \in 1 .. Len(sent[c]) + 1
    BY <1>2
  <2> QED BY <1>1, <1>2, <2>1, <2>2, <2>3
<1>5. \A q \in Message : Genuine(sent, q) => Genuine(sent', q)
  BY <1>4, MessageFields DEF Genuine
<1>6. Genuine(sent', m)
  BY <1>2, <1>3, <1>4 DEF Genuine
<1>7. \A q \in Message : Genuine(sent, q) /\ q.src = c => q.n < m.n
  BY <1>2, <1>3, MessageFields DEF Genuine
<1>8. \A p \in Clients :
         \/ up'[p] = up[p]
         \/ p = c /\ up'[p] = Append(up[p], m)
  BY <1>0, <1>2 DEF Publish
<1>9. /\ \A i \in 1 .. Len(Append(up[c], m)) :
            \/ i \in 1 .. Len(up[c]) /\ Append(up[c], m)[i] = up[c][i]
            \/ i = Len(up[c]) + 1 /\ Append(up[c], m)[i] = m
      /\ (/\ Sorted(up[c])
          /\ \A i \in 1 .. Len(up[c]) : up[c][i].src = m.src => up[c][i].n < m.n)
            => Sorted(Append(up[c], m))
  BY <1>2, <1>3, AppendOrder
<1>10. UpInv'
  <2> SUFFICES ASSUME NEW p \in Clients
               PROVE  /\ Sorted(up'[p])
                      /\ \A i \in 1 .. Len(up'[p]) : up'[p][i].src = p /\ Genuine(sent', up'[p][i])
    BY DEF UpInv
  <2>1. /\ Sorted(up[p])
        /\ \A i \in 1 .. Len(up[p]) : /\ up[p][i] \in Message
                                      /\ up[p][i].src = p /\ Genuine(sent, up[p][i])
    BY <1>1, InPipe DEF UpInv
  <2>2. CASE up'[p] = up[p]
    BY <1>5, <2>1, <2>2
  <2>3. CASE p = c /\ up'[p] = Append(up[p], m)
    <3>1. Sorted(up'[p])
      BY <1>7, <1>9, <2>1, <2>3
    <3>2. ASSUME NEW i \in 1 .. Len(up'[p])
          PROVE  up'[p][i].src = p /\ Genuine(sent', up'[p][i])
      <4>1. \/ i \in 1 .. Len(up[p]) /\ up'[p][i] = up[p][i]
            \/ up'[p][i] = m
        BY <1>9, <2>3
      <4> QED BY <1>3, <1>5, <1>6, <2>1, <2>3, <4>1
    <3> QED BY <3>1, <3>2
  <2> QED BY <1>8, <2>2, <2>3
<1>11. ASSUME NEW q, \A i \in 1 .. Len(q) : q[i] \in Message /\ Genuine(sent, q[i]),
              NEW p \in Clients, Before(q, up[p])
       PROVE  Before(q, up'[p])
  <2>1. CASE up'[p] = up[p]
    BY <1>11, <2>1
  <2>2. CASE p = c /\ up'[p] = Append(up[p], m)
    <3> SUFFICES ASSUME NEW i \in 1 .. Len(q), NEW j \in 1 .. Len(up'[p]),
                        q[i].src = up'[p][j].src
                 PROVE  q[i].n < up'[p][j].n
      BY DEF Before
    <3>1. \/ j \in 1 .. Len(up[p]) /\ up'[p][j] = up[p][j]
          \/ up'[p][j] = m
      BY <1>9, <2>2
    <3>2. CASE j \in 1 .. Len(up[p]) /\ up'[p][j] = up[p][j]
      BY <1>11, <3>2 DEF Before
    <3>3. CASE up'[p][j] = m
      BY <1>3, <1>7, <1>11, <3>3
    <3> QED BY <3>1, <3>2, <3>3
  <2> QED BY <1>8, <2>1, <2>2
<1>12. DownInv'
  <2> SUFFICES ASSUME NEW d \in Clients
               PROVE  /\ Sorted(down'[d])
                      /\ \A i \in 1 .. Len(down'[d]) :
                            /\ Genuine(sent', down'[d][i])
                            /\ Matches(xpub'[d], down'[d][i].topic)
                      /\ \A p \in Clients : Before(down'[d], up'[p])
    BY DEF DownInv
  <2>1. /\ Sorted(down[d])
        /\ \A i \in 1 .. Len(down[d]) : /\ down[d][i] \in Message
                                        /\ Genuine(sent, down[d][i])
                                        /\ Matches(xpub[d], down[d][i].topic)
        /\ \A p \in Clients : Before(down[d], up[p])
    BY <1>1, InPipe DEF DownInv
  <2>2. down'[d] = down[d] /\ xpub'[d] = xpub[d]
    BY <1>1
  <2> QED BY <1>5, <1>11, <2>1, <2>2
<1>13. HandledInv'
  <2> SUFFICES ASSUME NEW d \in Clients
               PROVE  /\ \A i \in 1 .. Len(handled'[d]) : Genuine(sent', handled'[d][i])
                      /\ Before(handled'[d], down'[d])
                      /\ \A p \in Clients : Before(handled'[d], up'[p])
    BY DEF HandledInv
  <2>1. /\ \A i \in 1 .. Len(handled[d]) : handled[d][i] \in Message /\ Genuine(sent, handled[d][i])
        /\ Before(handled[d], down[d])
        /\ \A p \in Clients : Before(handled[d], up[p])
    BY <1>1, InPipe DEF HandledInv
  <2>2. down'[d] = down[d] /\ handled'[d] = handled[d]
    BY <1>1
  <2> QED BY <1>5, <1>11, <2>1, <2>2
<1> QED BY <1>10, <1>12, <1>13

LEMMA InvForward ==
    ASSUME BusInv, NEW p \in Clients, ForwardMessage(p), UNCHANGED <<sent, handled, xpub>>
    PROVE  UpInv' /\ DownInv' /\ HandledInv'
<1>1. /\ TypeOK /\ UpInv /\ DownInv /\ HandledInv
  BY DEF BusInv
<1>2. PICK m : m = Head(up[p])
  OBVIOUS
<1>3. /\ up[p] \in Seq(Message) /\ up[p] # <<>> /\ up \in [Clients -> Seq(Message)]
      /\ up' = [up EXCEPT ![p] = Tail(up[p])]
      /\ down' = Distributed(m)
  BY <1>1, <1>2 DEF TypeOK, ForwardMessage
<1>4. m \in Message /\ m = up[p][1] /\ 1 \in 1 .. Len(up[p])
  BY <1>2, <1>3, TailType
<1>5. m.src = p /\ Genuine(sent, m)
  BY <1>1, <1>4 DEF UpInv
<1>6. /\ up'[p] = Tail(up[p])
      /\ \A d \in Clients : d # p => up'[d] = up[d]
  BY <1>3
<1>7. \A i \in 1 .. Len(Tail(up[p])) : i + 1 \in 1 .. Len(up[p]) /\ Tail(up[p])[i] = up[p][i + 1]
  BY <1>3, TailType
<1>8. /\ Sorted(Tail(up[p]))
      /\ \A j \in 1 .. Len(Tail(up[p])) : m.src = Tail(up[p])[j].src => m.n < Tail(up[p])[j].n
  BY <1>1, <1>3, <1>4, SortedTail DEF UpInv
<1>9. \A q : \A d \in Clients : Before(q, up[d]) => Before(q, up'[d])
  BY <1>3, <1>6, BeforeTail
<1>10. \A c \in Clients : \/ down'[c] = down[c]
                          \/ /\ Matches(xpub[c], m.topic)
                             /\ down'[c] = Append(down[c], m)
  BY <1>1, <1>3, <1>4, DistributedType
<1>11. UpInv'
  <2> SUFFICES ASSUME NEW d \in Clients
               PROVE  /\ Sorted(up'[d])
                      /\ \A i \in 1 .. Len(up'[d]) : up'[d][i].src = d /\ Genuine(sent', up'[d][i])
    BY DEF UpInv
  <2>1. CASE d = p
    <3>1. Sorted(up'[d])
      BY <1>6, <1>8, <2>1
    <3>2. \A i \in 1 .. Len(up'[d]) : \E k \in 1 .. Len(up[p]) : up'[d][i] = up[p][k]
      BY <1>6, <1>7, <2>1
    <3>3. \A k \in 1 .. Len(up[p]) : up[p][k].src = p /\ Genuine(sent, up[p][k])
      BY <1>1 DEF UpInv
    <3> QED BY <2>1, <3>1, <3>2, <3>3
  <2>2. CASE d # p
    BY <1>1, <1>6, <2>2 DEF UpInv
  <2> QED BY <2>1, <2>2
<1>12. \A d \in Clients : \A j \in 1 .. Len(up'[d]) : m.src = up'[d][j].src => m.n < up'[d][j].n
  <2> SUFFICES ASSUME NEW d \in Clients, NEW j \in 1 .. Len(up'[d]), m.src = up'[d][j].src
               PROVE  m.n < up'[d][j].n
    OBVIOUS
  <2>1. CASE d = p
    BY <1>6, <1>8, <2>1
  <2>2. CASE d # p
    BY <1>5, <1>11, <2>2 DEF UpInv
  <2> QED BY <2>1, <2>2
<1>13. DownInv'
  <2> SUFFICES ASSUME NEW c \in Clients
               PROVE  /\ Sorted(down'[c])
                      /\ \A i \in 1 .. Len(down'[c]) :
                            /\ Genuine(sent', down'[c][i])
                            /\ Matches(xpub'[c], down'[c][i].topic)
                      /\ \A d \in Clients : Before(down'[c], up'[d])
    BY DEF DownInv
  <2>1. /\ Sorted(down[c])
        /\ \A i \in 1 .. Len(down[c]) : /\ Genuine(sent, down[c][i])
                                        /\ Matches(xpub[c], down[c][i].topic)
        /\ \A d \in Clients : Before(down[c], up[d])
        /\ down[c] \in Seq(Message)
    BY <1>1 DEF DownInv, TypeOK
  <2>2. CASE down'[c] = down[c]
    BY <1>9, <2>1, <2>2
  <2>3. CASE Matches(xpub[c], m.topic) /\ down'[c] = Append(down[c], m)
    <3>1. \A i \in 1 .. Len(down'[c]) : \/ i \in 1 .. Len(down[c]) /\ down'[c][i] = down[c][i]
                                       \/ down'[c][i] = m
      BY <1>4, <2>1, <2>3, AppendOrder
    <3>2. \A i \in 1 .. Len(down[c]) : down[c][i].src = m.src => down[c][i].n < m.n
      BY <1>4, <2>1 DEF Before
    <3>3. Sorted(down'[c])
      BY SMTT(30), <1>4, <2>1, <2>3, <3>2, AppendOrder
    <3>4. \A i \in 1 .. Len(down'[c]) : /\ Genuine(sent', down'[c][i])
                                       /\ Matches(xpub'[c], down'[c][i].topic)
      BY <1>5, <2>1, <2>3, <3>1
    <3>5. ASSUME NEW d \in Clients, NEW i \in 1 .. Len(down'[c]), NEW j \in 1 .. Len(up'[d]),
                 down'[c][i].src = up'[d][j].src
          PROVE  down'[c][i].n < up'[d][j].n
      <4>1. CASE i \in 1 .. Len(down[c]) /\ down'[c][i] = down[c][i]
        BY <1>9, <2>1, <3>5, <4>1 DEF Before
      <4>2. CASE down'[c][i] = m
        BY <1>12, <3>5, <4>2
      <4> QED BY <3>1, <4>1, <4>2
    <3> QED BY <3>3, <3>4, <3>5 DEF Before
  <2> QED BY <1>10, <2>2, <2>3
<1>14. HandledInv'
  <2> SUFFICES ASSUME NEW c \in Clients
               PROVE  /\ \A i \in 1 .. Len(handled'[c]) : Genuine(sent', handled'[c][i])
                      /\ Before(handled'[c], down'[c])
                      /\ \A d \in Clients : Before(handled'[c], up'[d])
    BY DEF HandledInv
  <2>1. /\ \A i \in 1 .. Len(handled[c]) : Genuine(sent, handled[c][i])
        /\ Before(handled[c], down[c])
        /\ \A d \in Clients : Before(handled[c], up[d])
        /\ down[c] \in Seq(Message)
    BY <1>1 DEF HandledInv, TypeOK
  <2>2. Before(handled[c], down'[c])
    <3>1. CASE down'[c] = down[c]
      BY <2>1, <3>1
    <3>2. CASE down'[c] = Append(down[c], m)
      <4>1. \A i \in 1 .. Len(down'[c]) : \/ i \in 1 .. Len(down[c]) /\ down'[c][i] = down[c][i]
                                         \/ down'[c][i] = m
        BY <1>4, <2>1, <3>2, AppendOrder
      <4>2. \A i \in 1 .. Len(handled[c]) : handled[c][i].src = m.src => handled[c][i].n < m.n
        BY <1>4, <2>1 DEF Before
      <4> SUFFICES ASSUME NEW i \in 1 .. Len(handled[c]), NEW j \in 1 .. Len(down'[c]),
                          handled[c][i].src = down'[c][j].src
                   PROVE  handled[c][i].n < down'[c][j].n
        BY DEF Before
      <4>3. CASE j \in 1 .. Len(down[c]) /\ down'[c][j] = down[c][j]
        BY <2>1, <4>3 DEF Before
      <4>4. CASE down'[c][j] = m
        BY <4>2, <4>4
      <4> QED BY <4>1, <4>3, <4>4
    <3> QED BY <1>10, <3>1, <3>2
  <2> QED BY <1>9, <2>1, <2>2
<1> QED BY <1>11, <1>13, <1>14

LEMMA InvReceive ==
    ASSUME BusInv, NEW c \in Clients, Receive(c)
    PROVE  UpInv' /\ DownInv' /\ HandledInv'
<1>1. /\ TypeOK /\ UpInv /\ DownInv /\ HandledInv
      /\ UNCHANGED <<sent, up, xpub>>
  BY DEF BusInv, Receive, subscriptionVars
<1>2. PICK m : m = Head(down[c])
  OBVIOUS
<1>3. /\ down[c] \in Seq(Message) /\ down[c] # <<>> /\ down \in [Clients -> Seq(Message)]
      /\ handled[c] \in Seq(Message)
      /\ down' = [down EXCEPT ![c] = Tail(down[c])]
      /\ handled' = handled \/ handled' = [handled EXCEPT ![c] = Append(handled[c], m)]
  BY <1>1, <1>2 DEF TypeOK, Receive
<1>4. m \in Message /\ m = down[c][1] /\ 1 \in 1 .. Len(down[c])
  BY <1>2, <1>3, TailType
<1>5. /\ Genuine(sent, m)
      /\ \A p \in Clients : \A j \in 1 .. Len(up[p]) : m.src = up[p][j].src => m.n < up[p][j].n
  BY <1>1, <1>4 DEF DownInv, Before
<1>6. /\ \A i \in 1 .. Len(Tail(down[c])) : \E k \in 1 .. Len(down[c]) : Tail(down[c])[i] = down[c][k]
      /\ Sorted(Tail(down[c]))
      /\ \A j \in 1 .. Len(Tail(down[c])) :
            m.src = Tail(down[c])[j].src => m.n < Tail(down[c])[j].n
  <2>1. Sorted(down[c])
    BY <1>1 DEF DownInv
  <2>2. \A i \in 1 .. Len(Tail(down[c])) : \E k \in 1 .. Len(down[c]) : Tail(down[c])[i] = down[c][k]
    BY <1>3, TailType
  <2> QED BY <1>3, <1>4, <2>1, <2>2, TailType, SortedTail
<1>7. UpInv'
  BY <1>1 DEF UpInv
<1>8. DownInv'
  <2> SUFFICES ASSUME NEW d \in Clients
               PROVE  /\ Sorted(down'[d])
                      /\ \A i \in 1 .. Len(down'[d]) :
                            /\ Genuine(sent', down'[d][i])
                            /\ Matches(xpub'[d], down'[d][i].topic)
                      /\ \A p \in Clients : Before(down'[d], up'[p])
    BY DEF DownInv
  <2>1. /\ Sorted(down[d])
        /\ \A i \in 1 .. Len(down[d]) : /\ Genuine(sent, down[d][i])
                                        /\ Matches(xpub[d], down[d][i].topic)
        /\ \A p \in Clients : Before(down[d], up[p])
    BY <1>1 DEF DownInv
  <2>2. CASE d = c
    <3>1. down'[d] = Tail(down[c])
      BY <1>3, <2>2
    <3>2. \A p \in Clients : Before(down'[d], up[p])
      BY <1>3, <2>1, <2>2, <3>1, BeforeTail
    <3> QED BY <1>1, <1>6, <2>1, <2>2, <3>1, <3>2
  <2>3. CASE d # c
    BY <1>1, <1>3, <2>1, <2>3
  <2> QED BY <2>2, <2>3
<1>9. HandledInv'
  <2> SUFFICES ASSUME NEW d \in Clients
               PROVE  /\ \A i \in 1 .. Len(handled'[d]) : Genuine(sent', handled'[d][i])
                      /\ Before(handled'[d], down'[d])
                      /\ \A p \in Clients : Before(handled'[d], up'[p])
    BY DEF HandledInv
  <2>1. /\ \A i \in 1 .. Len(handled[d]) : Genuine(sent, handled[d][i])
        /\ Before(handled[d], down[d])
        /\ \A p \in Clients : Before(handled[d], up[p])
        /\ handled[d] \in Seq(Message) /\ handled \in [Clients -> Seq(Message)]
    BY <1>1 DEF HandledInv, TypeOK
  <2>2. Before(handled[d], down'[d])
    BY <1>3, <2>1, BeforeTail
  <2>3. CASE handled'[d] = handled[d]
    BY <1>1, <2>1, <2>2, <2>3
  <2>4. CASE d = c /\ handled'[d] = Append(handled[d], m)
    <3>1. \A i \in 1 .. Len(handled'[d]) :
             \/ i \in 1 .. Len(handled[d]) /\ handled'[d][i] = handled[d][i]
             \/ handled'[d][i] = m
      BY <1>4, <2>1, <2>4, AppendOrder
    <3>2. down'[d] = Tail(down[c])
      BY <1>3, <2>4
    <3>3. \A i \in 1 .. Len(handled'[d]) : Genuine(sent', handled'[d][i])
      BY <1>1, <1>5, <2>1, <3>1
    <3>4. ASSUME NEW i \in 1 .. Len(handled'[d]), NEW j \in 1 .. Len(down'[d]),
                 handled'[d][i].src = down'[d][j].src
          PROVE  handled'[d][i].n < down'[d][j].n
      <4>1. CASE i \in 1 .. Len(handled[d]) /\ handled'[d][i] = handled[d][i]
        BY <2>2, <3>4, <4>1 DEF Before
      <4>2. CASE handled'[d][i] = m
        BY <1>6, <3>2, <3>4, <4>2
      <4> QED BY <3>1, <4>1, <4>2
    <3>5. ASSUME NEW p \in Clients,
                 NEW i \in 1 .. Len(handled'[d]), NEW j \in 1 .. Len(up'[p]),
                 handled'[d][i].src = up'[p][j].src
          PROVE  handled'[d][i].n < up'[p][j].n
      <4>1. up' = up
        BY <1>1
      <4>2. CASE i \in 1 .. Len(handled[d]) /\ handled'[d][i] = handled[d][i]
        BY <2>1, <3>5, <4>1, <4>2 DEF Before
      <4>3. CASE handled'[d][i] = m
        BY <1>5, <3>5, <4>1, <4>3
      <4> QED BY <3>1, <4>2, <4>3
    <3> QED BY <3>3, <3>4, <3>5 DEF Before
  <2> QED BY <1>3, <2>1, <2>3, <2>4
<1> QED BY <1>7, <1>8, <1>9

LEMMA InvStep == BusInv /\ [Next]_vars => BusInv'
<1> SUFFICES ASSUME BusInv, [Next]_vars PROVE BusInv'
  OBVIOUS
<1>1. TypeOK /\ TypeOK' /\ SubscribedInv
  BY TypeStep DEF BusInv
<1> SUFFICES SubscribedInv' /\ UpInv' /\ DownInv' /\ HandledInv'
  BY <1>1 DEF BusInv
<1>2. CASE SubscribeAll
  <2>1. \A c \in Clients : xpub[c] \subseteq xpub'[c] /\ xpub'[c] \subseteq requested'[c]
    BY <1>1, <1>2 DEF SubscribeAll, SubscribedInv
  <2> QED BY <1>2, <2>1, InvSubscriptions DEF SubscribeAll
<1>3. ASSUME NEW c \in Clients, NEW t \in Topics, SubscribeLate(c, t)
      PROVE  SubscribedInv' /\ UpInv' /\ DownInv' /\ HandledInv'
  <2>1. \A d \in Clients : xpub[d] \subseteq xpub'[d] /\ xpub'[d] \subseteq requested'[d]
    BY <1>1, <1>3 DEF SubscribeLate, SubscribedInv, TypeOK
  <2> QED BY <1>3, <2>1, InvSubscriptions DEF SubscribeLate
<1>4. ASSUME NEW c \in Clients, NEW t \in Topics, XpubReads(c, t)
      PROVE  SubscribedInv' /\ UpInv' /\ DownInv' /\ HandledInv'
  <2>1. \A d \in Clients : xpub[d] \subseteq xpub'[d] /\ xpub'[d] \subseteq requested'[d]
    BY <1>1, <1>4 DEF XpubReads, SubscribedInv, TypeOK
  <2> QED BY <1>4, <2>1, InvSubscriptions DEF XpubReads
<1>5. ASSUME NEW c \in Clients, NEW t \in Topics, PubLearns(c, t)
      PROVE  SubscribedInv' /\ UpInv' /\ DownInv' /\ HandledInv'
  BY <1>1, <1>5, InvSubscriptions DEF PubLearns, SubscribedInv
<1>6. ASSUME NEW c \in Clients, NEW t \in Topics, Publish(c, t)
      PROVE  SubscribedInv' /\ UpInv' /\ DownInv' /\ HandledInv'
  BY <1>1, <1>6, InvPublish DEF Publish, subscriptionVars, SubscribedInv
<1>7. CASE LoopTurn
  <2>1. SubscribedInv' /\ UNCHANGED <<sent, handled, xpub, requested>>
    BY <1>1, <1>7 DEF LoopTurn, SubscribedInv
  <2>2. ASSUME NEW p \in Clients, ForwardMessage(p)
        PROVE  UpInv' /\ DownInv' /\ HandledInv'
    BY <2>1, <2>2, InvForward
  <2>3. CASE UNCHANGED <<up, down>>
    BY <1>1, <2>1, <2>3, InvSubscriptions DEF SubscribedInv
  <2> QED BY <1>7, <2>1, <2>2, <2>3 DEF LoopTurn
<1>8. ASSUME NEW c \in Clients, Receive(c)
      PROVE  SubscribedInv' /\ UpInv' /\ DownInv' /\ HandledInv'
  BY <1>1, <1>8, InvReceive DEF Receive, subscriptionVars, SubscribedInv
<1>9. CASE UNCHANGED vars
  BY <1>1, <1>9, InvSubscriptions DEF vars, SubscribedInv
<1> QED BY <1>2, <1>3, <1>4, <1>5, <1>6, <1>7, <1>8, <1>9 DEF Next

-----------------------------------------------------------------------------
(* The refinement.                                                         *)

LEMMA BusInit == Init => Bus!Init
BY DEF Init, Bus!Init

LEMMA ReceiveRefines ==
    ASSUME BusInv, NEW c \in Clients, Receive(c)
    PROVE  Bus!Next \/ UNCHANGED Bus!vars
<1>1. TypeOK /\ SubscribedInv /\ DownInv /\ HandledInv
  BY DEF BusInv
<1>2. PICK m : m = Head(down[c])
  OBVIOUS
<1>3. /\ down[c] \in Seq(Message) /\ down[c] # <<>>
      /\ alive[c]
  BY <1>1 DEF TypeOK, Receive
<1>4. m \in Message /\ m = down[c][1] /\ 1 \in 1 .. Len(down[c])
  BY <1>2, <1>3, TailType
<1>5. Genuine(sent, m) /\ Matches(xpub[c], m.topic)
  BY <1>1, <1>4 DEF DownInv
<1>6. CASE UNCHANGED <<handled, alive>>
  BY <1>6 DEF Bus!vars, Receive, subscriptionVars
<1>7. CASE /\ handled' = [handled EXCEPT ![c] = Append(@, m)]
           /\ \/ UNCHANGED alive
              \/ alive' = [alive EXCEPT ![c] = FALSE]
  <2>1. /\ m.src \in Clients
        /\ m.n \in 1 .. Len(sent[m.src])
        /\ m = [src |-> m.src, topic |-> sent[m.src][m.n], n |-> m.n]
    BY <1>4, <1>5, MessageFields DEF Genuine
  <2>2. Bus!Matches(requested[c], sent[m.src][m.n])
    BY <1>1, <1>5 DEF Genuine, Matches, Bus!Matches, SubscribedInv
  <2>3. \A i \in 1 .. Len(handled[c]) : handled[c][i].src = m.src => handled[c][i].n < m.n
    BY <1>1, <1>4 DEF HandledInv, Before
  <2>4. UNCHANGED <<requested, sent>>
    BY DEF Receive, subscriptionVars
  <2>5. alive' \in {alive, [alive EXCEPT ![c] = FALSE]}
    BY <1>7
  <2>6. handled' = [handled EXCEPT ![c] =
                      Append(@, [src |-> m.src, topic |-> sent[m.src][m.n], n |-> m.n])]
    BY <1>7, <2>1
  <2>7. Bus!Handle(c, m.src, m.n)
    BY <1>3, <2>1, <2>2, <2>3, <2>4, <2>5, <2>6 DEF Bus!Handle
  <2> QED BY <2>1, <2>7 DEF Bus!Next
<1> QED BY <1>2, <1>6, <1>7 DEF Receive

LEMMA BusStep == BusInv /\ [Next]_vars => [Bus!Next]_(Bus!vars)
<1> SUFFICES ASSUME BusInv, [Next]_vars PROVE Bus!Next \/ UNCHANGED Bus!vars
  OBVIOUS
<1>0. TypeOK'
  BY TypeStep DEF BusInv
<1>1. CASE SubscribeAll
  <2>1. /\ requested' \in [Clients -> SUBSET Topics]
        /\ \A c \in Clients : requested[c] \subseteq requested'[c]
        /\ UNCHANGED <<sent, handled, alive>>
    BY <1>0, <1>1 DEF SubscribeAll, TypeOK
  <2> QED BY <2>1 DEF Bus!Request, Bus!Next
<1>2. ASSUME NEW c \in Clients, NEW t \in Topics, SubscribeLate(c, t)
      PROVE  Bus!Next
  <2>1. /\ requested' \in [Clients -> SUBSET Topics]
        /\ \A d \in Clients : requested[d] \subseteq requested'[d]
        /\ UNCHANGED <<sent, handled, alive>>
    BY <1>0, <1>2 DEF SubscribeLate, TypeOK, BusInv
  <2> QED BY <2>1 DEF Bus!Request, Bus!Next
<1>3. ASSUME NEW c \in Clients, NEW t \in Topics, XpubReads(c, t) \/ PubLearns(c, t)
      PROVE  UNCHANGED Bus!vars
  BY <1>3 DEF XpubReads, PubLearns, Bus!vars
<1>4. ASSUME NEW c \in Clients, NEW t \in Topics, Publish(c, t)
      PROVE  Bus!Next
  BY <1>4 DEF Publish, subscriptionVars, Bus!Publish, Bus!Next
<1>5. CASE LoopTurn
  BY <1>5 DEF LoopTurn, Bus!vars
<1>6. ASSUME NEW c \in Clients, Receive(c)
      PROVE  Bus!Next \/ UNCHANGED Bus!vars
  BY <1>6, ReceiveRefines
<1>7. CASE UNCHANGED vars
  BY <1>7 DEF vars, Bus!vars
<1> QED BY <1>1, <1>2, <1>3, <1>4, <1>5, <1>6, <1>7 DEF Next

\* The sockets, the filters and the broker's loop keep PubSub's promise: a
\* client handles only published messages it asked for, each at most once and
\* those of one publisher in the order of publication.
THEOREM BusImplementsPubSub == Spec => BusSpec
<1>1. Init => BusInv
  BY InvInit
<1>2. BusInv /\ [Next]_vars => BusInv'
  BY InvStep
<1>3. Init => Bus!Init
  BY BusInit
<1>4. BusInv /\ [Next]_vars => [Bus!Next]_(Bus!vars)
  BY BusStep
<1> QED BY <1>1, <1>2, <1>3, <1>4, PTL DEF Spec, BusSpec, Bus!Spec
-----------------------------------------------------------------------------
(***************************************************************************)
(* No gaps.  A publisher that got one message of a topic through knows a   *)
(* subscription that asks for the topic, and so does the XPUB socket for   *)
(* every client the message reached; neither forgets it, so only a full    *)
(* pipe can drop a later message of the topic.                             *)
(***************************************************************************)

\* The message of publisher p with that number is in q.
Has(q, p, n) == \E i \in 1 .. Len(q) : q[i].src = p /\ q[i].n = n

\* The messages later than m on its topic are in one of these places.
Followed(log, m, upPipe, downPipe, done) ==
    \A n \in m.n + 1 .. Len(log[m.src]) : log[m.src][n] = m.topic =>
       Has(upPipe, m.src, n) \/ Has(downPipe, m.src, n) \/ Has(done, m.src, n)

\* The subscriptions that let a message pass are still there.
KeptInv ==
    /\ \A p \in Clients : \A i \in 1 .. Len(up[p]) : Matches(filter[p], up[p][i].topic)
    /\ \A c \in Clients : \A i \in 1 .. Len(down[c]) :
          Matches(filter[down[c][i].src], down[c][i].topic)
    /\ \A c \in Clients : \A i \in 1 .. Len(handled[c]) :
          /\ Matches(filter[handled[c][i].src], handled[c][i].topic)
          /\ Matches(xpub[c], handled[c][i].topic)

\* The pipe to the broker has no gap, nor has what is past the broker.
UpFlow == \A p \in Clients : \A i \in 1 .. Len(up[p]) :
             Followed(sent, up[p][i], up[p], <<>>, <<>>)
ClientFlow(c, q) == \A i \in 1 .. Len(q) : q[i].topic \notin Undecodable =>
                       Followed(sent, q[i], up[q[i].src], down[c], handled[c])
FlowInv == ~overflow => /\ UpFlow
                        /\ \A c \in Clients : ClientFlow(c, down[c]) /\ ClientFlow(c, handled[c])

-----------------------------------------------------------------------------
(* Places of a message in a pipe, by the operations on the pipe.           *)

LEMMA HasAppend ==
    ASSUME NEW q \in Seq(Message), NEW m \in Message
    PROVE  /\ \A p, n : Has(q, p, n) => Has(Append(q, m), p, n)
           /\ Has(Append(q, m), m.src, m.n)
<1>1. /\ Len(q) \in Nat
      /\ Len(Append(q, m)) = Len(q) + 1
      /\ \A i \in 1 .. Len(q) : Append(q, m)[i] = q[i]
      /\ Append(q, m)[Len(q) + 1] = m
  BY AppendProperties, LenProperties
<1>2. /\ Len(q) + 1 \in 1 .. Len(q) + 1
      /\ \A i \in 1 .. Len(q) : i \in 1 .. Len(q) + 1
  BY <1>1
<1> QED BY <1>1, <1>2 DEF Has

LEMMA HasTail ==
    ASSUME NEW q \in Seq(Message), q # <<>>
    PROVE  \A p, n : Has(q, p, n) =>
              Has(Tail(q), p, n) \/ (Head(q).src = p /\ Head(q).n = n)
<1>1. /\ Head(q) = q[1] /\ Len(q) \in Nat /\ Len(Tail(q)) = Len(q) - 1
      /\ \A i \in 1 .. Len(Tail(q)) : Tail(q)[i] = q[i + 1]
  BY TailType
<1> SUFFICES ASSUME NEW p, NEW n, NEW i \in 1 .. Len(q), q[i].src = p, q[i].n = n
             PROVE  Has(Tail(q), p, n) \/ (Head(q).src = p /\ Head(q).n = n)
  BY DEF Has
<1>2. CASE i = 1
  BY <1>1, <1>2
<1>3. CASE i # 1
  <2>1. i - 1 \in 1 .. Len(Tail(q)) /\ (i - 1) + 1 = i
    BY <1>1, <1>3
  <2> QED BY <1>1, <2>1 DEF Has
<1> QED BY <1>2, <1>3

LEMMA HasNothing == \A p, n : ~Has(<<>>, p, n)
BY EmptySeq DEF Has

-----------------------------------------------------------------------------
(* The invariant, action by action.                                        *)

LEMMA FlowInit == Init => KeptInv /\ FlowInv
<1> SUFFICES ASSUME Init PROVE KeptInv /\ FlowInv
  OBVIOUS
<1>1. \A c \in Clients : Len(up[c]) = 0 /\ Len(down[c]) = 0 /\ Len(handled[c]) = 0
  BY EmptySeq DEF Init
<1>2. \A i \in 1 .. 0 : FALSE
  OBVIOUS
<1> QED BY <1>1, <1>2 DEF KeptInv, FlowInv, UpFlow, ClientFlow

LEMMA FlowSubscriptions ==
    ASSUME KeptInv, FlowInv, UNCHANGED <<sent, up, down, handled, overflow>>,
           \A c \in Clients : xpub[c] \subseteq xpub'[c] /\ filter[c] \subseteq filter'[c],
           BusInv
    PROVE  KeptInv' /\ FlowInv'
<1>1. \A c \in Clients : \A t : /\ Matches(xpub[c], t) => Matches(xpub'[c], t)
                                /\ Matches(filter[c], t) => Matches(filter'[c], t)
  BY DEF Matches
<1>2. \A c \in Clients : /\ \A i \in 1 .. Len(down[c]) : down[c][i].src \in Clients
                         /\ \A i \in 1 .. Len(handled[c]) : handled[c][i].src \in Clients
  BY InPipe, MessageFields DEF BusInv
<1>3. KeptInv'
  BY <1>1, <1>2 DEF KeptInv
<1>4. FlowInv'
  BY DEF FlowInv, UpFlow, ClientFlow, Followed
<1> QED BY <1>3, <1>4

LEMMA FlowPublish ==
    ASSUME BusInv, KeptInv, FlowInv, NEW c \in Clients, NEW t \in Topics, Publish(c, t)
    PROVE  KeptInv' /\ FlowInv'
<1>0. PICK m : m = [src |-> c, topic |-> t, n |-> Len(sent[c]) + 1]
  OBVIOUS
<1>1. /\ TypeOK /\ UpInv /\ DownInv /\ HandledInv
      /\ UNCHANGED <<xpub, filter, down, handled>>
      /\ sent' = [sent EXCEPT ![c] = Append(@, t)]
  BY DEF BusInv, Publish, subscriptionVars
<1>2. /\ sent[c] \in Seq(Topics) /\ Len(sent[c]) \in Nat
      /\ up[c] \in Seq(Message) /\ sent \in [Clients -> Seq(Topics)]
      /\ up \in [Clients -> Seq(Message)]
      /\ Len(up[c]) \in Nat /\ Len(up[c]) <= Hwm /\ Hwm \in Nat
  BY <1>1, LenProperties, ConstantsAssumption DEF TypeOK
<1>3. m \in Message /\ m.src = c /\ m.topic = t /\ m.n = Len(sent[c]) + 1
  BY <1>0, <1>2 DEF Message
<1>4. /\ Len(sent'[c]) = Len(sent[c]) + 1
      /\ \A k \in 1 .. Len(sent[c]) : sent'[c][k] = sent[c][k]
      /\ \A d \in Clients : d # c => sent'[d] = sent[d]
  <2>1. sent'[c] = Append(sent[c], t)
    BY <1>1, <1>2
  <2> QED BY <1>1, <1>2, <2>1, AppendProperties
<1>5. \A p \in Clients :
         \/ up'[p] = up[p]
         \/ p = c /\ up'[p] = Append(up[p], m) /\ Matches(filter[c], t)
  BY <1>0, <1>2 DEF Publish
<1>6. \A i \in 1 .. Len(Append(up[c], m)) :
         \/ i \in 1 .. Len(up[c]) /\ Append(up[c], m)[i] = up[c][i]
         \/ i = Len(up[c]) + 1 /\ Append(up[c], m)[i] = m
  BY <1>2, <1>3, AppendOrder
<1>7. KeptInv'
  <2>1. ASSUME NEW p \in Clients, NEW i \in 1 .. Len(up'[p])
        PROVE  Matches(filter[p], up'[p][i].topic)
    <3>1. CASE up'[p] = up[p]
      BY <2>1, <3>1 DEF KeptInv
    <3>2. CASE p = c /\ up'[p] = Append(up[p], m) /\ Matches(filter[c], t)
      BY <1>3, <1>6, <2>1, <3>2 DEF KeptInv
    <3> QED BY <1>5, <3>1, <3>2
  <2> QED BY <1>1, <2>1 DEF KeptInv
<1>8. ASSUME ~overflow'
      PROVE  /\ UpFlow'
             /\ \A d \in Clients : (ClientFlow(d, down[d]) /\ ClientFlow(d, handled[d]))'
  <2>1. /\ UpFlow
        /\ \A d \in Clients : ClientFlow(d, down[d]) /\ ClientFlow(d, handled[d])
        /\ ~(Matches(filter[c], t) /\ Len(up[c]) = Hwm)
    BY <1>8 DEF FlowInv, Publish
  <2>2. Matches(filter[c], t) => up'[c] = Append(up[c], m)
    <3>1. ~(Len(up[c]) = Hwm) => Len(up[c]) < Hwm
      BY <1>2
    <3> QED BY <1>0, <1>2, <2>1, <3>1 DEF Publish
  <2>3. \A p \in Clients : \A n : Has(up[p], p, n) => Has(up'[p], p, n)
    <3> TAKE p \in Clients
    <3>1. CASE up'[p] = up[p]
      BY <3>1
    <3>2. CASE p = c /\ up'[p] = Append(up[p], m)
      BY <1>2, <1>3, <3>2, HasAppend
    <3> QED BY <1>5, <3>1, <3>2
  <2>4. Matches(filter[c], t) => Has(up'[c], c, Len(sent[c]) + 1)
    BY <1>2, <1>3, <2>2, HasAppend
  <2>5. ASSUME NEW q \in Message, Matches(filter[q.src], q.topic), NEW a, NEW b,
               Followed(sent, q, up[q.src], a, b)
        PROVE  Followed(sent', q, up'[q.src], a, b)
    <3> SUFFICES ASSUME NEW n \in q.n + 1 .. Len(sent'[q.src]), sent'[q.src][n] = q.topic,
                        ~Has(a, q.src, n), ~Has(b, q.src, n)
                 PROVE  Has(up'[q.src], q.src, n)
      BY DEF Followed
    <3>0. q.src \in Clients /\ q.n \in Nat
      BY MessageFields
    <3>1. CASE q.src = c /\ n = Len(sent[c]) + 1
      <4>1. sent'[c][n] = t
        BY <1>1, <1>2, <3>1, AppendProperties
      <4> QED BY <2>4, <2>5, <3>1, <4>1
    <3>2. CASE ~(q.src = c /\ n = Len(sent[c]) + 1)
      <4>1. n \in q.n + 1 .. Len(sent[q.src]) /\ sent[q.src][n] = q.topic
        <5>1. CASE q.src # c
          BY <1>4, <3>0, <5>1
        <5>2. CASE q.src = c
          <6>1. n \in 1 .. Len(sent[c]) /\ n \in q.n + 1 .. Len(sent[c])
            BY <1>2, <1>4, <3>0, <3>2, <5>2
          <6> QED BY <1>4, <5>2, <6>1
        <5> QED BY <5>1, <5>2
      <4> QED BY <2>3, <2>5, <3>0, <4>1 DEF Followed, Has
    <3> QED BY <3>1, <3>2
  <2>6. UpFlow'
    <3> SUFFICES ASSUME NEW p \in Clients, NEW i \in 1 .. Len(up'[p])
                 PROVE  Followed(sent', up'[p][i], up'[p], <<>>, <<>>)
      BY DEF UpFlow
    <3>1. CASE i \in 1 .. Len(up[p]) /\ up'[p][i] = up[p][i]
      <4>1. up[p][i] \in Message /\ up[p][i].src = p /\ Matches(filter[p], up[p][i].topic)
        BY <1>1, <3>1, InPipe DEF UpInv, KeptInv
      <4>2. Followed(sent, up[p][i], up[p], <<>>, <<>>)
        BY <2>1, <3>1 DEF UpFlow
      <4>3. Followed(sent', up[p][i], up'[up[p][i].src], <<>>, <<>>)
        BY <2>5, <4>1, <4>2
      <4> QED BY <3>1, <4>1, <4>3
    <3>2. CASE up'[p][i] = m
      <4>1. \A n \in m.n + 1 .. Len(sent'[m.src]) : FALSE
        BY <1>2, <1>3, <1>4
      <4>2. Followed(sent', m, up'[p], <<>>, <<>>)
        BY <4>1 DEF Followed
      <4> QED BY <3>2, <4>2
    <3>3. CASE up'[p] = up[p]
      BY <3>1, <3>3
    <3>4. CASE p = c /\ up'[p] = Append(up[p], m)
      BY <1>6, <3>1, <3>2, <3>4
    <3> QED BY <1>5, <3>3, <3>4
  <2>7. ASSUME NEW d \in Clients PROVE (ClientFlow(d, down[d]) /\ ClientFlow(d, handled[d]))'
    <3>1. /\ \A i \in 1 .. Len(down[d]) : /\ down[d][i] \in Message
                                          /\ Matches(filter[down[d][i].src], down[d][i].topic)
          /\ \A i \in 1 .. Len(handled[d]) :
                /\ handled[d][i] \in Message
                /\ Matches(filter[handled[d][i].src], handled[d][i].topic)
      BY <1>1, InPipe DEF KeptInv
    <3>2. ClientFlow(d, down[d]) /\ ClientFlow(d, handled[d])
      BY <2>1
    <3>3. ASSUME NEW i \in 1 .. Len(down[d]), down[d][i].topic \notin Undecodable
          PROVE  Followed(sent', down[d][i], up'[down[d][i].src], down[d], handled[d])
      <4>1. Followed(sent, down[d][i], up[down[d][i].src], down[d], handled[d])
        BY <3>2, <3>3 DEF ClientFlow
      <4> QED BY <2>5, <3>1, <4>1
    <3>4. ASSUME NEW i \in 1 .. Len(handled[d]), handled[d][i].topic \notin Undecodable
          PROVE  Followed(sent', handled[d][i], up'[handled[d][i].src], down[d], handled[d])
      <4>1. Followed(sent, handled[d][i], up[handled[d][i].src], down[d], handled[d])
        BY <3>2, <3>4 DEF ClientFlow
      <4> QED BY <2>5, <3>1, <4>1
    <3>5. UNCHANGED <<down, handled>>
      BY <1>1
    <3> QED BY <3>3, <3>4, <3>5 DEF ClientFlow
  <2> QED BY <2>6, <2>7
<1> QED BY <1>7, <1>8 DEF FlowInv

\* A copy of the message for every client that got an earlier one of the topic:
\* its subscription is still there, and its pipe was not full.
LEMMA FlowForward ==
    ASSUME BusInv, KeptInv, FlowInv, NEW p \in Clients, ForwardMessage(p),
           UNCHANGED <<sent, handled, xpub, filter>>
    PROVE  KeptInv' /\ FlowInv'
<1>1. TypeOK /\ UpInv /\ DownInv /\ HandledInv
  BY DEF BusInv
<1>2. PICK m : m = Head(up[p])
  OBVIOUS
<1>3. /\ up[p] \in Seq(Message) /\ up[p] # <<>> /\ up \in [Clients -> Seq(Message)]
      /\ up' = [up EXCEPT ![p] = Tail(up[p])]
      /\ down' = Distributed(m)
      /\ overflow' = (overflow \/ Overflowing(m))
  BY <1>1, <1>2 DEF TypeOK, ForwardMessage
<1>4. m \in Message /\ m = up[p][1] /\ 1 \in 1 .. Len(up[p])
  BY <1>2, <1>3, TailType
<1>5. m.src = p /\ Genuine(sent, m) /\ Matches(filter[p], m.topic)
  BY <1>1, <1>4 DEF UpInv, KeptInv
<1>6. /\ up'[p] = Tail(up[p])
      /\ \A d \in Clients : d # p => up'[d] = up[d]
  BY <1>3
<1>7. \A i \in 1 .. Len(Tail(up[p])) : i + 1 \in 1 .. Len(up[p]) /\ Tail(up[p])[i] = up[p][i + 1]
  BY <1>3, TailType
<1>8. \A j \in 1 .. Len(Tail(up[p])) : m.src = Tail(up[p])[j].src => m.n < Tail(up[p])[j].n
  BY <1>1, <1>3, <1>4, SortedTail DEF UpInv
<1>9. \A c \in Clients : \/ down'[c] = down[c]
                         \/ down'[c] = Append(down[c], m)
  BY <1>1, <1>3, <1>4, DistributedType
<1>10. \A c \in Clients : down[c] \in Seq(Message)
  BY <1>1 DEF TypeOK
<1>11. \A c \in Clients : \A i \in 1 .. Len(down'[c]) :
          \/ i \in 1 .. Len(down[c]) /\ down'[c][i] = down[c][i]
          \/ down'[c][i] = m
  <2> TAKE c \in Clients
  <2>1. CASE down'[c] = down[c]
    BY <2>1
  <2>2. CASE down'[c] = Append(down[c], m)
    BY <1>4, <1>10, <2>2, AppendOrder
  <2> QED BY <1>9, <2>1, <2>2
<1>12. \A c \in Clients : \A s, n : Has(down[c], s, n) => Has(down'[c], s, n)
  BY <1>4, <1>9, <1>10, HasAppend
<1>13. \A q \in Clients : \A s, n :
          Has(up[q], s, n) => Has(up'[q], s, n) \/ (q = p /\ m.src = s /\ m.n = n)
  BY <1>2, <1>3, <1>6, HasTail
<1>14. KeptInv'
  <2>1. ASSUME NEW q \in Clients, NEW i \in 1 .. Len(up'[q])
        PROVE  Matches(filter[q], up'[q][i].topic)
    <3>1. CASE q = p
      <4>1. i + 1 \in 1 .. Len(up[p]) /\ up'[q][i] = up[p][i + 1]
        BY <1>6, <1>7, <2>1, <3>1
      <4> QED BY <3>1, <4>1 DEF KeptInv
    <3>2. CASE q # p
      BY <1>6, <2>1, <3>2 DEF KeptInv
    <3> QED BY <3>1, <3>2
  <2>2. ASSUME NEW c \in Clients, NEW i \in 1 .. Len(down'[c])
        PROVE  Matches(filter[down'[c][i].src], down'[c][i].topic)
    BY <1>5, <1>11, <2>2 DEF KeptInv
  <2> QED BY <2>1, <2>2 DEF KeptInv
<1>15. ASSUME ~overflow'
       PROVE  /\ UpFlow'
              /\ \A c \in Clients : (ClientFlow(c, down[c]) /\ ClientFlow(c, handled[c]))'
  <2>1. /\ UpFlow
        /\ \A c \in Clients : ClientFlow(c, down[c]) /\ ClientFlow(c, handled[c])
        /\ ~Overflowing(m)
    BY <1>3, <1>15 DEF FlowInv
  <2>2. ASSUME NEW c \in Clients, Matches(xpub[c], m.topic)
        PROVE  Has(down'[c], p, m.n)
    <3>1. Len(down[c]) < Hwm
      <4>1. Len(down[c]) # Hwm
        BY <2>1, <2>2 DEF Overflowing
      <4>2. Len(down[c]) \in Nat /\ Hwm \in Nat /\ Len(down[c]) <= Hwm
        BY <1>1, LenProperties, ConstantsAssumption DEF TypeOK
      <4> QED BY <4>1, <4>2
    <3>2. down'[c] = Append(down[c], m)
      BY <1>3, <2>2, <3>1 DEF Distributed
    <3> QED BY <1>4, <1>5, <1>10, <3>2, HasAppend
  <2>3. UpFlow'
    <3> SUFFICES ASSUME NEW q \in Clients, NEW i \in 1 .. Len(up'[q])
                 PROVE  Followed(sent, up'[q][i], up'[q], <<>>, <<>>)
      BY DEF UpFlow
    <3>1. CASE q # p
      BY <1>6, <2>1, <3>1 DEF UpFlow
    <3>2. CASE q = p
      <4>1. /\ i + 1 \in 1 .. Len(up[p]) /\ up'[p][i] = up[p][i + 1]
            /\ up[p][i + 1] \in Message /\ up[p][i + 1].src = p
            /\ m.n < up[p][i + 1].n
        <5>1. i \in 1 .. Len(Tail(up[p])) /\ up'[p] = Tail(up[p])
          BY <1>6, <3>2
        <5>2. i + 1 \in 1 .. Len(up[p]) /\ up'[p][i] = up[p][i + 1]
          BY <1>7, <5>1
        <5>3. up[p][i + 1] \in Message /\ up[p][i + 1].src = p
          BY <1>1, <5>2, InPipe DEF UpInv
        <5> QED BY <1>5, <1>7, <1>8, <5>1, <5>2, <5>3
      <4>2. Followed(sent, up[p][i + 1], up[p], <<>>, <<>>)
        BY <2>1, <4>1 DEF UpFlow
      <4>3. m.n \in Nat /\ up[p][i + 1].n \in Nat
        BY <1>4, <4>1, MessageFields
      <4>4. \A n \in up[p][i + 1].n + 1 .. Len(sent[p]) : m.n # n
        BY <4>1, <4>3
      <4> QED BY SMTT(30), <1>13, <3>2, <4>1, <4>2, <4>4, HasNothing DEF Followed
    <3> QED BY <3>1, <3>2
  <2>4. ASSUME NEW c \in Clients, NEW q \in Message, Matches(xpub[c], q.topic),
               Followed(sent, q, up[q.src], down[c], handled[c])
        PROVE  Followed(sent, q, up'[q.src], down'[c], handled[c])
    <3> SUFFICES ASSUME NEW n \in q.n + 1 .. Len(sent[q.src]), sent[q.src][n] = q.topic
                 PROVE  \/ Has(up'[q.src], q.src, n) \/ Has(down'[c], q.src, n)
                        \/ Has(handled[c], q.src, n)
      BY DEF Followed
    <3>1. \/ Has(up[q.src], q.src, n) \/ Has(down[c], q.src, n) \/ Has(handled[c], q.src, n)
      BY <2>4 DEF Followed
    <3>2. CASE Has(up[q.src], q.src, n)
      <4>1. q.src \in Clients
        BY MessageFields
      <4>2. CASE q.src = p /\ m.n = n
        BY <1>5, <2>2, <2>4, <4>2 DEF Genuine
      <4> QED BY <1>13, <3>2, <4>1, <4>2
    <3> QED BY <1>12, <3>1, <3>2
  <2>5. ASSUME NEW c \in Clients PROVE ClientFlow(c, down[c])'
    <3> SUFFICES ASSUME NEW i \in 1 .. Len(down'[c]), down'[c][i].topic \notin Undecodable
                 PROVE  Followed(sent, down'[c][i], up'[down'[c][i].src], down'[c], handled[c])
      BY DEF ClientFlow
    <3>1. CASE i \in 1 .. Len(down[c]) /\ down'[c][i] = down[c][i]
      <4>1. down[c][i] \in Message /\ Matches(xpub[c], down[c][i].topic)
        BY <1>1, <3>1, InPipe DEF DownInv
      <4>2. Followed(sent, down[c][i], up[down[c][i].src], down[c], handled[c])
        BY <2>1, <3>1 DEF ClientFlow
      <4> QED BY <2>4, <3>1, <4>1, <4>2
    <3>2. CASE down'[c][i] = m
      <4>1. Followed(sent, m, up[p], <<>>, <<>>)
        BY <1>4, <2>1 DEF UpFlow
      <4>2. m.n \in Nat
        BY <1>4, MessageFields
      <4>3. \A n \in m.n + 1 .. Len(sent[p]) : m.n # n
        BY <4>2
      <4>4. ASSUME NEW n \in m.n + 1 .. Len(sent[p]), sent[p][n] = m.topic
            PROVE  Has(up'[p], p, n)
        BY <1>5, <1>13, <4>1, <4>3, <4>4, HasNothing DEF Followed
      <4> QED BY <1>5, <3>2, <4>4 DEF Followed
    <3> QED BY <1>11, <3>1, <3>2
  <2>6. ASSUME NEW c \in Clients PROVE ClientFlow(c, handled[c])'
    <3> SUFFICES ASSUME NEW i \in 1 .. Len(handled[c]), handled[c][i].topic \notin Undecodable
                 PROVE  Followed(sent, handled[c][i], up'[handled[c][i].src], down'[c], handled[c])
      BY DEF ClientFlow
    <3>1. handled[c][i] \in Message /\ Matches(xpub[c], handled[c][i].topic)
      BY <1>1, InPipe DEF KeptInv
    <3>2. Followed(sent, handled[c][i], up[handled[c][i].src], down[c], handled[c])
      BY <2>1 DEF ClientFlow
    <3> QED BY <2>4, <3>1, <3>2
  <2> QED BY <2>3, <2>5, <2>6
<1> QED BY <1>14, <1>15 DEF FlowInv

LEMMA FlowReceive ==
    ASSUME BusInv, KeptInv, FlowInv, NEW c \in Clients, Receive(c)
    PROVE  KeptInv' /\ FlowInv'
<1>1. /\ TypeOK /\ UpInv /\ DownInv /\ HandledInv
      /\ UNCHANGED <<sent, up, xpub, filter, overflow>>
  BY DEF BusInv, Receive, subscriptionVars
<1>2. PICK m : m = Head(down[c])
  OBVIOUS
<1>3. /\ down[c] \in Seq(Message) /\ down[c] # <<>> /\ down \in [Clients -> Seq(Message)]
      /\ handled[c] \in Seq(Message) /\ handled \in [Clients -> Seq(Message)]
      /\ down' = [down EXCEPT ![c] = Tail(down[c])]
      /\ \/ m.topic \in Undecodable /\ handled' = handled
         \/ m.topic \notin Undecodable /\ handled' = [handled EXCEPT ![c] = Append(handled[c], m)]
  BY <1>1, <1>2 DEF TypeOK, Receive
<1>4. m \in Message /\ m = down[c][1] /\ 1 \in 1 .. Len(down[c])
  BY <1>2, <1>3, TailType
<1>5. /\ Genuine(sent, m) /\ Matches(xpub[c], m.topic) /\ Matches(filter[m.src], m.topic)
  BY <1>1, <1>4 DEF DownInv, KeptInv
<1>6. \A d \in Clients : d # c => down'[d] = down[d] /\ handled'[d] = handled[d]
  BY <1>3
<1>7. down'[c] = Tail(down[c]) /\ (handled'[c] = handled[c] \/ handled'[c] = Append(handled[c], m))
  BY <1>3
<1>8. \A i \in 1 .. Len(down'[c]) : i + 1 \in 1 .. Len(down[c]) /\ down'[c][i] = down[c][i + 1]
  BY <1>3, <1>7, TailType
<1>9. \A i \in 1 .. Len(handled'[c]) :
         \/ i \in 1 .. Len(handled[c]) /\ handled'[c][i] = handled[c][i]
         \/ handled'[c][i] = m /\ m.topic \notin Undecodable
  <2>1. CASE handled'[c] = handled[c]
    BY <2>1
  <2>2. CASE handled'[c] = Append(handled[c], m) /\ m.topic \notin Undecodable
    BY <1>3, <1>4, <2>2, AppendOrder
  <2> QED BY <1>3, <2>1, <2>2
<1>10. \A s, n : Has(handled[c], s, n) => Has(handled'[c], s, n)
  <2>1. CASE handled'[c] = handled[c]
    BY <2>1
  <2>2. CASE handled'[c] = Append(handled[c], m)
    BY <1>3, <1>4, <2>2, HasAppend
  <2> QED BY <1>7, <2>1, <2>2
<1>11. \A s, n : Has(down[c], s, n) =>
          \/ Has(down'[c], s, n)
          \/ m.src = s /\ m.n = n /\ (m.topic \in Undecodable \/ Has(handled'[c], s, n))
  <2>1. \A s, n : Has(down[c], s, n) => Has(down'[c], s, n) \/ (m.src = s /\ m.n = n)
    BY <1>2, <1>3, <1>7, HasTail
  <2>2. m.topic \notin Undecodable => handled'[c] = Append(handled[c], m)
    BY <1>3
  <2>3. m.topic \notin Undecodable => Has(handled'[c], m.src, m.n)
    BY <1>3, <1>4, <2>2, HasAppend
  <2> QED BY <2>1, <2>3
<1>12. KeptInv'
  <2>1. ASSUME NEW d \in Clients, NEW i \in 1 .. Len(down'[d])
        PROVE  Matches(filter[down'[d][i].src], down'[d][i].topic)
    BY <1>6, <1>8, <2>1 DEF KeptInv
  <2>2. ASSUME NEW d \in Clients, NEW i \in 1 .. Len(handled'[d])
        PROVE  /\ Matches(filter[handled'[d][i].src], handled'[d][i].topic)
               /\ Matches(xpub[d], handled'[d][i].topic)
    BY <1>5, <1>6, <1>9, <2>2 DEF KeptInv
  <2> QED BY <1>1, <2>1, <2>2 DEF KeptInv
<1>13. ASSUME ~overflow'
       PROVE  /\ UpFlow'
              /\ \A d \in Clients : (ClientFlow(d, down[d]) /\ ClientFlow(d, handled[d]))'
  <2>1. /\ UpFlow
        /\ \A d \in Clients : ClientFlow(d, down[d]) /\ ClientFlow(d, handled[d])
    BY <1>1, <1>13 DEF FlowInv
  <2>2. UpFlow'
    BY <1>1, <2>1 DEF UpFlow
  <2>3. ASSUME NEW q, q.topic \notin Undecodable,
               Followed(sent, q, up[q.src], down[c], handled[c])
        PROVE  Followed(sent, q, up[q.src], down'[c], handled'[c])
    <3> SUFFICES ASSUME NEW n \in q.n + 1 .. Len(sent[q.src]), sent[q.src][n] = q.topic
                 PROVE  \/ Has(up[q.src], q.src, n) \/ Has(down'[c], q.src, n)
                        \/ Has(handled'[c], q.src, n)
      BY DEF Followed
    <3>1. \/ Has(up[q.src], q.src, n) \/ Has(down[c], q.src, n) \/ Has(handled[c], q.src, n)
      BY <2>3 DEF Followed
    <3>2. m.src = q.src /\ m.n = n => m.topic \notin Undecodable
      BY <1>5, <2>3 DEF Genuine
    <3> QED BY <1>10, <1>11, <3>1, <3>2
  <2>4. ASSUME NEW i \in 1 .. Len(down[c]), down[c][i].topic \notin Undecodable
        PROVE  Followed(sent, down[c][i], up[down[c][i].src], down'[c], handled'[c])
    BY <2>1, <2>3, <2>4 DEF ClientFlow
  <2>5. ASSUME NEW i \in 1 .. Len(handled[c]), handled[c][i].topic \notin Undecodable
        PROVE  Followed(sent, handled[c][i], up[handled[c][i].src], down'[c], handled'[c])
    BY <2>1, <2>3, <2>5 DEF ClientFlow
  <2>6. ASSUME NEW d \in Clients
        PROVE  /\ \A i \in 1 .. Len(down'[d]) : down'[d][i].topic \notin Undecodable =>
                     Followed(sent, down'[d][i], up[down'[d][i].src], down'[d], handled'[d])
               /\ \A i \in 1 .. Len(handled'[d]) : handled'[d][i].topic \notin Undecodable =>
                     Followed(sent, handled'[d][i], up[handled'[d][i].src], down'[d], handled'[d])
    <3>1. CASE d # c
      BY <1>6, <2>1, <3>1 DEF ClientFlow
    <3>2. CASE d = c
      BY <1>4, <1>8, <1>9, <2>4, <2>5, <3>2
    <3> QED BY <3>1, <3>2
  <2> QED BY <1>1, <2>2, <2>6 DEF ClientFlow
<1> QED BY <1>12, <1>13 DEF FlowInv

LEMMA FlowStep == BusInv /\ KeptInv /\ FlowInv /\ [Next]_vars => KeptInv' /\ FlowInv'
<1> SUFFICES ASSUME BusInv, KeptInv, FlowInv, [Next]_vars PROVE KeptInv' /\ FlowInv'
  OBVIOUS
<1>1. TypeOK
  BY DEF BusInv
<1>2. CASE SubscribeAll
  BY <1>2, FlowSubscriptions DEF SubscribeAll
<1>3. ASSUME NEW c \in Clients, NEW t \in Topics, SubscribeLate(c, t)
      PROVE  KeptInv' /\ FlowInv'
  BY <1>3, FlowSubscriptions DEF SubscribeLate
<1>4. ASSUME NEW c \in Clients, NEW t \in Topics, XpubReads(c, t)
      PROVE  KeptInv' /\ FlowInv'
  <2>1. \A d \in Clients : xpub[d] \subseteq xpub'[d]
    BY <1>1, <1>4 DEF XpubReads, TypeOK
  <2> QED BY <1>4, <2>1, FlowSubscriptions DEF XpubReads
<1>5. ASSUME NEW c \in Clients, NEW t \in Topics, PubLearns(c, t)
      PROVE  KeptInv' /\ FlowInv'
  <2>1. \A d \in Clients : filter[d] \subseteq filter'[d]
    BY <1>1, <1>5 DEF PubLearns, TypeOK
  <2> QED BY <1>5, <2>1, FlowSubscriptions DEF PubLearns
<1>6. ASSUME NEW c \in Clients, NEW t \in Topics, Publish(c, t)
      PROVE  KeptInv' /\ FlowInv'
  BY <1>6, FlowPublish
<1>7. CASE LoopTurn
  <2>1. UNCHANGED <<sent, handled, xpub, filter>>
    BY <1>7 DEF LoopTurn
  <2>2. CASE UNCHANGED <<up, down, overflow>>
    BY <2>1, <2>2, FlowSubscriptions
  <2> QED BY <1>7, <2>1, <2>2, FlowForward DEF LoopTurn
<1>8. ASSUME NEW c \in Clients, Receive(c)
      PROVE  KeptInv' /\ FlowInv'
  BY <1>8, FlowReceive
<1>9. CASE UNCHANGED vars
  BY <1>9, FlowSubscriptions DEF vars
<1> QED BY <1>2, <1>3, <1>4, <1>5, <1>6, <1>7, <1>8, <1>9 DEF Next

\* What is in the concatenation of two queues is in one of them.
LEMMA InConcat ==
    ASSUME NEW a \in Seq(Message), NEW b \in Seq(Message)
    PROVE  MessagesOf(a \o b) = MessagesOf(a) \cup MessagesOf(b)
<1>1. /\ Len(a) \in Nat /\ Len(b) \in Nat
      /\ Len(a \o b) = Len(a) + Len(b)
      /\ \A i \in 1 .. Len(a) + Len(b) :
            (a \o b)[i] = IF i <= Len(a) THEN a[i] ELSE b[i - Len(a)]
  BY ConcatProperties, LenProperties
<1>2. \A i \in 1 .. Len(a) : i \in 1 .. Len(a) + Len(b) /\ (a \o b)[i] = a[i]
  BY <1>1
<1>3. \A i \in 1 .. Len(b) : i + Len(a) \in 1 .. Len(a) + Len(b) /\ (a \o b)[i + Len(a)] = b[i]
  <2> TAKE i \in 1 .. Len(b)
  <2>1. /\ i + Len(a) \in 1 .. Len(a) + Len(b)
        /\ ~(i + Len(a) <= Len(a))
        /\ (i + Len(a)) - Len(a) = i
    BY <1>1
  <2> QED BY <1>1, <2>1
<1>4. \A i \in 1 .. Len(a) + Len(b) :
         \/ i \in 1 .. Len(a) /\ (a \o b)[i] = a[i]
         \/ i - Len(a) \in 1 .. Len(b) /\ (a \o b)[i] = b[i - Len(a)]
  BY <1>1
<1>5. ASSUME NEW x PROVE x \in MessagesOf(a \o b) <=> x \in MessagesOf(a) \cup MessagesOf(b)
  <2>1. ASSUME NEW i \in 1 .. Len(a) + Len(b), x = (a \o b)[i]
        PROVE  x \in MessagesOf(a) \cup MessagesOf(b)
    BY <1>4, <2>1 DEF MessagesOf
  <2>2. ASSUME NEW i \in 1 .. Len(a), x = a[i]
        PROVE  x \in MessagesOf(a \o b)
    BY <1>1, <1>2, <2>2 DEF MessagesOf
  <2>3. ASSUME NEW i \in 1 .. Len(b), x = b[i]
        PROVE  x \in MessagesOf(a \o b)
    BY <1>1, <1>3, <2>3 DEF MessagesOf
  <2> QED BY <1>1, <2>1, <2>2, <2>3 DEF MessagesOf
<1> QED BY <1>5

LEMMA FlowMeansNoGaps == TypeOK /\ KeptInv /\ FlowInv => NoGapsOnceFlowing
<1> SUFFICES ASSUME TypeOK, FlowInv, ~overflow,
                    NEW c \in Clients, NEW p \in Clients, NEW t \in TopicsOf[p] \ Undecodable,
                    NEW m \in ReachedClient(c, p, t),
                    NEW j \in m.n + 1 .. Len(sent[p]), sent[p][j] = t
             PROVE  \E q \in MessagesOf(up[p] \o down[c] \o handled[c]) : q.src = p /\ q.n = j
  BY DEF NoGapsOnceFlowing
<1>1. up[p] \in Seq(Message) /\ down[c] \in Seq(Message) /\ handled[c] \in Seq(Message)
  BY DEF TypeOK
<1>2. /\ MessagesOf(down[c] \o handled[c]) = MessagesOf(down[c]) \cup MessagesOf(handled[c])
      /\ MessagesOf(up[p] \o down[c] \o handled[c])
           = MessagesOf(up[p]) \cup MessagesOf(down[c]) \cup MessagesOf(handled[c])
  <2>1. up[p] \o down[c] \in Seq(Message)
    BY <1>1, ConcatProperties
  <2> QED BY <1>1, <2>1, InConcat
<1>3. /\ m.src = p /\ m.topic = t /\ t \notin Undecodable
      /\ m \in MessagesOf(down[c]) \/ m \in MessagesOf(handled[c])
  BY <1>2 DEF ReachedClient
<1>4. Followed(sent, m, up[p], down[c], handled[c])
  BY <1>3 DEF FlowInv, ClientFlow, MessagesOf
<1>5. Has(up[p], p, j) \/ Has(down[c], p, j) \/ Has(handled[c], p, j)
  BY <1>3, <1>4 DEF Followed
<1> QED BY <1>2, <1>5 DEF Has, MessagesOf

\* Start-up is the only time messages are lost, in every interleaving of the
\* subscriptions with the messages and for every wiring: a client that got one
\* message of a publisher on a topic gets all the later ones, unless a pipe was
\* full or the topic is one decode_message fails on.
THEOREM NothingLostOnceFlowing == Spec => []NoGapsOnceFlowing
<1>1. Init => BusInv /\ KeptInv /\ FlowInv
  BY InvInit, FlowInit
<1>2. BusInv /\ KeptInv /\ FlowInv /\ [Next]_vars => (BusInv /\ KeptInv /\ FlowInv)'
  BY InvStep, FlowStep
<1>3. BusInv /\ KeptInv /\ FlowInv => NoGapsOnceFlowing
  BY FlowMeansNoGaps DEF BusInv
<1> QED BY <1>1, <1>2, <1>3, PTL DEF Spec
=============================================================================
