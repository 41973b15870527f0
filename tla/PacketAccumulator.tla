-------------------------- MODULE PacketAccumulator --------------------------
(***************************************************************************)
(* server/plugins/PacketAccumulator.py: packets are queued and published   *)
(* as one payload, when a timer fires or when the next one would exceed a  *)
(* size.  Publishing does not wait, so process() and emit() are atomic.    *)
(* Payloads are joined with +=, which raises if their types differ.        *)
(***************************************************************************)
EXTENDS Integers, Sequences, Functions

CONSTANTS Sizes,           \* lengths of packets
          PayloadTypes,    \* Python types of what publishers send
          MaxSize,         \* max_size_octets
          MaxProcessed     \* bound: packets

ASSUME AccumulatorAssumption ==
    /\ Sizes \subseteq Nat
    /\ PayloadTypes # {}
    /\ MaxSize \in Nat \ {0}
    /\ MaxProcessed \in Nat

VARIABLES processed,   \* what process() was called with
          queued,      \* packet_queue, as numbers of packets
          queuedSize,  \* size_packet_queue_octets
          emitted,     \* the payloads published
          lost,        \* packets in hand when an emit() raised
          ticking,     \* the greenlet of periodic_check lives
          receiving    \* the plugin's own greenlet lives

accumulatorVars == <<processed, queued, queuedSize, emitted, lost, ticking, receiving>>

AccumulatorInit == /\ processed = <<>>
                   /\ queued = <<>>
                   /\ queuedSize = 0
                   /\ emitted = <<>>
                   /\ lost = {}
                   /\ ticking = TRUE
                   /\ receiving = TRUE

-----------------------------------------------------------------------------
Joins(q) == \A i, j \in DOMAIN q : processed[q[i]].type = processed[q[j]].type

\* process() for a packet that fits.
Accumulate(p) ==
    /\ receiving
    /\ Len(processed) < MaxProcessed
    /\ queuedSize + p.size <= MaxSize
    /\ processed' = Append(processed, p)
    /\ queued' = Append(queued, Len(processed'))
    /\ queuedSize' = queuedSize + p.size
    /\ UNCHANGED <<emitted, lost, ticking, receiving>>

\* mutated: the size counts on from what it was
EmitThenAddOnto(p) ==
    /\ receiving
    /\ Len(processed) < MaxProcessed
    /\ queuedSize + p.size > MaxSize
    /\ Joins(queued)
    /\ emitted' = IF queued = <<>> THEN emitted ELSE Append(emitted, queued)
    /\ processed' = Append(processed, p)
    /\ queued' = <<Len(processed')>>
    /\ queuedSize' = queuedSize + p.size
    /\ UNCHANGED <<lost, ticking, receiving>>

\* process() for a packet that does not fit: what is queued is published first.
EmitThenAdd(p) ==
    /\ receiving
    /\ Len(processed) < MaxProcessed
    /\ queuedSize + p.size > MaxSize
    /\ Joins(queued)
    /\ emitted' = IF queued = <<>> THEN emitted ELSE Append(emitted, queued)
    /\ processed' = Append(processed, p)
    /\ queued' = <<Len(processed')>>
    /\ queuedSize' = IF queued = <<>> THEN queuedSize + p.size ELSE p.size
    /\ UNCHANGED <<lost, ticking, receiving>>

\* emit() has popped a packet when += raises; nothing else of it happens, and
\* the greenlet that called it ends.
EmitRaises == /\ ~Joins(queued)
              /\ queued' = Tail(queued)
              /\ UNCHANGED <<queuedSize, emitted>>

AddRaises(p) ==
    /\ receiving
    /\ Len(processed) < MaxProcessed
    /\ queuedSize + p.size > MaxSize
    /\ EmitRaises
    /\ processed' = Append(processed, p)
    /\ lost' = lost \cup {Head(queued), Len(processed')}
    /\ receiving' = FALSE
    /\ UNCHANGED ticking

TimerEmits == /\ ticking
              /\ queued # <<>>
              /\ Joins(queued)
              /\ emitted' = Append(emitted, queued)
              /\ queued' = <<>>
              /\ queuedSize' = 0
              /\ UNCHANGED <<processed, lost, ticking, receiving>>

TimerRaises == /\ ticking
               /\ EmitRaises
               /\ lost' = lost \cup {Head(queued)}
               /\ ticking' = FALSE
               /\ UNCHANGED <<processed, receiving>>

AccumulatorNext ==
    \/ \E p \in [size : Sizes, type : PayloadTypes] :
          Accumulate(p) \/ EmitThenAdd(p) \/ AddRaises(p)
    \/ TimerEmits
    \/ TimerRaises

AccumulatorSpec == AccumulatorInit /\ [][AccumulatorNext]_accumulatorVars

-----------------------------------------------------------------------------
AccumulatorTypes == /\ processed \in Seq([size : Sizes, type : PayloadTypes])
                    /\ queued \in Seq(1 .. MaxProcessed)
                    /\ queuedSize \in Nat
                    /\ emitted \in Seq(Seq(1 .. MaxProcessed))
                    /\ lost \subseteq 1 .. MaxProcessed
                    /\ ticking \in BOOLEAN
                    /\ receiving \in BOOLEAN

Total(sizes) == LET total[i \in 0 .. Len(sizes)] == IF i = 0 THEN 0 ELSE total[i - 1] + sizes[i]
                IN  total[Len(sizes)]

SizeOf(q) == Total([i \in DOMAIN q |-> processed[q[i]].size])

Rising(q) == \A i, j \in DOMAIN q : i < j => q[i] < q[j]

\* What was published, and what will be next.
Payloads == Append(emitted, queued)

\* What was processed is published once and in order, or still queued, but for
\* packets in hand when types did not join; the size the queue is judged by is
\* its own, and a payload of several packets is not larger than asked
\* (PacketAccumulator.py 39-60).
AccumulatesOnce ==
    /\ \A i \in DOMAIN Payloads : Rising(Payloads[i])
    /\ \A i, j \in DOMAIN Payloads : \A m \in Range(Payloads[i]), n \in Range(Payloads[j]) :
          i < j => m < n
    /\ UNION {Range(Payloads[i]) : i \in DOMAIN Payloads} = DOMAIN processed \ lost
    /\ queuedSize >= SizeOf(queued)
    /\ lost = {} => queuedSize = SizeOf(queued)
    /\ \A i \in DOMAIN emitted : Len(emitted[i]) > 1 => SizeOf(emitted[i]) <= MaxSize
=============================================================================
