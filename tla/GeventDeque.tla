---------------------------- MODULE GeventDeque ----------------------------
(***************************************************************************)
(* ait/core/api.py, class GeventDeque: a collections.deque shared by the   *)
(* greenlets of one process, with a gevent Event, notEmpty, on which pop() *)
(* and popleft() block.                                                    *)
(*                                                                         *)
(* Greenlets are cooperative: a method runs from its call to its return,   *)
(* or to the wait() it parks in, without interleaving, so each is one      *)
(* action.  The Event is external: set() schedules one callback of the hub *)
(* (notifier), which switches to the greenlets parked when it starts, one  *)
(* after the other; timers cannot run inside it, and on leaving it the     *)
(* Event looks once more whether it is set and somebody is parked.         *)
(***************************************************************************)
EXTENDS Naturals, Sequences

CONSTANTS Greenlets,   \* the greenlets that share the deque
          MaxLen,      \* maxlen; a bound never reached stands for None
          MaxItems     \* bound: how many items are ever inserted

ASSUME MaxLenAssumption == MaxLen \in Nat \ {0}
ASSUME MaxItemsAssumption == MaxItems \in Nat

VARIABLES deque,     \* _deque; items are numbered in the order of insertion
          notEmpty,  \* the flag of the Event
          notifier,  \* the Event's hub callback is scheduled
          status,    \* where each greenlet is
          left,      \* the end a blocked pop takes from
          timed,     \* a blocked pop was given a timeout
          produced,  \* how many items were inserted so far
          got,       \* every item returned by a pop, in the order of return
          uses       \* history: which part of the interface was called so far

vars == <<deque, notEmpty, notifier, status, left, timed, produced, got, uses>>

\* "parked": linked to the Event; "woken": the running callback still has to
\* switch to it; "spinning": in the loop of _pop, which then never yields.
Status == {"running", "parked", "woken", "spinning"}

\* "queue": only what keeps a queue in order; "removes": also remove()
Uses == {"queue", "deque", "removes"}

Items == 1 .. MaxItems

Init == /\ deque = <<>>
        /\ notEmpty = FALSE
        /\ notifier = FALSE
        /\ status = [g \in Greenlets |-> "running"]
        /\ left = [g \in Greenlets |-> FALSE]
        /\ timed = [g \in Greenlets |-> FALSE]
        /\ produced = 0
        /\ got = <<>>
        /\ uses = "queue"

-----------------------------------------------------------------------------
(* What collections.deque does with a maxlen: it keeps the end it adds to. *)

KeepRight(d) == IF Len(d) > MaxLen
                THEN SubSeq(d, Len(d) - MaxLen + 1, Len(d)) ELSE d
KeepLeft(d) == IF Len(d) > MaxLen THEN SubSeq(d, 1, MaxLen) ELSE d

Backward(d) == [i \in 1 .. Len(d) |-> d[Len(d) + 1 - i]]

\* rotate(1): the last item becomes the first
RotateRight(d) == [i \in 1 .. Len(d) |-> d[IF i = 1 THEN Len(d) ELSE i - 1]]

\* The next n items, numbered on from produced.
Fresh(n) == [i \in 1 .. n |-> produced + i]

WithoutIndex(d, k) == SubSeq(d, 1, k - 1) \o SubSeq(d, k + 1, Len(d))

-----------------------------------------------------------------------------
(* The Event.                                                              *)

Parked == {g \in Greenlets : status[g] = "parked"}
Woken == {g \in Greenlets : status[g] = "woken"}

\* Greenlet g can run: it is not blocked and nobody spins, which would keep
\* the only thread of the process for ever.
Runs(g) == /\ status[g] = "running"
           /\ \A h \in Greenlets : status[h] # "spinning"

SetEvent == /\ notEmpty' = TRUE
            /\ notifier' = (notifier \/ (Parked # {} /\ Woken = {}))

\* The hub runs the scheduled callback: everybody parked is to be switched to.
Notify == /\ notifier
          /\ Woken = {}
          /\ \A g \in Greenlets : status[g] # "spinning"
          /\ notifier' = FALSE
          /\ status' = [g \in Greenlets |->
                          IF status[g] = "parked" THEN "woken" ELSE status[g]]
          /\ UNCHANGED <<deque, notEmpty, left, timed, produced, got, uses>>

-----------------------------------------------------------------------------
(* Operations that never block.                                            *)

\* An operation was called that a queue has no use for.
MarkDeque == uses' = IF uses = "queue" THEN "deque" ELSE uses

Insert(g, d, n) == /\ Runs(g)
                   /\ produced + n <= MaxItems
                   /\ deque' = d
                   /\ produced' = produced + n
                   /\ IF d = <<>> THEN UNCHANGED <<notEmpty, notifier>>
                                  ELSE SetEvent
                   /\ UNCHANGED <<status, left, timed, got>>

AppendRight(g) == Insert(g, KeepRight(deque \o Fresh(1)), 1) /\ UNCHANGED uses
AppendLeft(g) == Insert(g, KeepLeft(Fresh(1) \o deque), 1) /\ MarkDeque

\* mutated: the waiting pops are not told
ExtendSilent(g, n) == /\ Runs(g)
                      /\ produced + n <= MaxItems
                      /\ deque' = KeepRight(deque \o Fresh(n))
                      /\ produced' = produced + n
                      /\ UNCHANGED <<notEmpty, notifier, status, left, timed,
                                     got, uses>>

\* extend and extendleft, with an iterable of n items
Extend(g, n) == Insert(g, KeepRight(deque \o Fresh(n)), n) /\ UNCHANGED uses
ExtendLeft(g, n) == /\ Insert(g, KeepLeft(Backward(Fresh(n)) \o deque), n)
                    /\ MarkDeque

\* mutated: the Event stays set
ClearSilent(g) == /\ Runs(g)
                  /\ deque' = <<>>
                  /\ UNCHANGED <<notEmpty, notifier, status, left, timed,
                                 produced, got, uses>>

Clear(g) == /\ Runs(g)
            /\ deque' = <<>>
            /\ notEmpty' = FALSE
            /\ UNCHANGED <<notifier, status, left, timed, produced, got, uses>>

Reorder(g, d) == /\ Runs(g)
                 /\ deque' = d
                 /\ MarkDeque
                 /\ UNCHANGED <<notEmpty, notifier, status, left, timed,
                                produced, got>>

Reverse(g) == Reorder(g, Backward(deque))
Rotate(g) == Reorder(g, RotateRight(deque))

\* remove(item) of an item that is present; it leaves the Event alone
Remove(g, k) == /\ Runs(g)
                /\ k \in 1 .. Len(deque)
                /\ deque' = WithoutIndex(deque, k)
                /\ uses' = "removes"
                /\ UNCHANGED <<notEmpty, notifier, status, left, timed,
                               produced, got>>

-----------------------------------------------------------------------------
(* pop() and popleft().                                                    *)

\* mutated: returns one end and removes the other
TakeCrossed(isLeft) ==
    /\ deque # <<>>
    /\ deque' = IF isLeft THEN SubSeq(deque, 1, Len(deque) - 1) ELSE Tail(deque)
    /\ got' = Append(got, IF isLeft THEN deque[1] ELSE deque[Len(deque)])
    /\ notEmpty' = (notEmpty /\ Len(deque) > 1)

\* Take an item from one end and clear the Event when it was the last.
Take(isLeft) ==
    /\ deque # <<>>
    /\ deque' = IF isLeft THEN Tail(deque) ELSE SubSeq(deque, 1, Len(deque) - 1)
    /\ got' = Append(got, IF isLeft THEN deque[1] ELSE deque[Len(deque)])
    /\ notEmpty' = (notEmpty /\ Len(deque) > 1)

MarkPop(isLeft) == IF isLeft THEN UNCHANGED uses ELSE MarkDeque

\* block=False; an empty deque raises IndexError and changes nothing
PopNow(g, isLeft) == /\ Runs(g)
                     /\ Take(isLeft)
                     /\ MarkPop(isLeft)
                     /\ UNCHANGED <<notifier, status, left, timed, produced>>

\* block=True: wait() returns at once when the Event is set; the loop then
\* takes an item, or comes straight back to wait() for ever.
PopBlock(g, isLeft, hasTimeout) ==
    /\ Runs(g)
    /\ left' = [left EXCEPT ![g] = isLeft]
    /\ timed' = [timed EXCEPT ![g] = hasTimeout]
    /\ MarkPop(isLeft)
    /\ \/ /\ ~notEmpty
          /\ status' = [status EXCEPT ![g] = "parked"]
          /\ UNCHANGED <<deque, notEmpty, got>>
       \/ /\ notEmpty
          /\ Take(isLeft)
          /\ UNCHANGED status
       \/ /\ notEmpty
          /\ deque = <<>>
          /\ status' = [status EXCEPT ![g] = "spinning"]
          /\ UNCHANGED <<deque, notEmpty, got>>
    /\ UNCHANGED <<notifier, produced>>

\* The callback switches to g, which runs the loop of _pop again.
Wake(g) ==
    /\ status[g] = "woken"
    /\ \A h \in Greenlets : status[h] # "spinning"
    /\ \/ /\ Take(left[g])
          /\ status' = [status EXCEPT ![g] = "running"]
       \/ /\ deque = <<>>
          /\ status' = [status EXCEPT ![g] = IF notEmpty THEN "spinning"
                                                         ELSE "parked"]
          /\ UNCHANGED <<deque, notEmpty, got>>
    /\ notifier' = (notifier \/ (/\ Woken = {g}
                                 /\ notEmpty'
                                 /\ \E h \in Greenlets : status'[h] = "parked"))
    /\ UNCHANGED <<left, timed, produced, uses>>

\* mutated: the exception of the timer is caught inside the loop
TimerSwallowed(g) == /\ status[g] = "parked"
                     /\ timed[g]
                     /\ Woken = {}
                     /\ UNCHANGED vars

\* The timeout of a parked pop: IndexError is thrown into wait().
TimerFires(g) ==
    /\ status[g] = "parked"
    /\ timed[g]
    /\ Woken = {}
    /\ \A h \in Greenlets : status[h] # "spinning"
    /\ status' = [status EXCEPT ![g] = "running"]
    /\ UNCHANGED <<deque, notEmpty, notifier, left, timed, produced, got, uses>>

\* wait() returns at once, the deque is empty, the loop goes round.
Spin(g) == /\ status[g] = "spinning"
           /\ UNCHANGED vars

-----------------------------------------------------------------------------
Pops == \/ Notify
        \/ \E g \in Greenlets :
              \/ \E isLeft \in BOOLEAN : PopNow(g, isLeft)
              \/ \E isLeft, hasTimeout \in BOOLEAN : PopBlock(g, isLeft, hasTimeout)
              \/ Wake(g)
              \/ TimerFires(g)
              \/ Spin(g)

Inserts == \E g \in Greenlets :
              \/ AppendRight(g)
              \/ AppendLeft(g)
              \/ \E n \in 0 .. MaxItems : Extend(g, n) \/ ExtendLeft(g, n)

Changes == \E g \in Greenlets : Clear(g) \/ Reverse(g) \/ Rotate(g)

Removes == \E g \in Greenlets : \E k \in 1 .. MaxItems : Remove(g, k)

Next == Pops \/ Inserts \/ Changes \/ Removes

\* A hub that keeps running callbacks and timers (gevent's loop does).
Fairness == /\ WF_vars(Notify)
            /\ \A g \in Greenlets : WF_vars(Wake(g)) /\ WF_vars(TimerFires(g))

Spec == Init /\ [][Next]_vars /\ Fairness

-----------------------------------------------------------------------------
TypeOK == /\ deque \in Seq(Items)
          /\ Len(deque) <= MaxLen
          /\ notEmpty \in BOOLEAN
          /\ notifier \in BOOLEAN
          /\ status \in [Greenlets -> Status]
          /\ left \in [Greenlets -> BOOLEAN]
          /\ timed \in [Greenlets -> BOOLEAN]
          /\ produced \in 0 .. MaxItems
          /\ got \in Seq(Items)
          /\ uses \in Uses

\* No lost wake-up: when an item is in the deque and a pop is asleep, a
\* callback that will wake it is scheduled or running (api.py 345, 387, 465).
NoLostWakeup == deque # <<>> /\ Parked # {} => notifier \/ Woken # {}

\* The loop of _pop (344-348) never turns without yielding: it would keep every
\* greenlet of the process, and its own timer, from ever running again.  So it
\* is as long as remove() (459-467), which leaves the Event set, is not called.
NeverSpins == uses # "removes" => \A g \in Greenlets : status[g] # "spinning"

\* "If timeout is a positive number, it blocks at most timeout seconds" (435,
\* 450): a pop with a timeout is never in a loop that its timer cannot end.
TimedPopCanEnd == \A g \in Greenlets : ~(timed[g] /\ status[g] = "spinning")

\* No item is returned by two pops, nor returned and still queued, whatever
\* pops, timeouts and reorderings interleave.
ReturnedOnce ==
    /\ \A i, j \in 1 .. Len(got) : i # j => got[i] # got[j]
    /\ \A i, j \in 1 .. Len(deque) : i # j => deque[i] # deque[j]
    /\ \A i \in 1 .. Len(got), j \in 1 .. Len(deque) : got[i] # deque[j]

\* Used as a queue, the deque holds the newest items in order of insertion,
\* and what popleft returned is older and in order: a full deque loses its
\* oldest item (docstring, 303-307), and concurrent pops do not reorder.
NewestInOrder == uses = "queue" =>
    /\ \A i \in 1 .. Len(deque) : deque[i] = produced - Len(deque) + i
    /\ \A i, j \in 1 .. Len(got) : i < j => got[i] < got[j]
    /\ \A i \in 1 .. Len(got) : got[i] <= produced - Len(deque)

\* "it blocks at most timeout seconds" (pop and popleft): every timed pop ends,
\* remove() aside.
TimedPopEnds == \A g \in Greenlets :
                   (status[g] \in {"parked", "woken"} /\ timed[g])
                      ~> (status[g] = "running" \/ uses = "removes")

\* A pop without timeout, asleep while an item is queued, is switched to,
\* remove() aside.
SleeperServed == \A g \in Greenlets :
                   (status[g] = "parked" /\ deque # <<>>)
                      ~> (status[g] # "parked" \/ deque = <<>> \/ uses = "removes")
=============================================================================
