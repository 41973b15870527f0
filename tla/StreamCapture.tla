--------------------------- MODULE StreamCapture ---------------------------
(***************************************************************************)
(* ait/core/bsc.py: the capture of network traffic into pcap files.  The   *)
(* manager has a table of capturers, one for each address, and a pool of   *)
(* their greenlets; a capturer writes every packet of its socket to the    *)
(* logs of all its handlers.  A web server adds, stops and rotates them.   *)
(*                                                                         *)
(* bsc.py patches the standard library, so that the web server, which      *)
(* takes one request after the other, is a greenlet among those of the     *)
(* capturers.  A request lets others run only where it waits: for room in  *)
(* the pool, and for a greenlet it kills to end.  A capturer waits for its *)
(* socket and nowhere else: files are written without yielding.            *)
(***************************************************************************)
EXTENDS Naturals, Sequences, FiniteSets

CONSTANTS Addresses,    \* what sockets are bound or connected to
          Names,        \* names of handlers, which need not be unique
          NoAddress, NoName,
          PoolSize,     \* 50 in the code
          MaxHandlers,  \* bound: handlers ever added
          MaxPackets    \* bound: packets received at each address

ASSUME CaptureAssumption == /\ IsFiniteSet(Addresses)
                            /\ NoAddress \notin Addresses
                            /\ NoName \notin Names
                            /\ PoolSize \in Nat \ {0}
                            /\ MaxHandlers \in Nat
                            /\ MaxPackets \in Nat

VARIABLES registered,  \* the keys of _stream_capturers
          greenlet,    \* of the capturer of each address
          pool,        \* whose greenlets are in _pool
          handlers,    \* capture_handlers of each capturer; they are numbered
                       \* as they are added, which is their order in the list
          added,       \* how many handlers there were
          nameOf,      \* the name of each
          log,         \* its log file
          since,       \* packets its capturer had received before it came
          written,     \* packets written to its log
          captured,    \* packets received at each address
          request      \* what the web server is waiting in the middle of

vars == <<registered, greenlet, pool, handlers, added, nameOf, log, since, written,
          captured, request>>

Ids == 1 .. MaxHandlers

NoRequest == [op |-> "none", name |-> NoName, at |-> NoAddress, todo |-> {}, emptied |-> {}]

Init == /\ registered = {}
        /\ greenlet = [a \in Addresses |-> "none"]
        /\ pool = {}
        /\ handlers = [a \in Addresses |-> {}]
        /\ added = 0
        /\ nameOf = [h \in Ids |-> NoName]
        /\ log = [h \in Ids |-> "none"]
        /\ since = [h \in Ids |-> 0]
        /\ written = [h \in Ids |-> <<>>]
        /\ captured = [a \in Addresses |-> 0]
        /\ request = NoRequest

Idle == request.op = "none"

\* The request is between two turns of a loop, and lets nobody else run.
Working == request.op = "stopping" /\ request.at = NoAddress

Live(a) == greenlet[a] \in {"loop", "dying"}

PoolIsFull == Cardinality(pool) >= PoolSize

Set(f, S, v) == [x \in DOMAIN f |-> IF x \in S THEN v ELSE f[x]]

\* Handlers S leave their capturer, their logs are closed.
Drop(S) == /\ nameOf' = Set(nameOf, S, NoName)
           /\ log' = Set(log, S, "none")
           /\ since' = Set(since, S, 0)
           /\ written' = Set(written, S, <<>>)

-----------------------------------------------------------------------------
(* add_logger.  A socket or a log that cannot be opened raises before       *)
(* anything has changed.                                                   *)

NewHandler(a, n) == /\ Idle
                    /\ added < MaxHandlers
                    /\ added' = added + 1
                    /\ nameOf' = [nameOf EXCEPT ![added'] = n]
                    /\ log' = [log EXCEPT ![added'] = "open"]
                    /\ since' = [since EXCEPT ![added'] = captured[a]]

\* A capturer that is in the table gets the handler, whether it lives or not.
AddToExisting(a, n) == /\ a \in registered
                       /\ NewHandler(a, n)
                       /\ handlers' = [handlers EXCEPT ![a] = @ \cup {added'}]
                       /\ UNCHANGED <<registered, greenlet, pool, written, captured, request>>

\* mutated: the pool takes everything
AddCrowding(a, n) == /\ a \notin registered
                     /\ NewHandler(a, n)
                     /\ handlers' = [handlers EXCEPT ![a] = {added'}]
                     /\ greenlet' = [greenlet EXCEPT ![a] = "loop"]
                     /\ registered' = registered \cup {a}
                     /\ pool' = pool \cup {a}
                     /\ UNCHANGED <<written, captured, request>>

\* The greenlet runs and is in the table before the pool has room for it.
AddCapturer(a, n) ==
    /\ a \notin registered
    /\ NewHandler(a, n)
    /\ handlers' = [handlers EXCEPT ![a] = {added'}]
    /\ greenlet' = [greenlet EXCEPT ![a] = "loop"]
    /\ registered' = registered \cup {a}
    /\ IF PoolIsFull
       THEN request' = [NoRequest EXCEPT !.op = "adding", !.at = a] /\ UNCHANGED pool
       ELSE pool' = pool \cup {a} /\ UNCHANGED request
    /\ UNCHANGED <<written, captured>>

\* There is room again; a greenlet that died meanwhile leaves it at once.
PoolAdmits == /\ request.op = "adding"
              /\ ~PoolIsFull
              /\ pool' = IF Live(request.at) THEN pool \cup {request.at} ELSE pool
              /\ request' = NoRequest
              /\ UNCHANGED <<registered, greenlet, handlers, added, nameOf, log, since,
                             written, captured>>

-----------------------------------------------------------------------------
(* socket_monitor_loop                                                     *)

\* Which logs are due depends on the time of day.
HandleLogRotations(due) == log' = Set(log, due, "open")

\* A packet comes: the logs that are due are rotated, then all are written.
Capture(a, due) ==
    /\ Live(a) /\ ~Working
    /\ captured[a] < MaxPackets
    /\ HandleLogRotations(due)
    /\ \A h \in handlers[a] : log'[h] = "open"
    /\ captured' = [captured EXCEPT ![a] = @ + 1]
    /\ written' = [h \in Ids |-> IF h \in handlers[a]
                                 THEN Append(written[h], captured'[a]) ELSE written[h]]
    /\ UNCHANGED <<registered, greenlet, pool, handlers, added, nameOf, since, request>>

\* clean_up, of a capturer whose logs are as in now; the pool drops a greenlet
\* that ends.  A close() that fails (what is in the buffer still, as the header
\* of a new log is, finds no room) leaves the logs behind it as they are.
CleanUp(a, now) ==
    /\ greenlet' = [greenlet EXCEPT ![a] = "dead"]
    /\ pool' = pool \ {a}
    /\ \/ log' = Set(now, handlers[a], "closed")
       \/ \E k \in handlers[a] : /\ now[k] = "open"
                                 /\ log' = Set(now, {h \in handlers[a] : h <= k}, "closed")

\* recv() fails when the logs that were due are rotated.
CaptureFails(a, due) == /\ Live(a) /\ ~Working
                        /\ CleanUp(a, Set(log, due, "open"))
                        /\ UNCHANGED <<registered, handlers, added, nameOf, since, written,
                                       captured, request>>

\* The log of k does not close, or the next one does not open; due are the
\* handlers before it that were rotated.
RotationFails(a, due, k) ==
    /\ Live(a) /\ ~Working
    /\ \A h \in due : h < k
    /\ CleanUp(a, [Set(log, due, "open") EXCEPT ![k] = "closed"])
    /\ UNCHANGED <<registered, handlers, added, nameOf, since, written, captured, request>>

\* mutated: the handler that fails is passed over
WriteFailsAlone(a, due, k) ==
    /\ Live(a) /\ ~Working
    /\ captured[a] < MaxPackets
    /\ captured' = [captured EXCEPT ![a] = @ + 1]
    /\ written' = [h \in Ids |-> IF h \in handlers[a] \ {k}
                                 THEN Append(written[h], captured'[a]) ELSE written[h]]
    /\ UNCHANGED <<registered, greenlet, pool, handlers, added, nameOf, log, since, request>>

\* Handler k's transform or write fails, or its log is closed; those before it
\* in the list have the packet, it is the last one for all of them.
WriteFails(a, due, k) ==
    /\ Live(a) /\ ~Working
    /\ captured[a] < MaxPackets
    /\ \A h \in handlers[a] : h < k => h \in due \/ log[h] = "open"
    /\ captured' = [captured EXCEPT ![a] = @ + 1]
    /\ written' = [h \in Ids |-> IF h \in handlers[a] /\ h < k
                                 THEN Append(written[h], captured'[a]) ELSE written[h]]
    /\ CleanUp(a, Set(log, due, "open"))
    /\ UNCHANGED <<registered, handlers, added, nameOf, since, request>>

\* mutated: the loop catches what kills it
KillIgnored(a) == /\ greenlet[a] = "dying"
                  /\ ~Working
                  /\ greenlet' = [greenlet EXCEPT ![a] = "loop"]
                  /\ UNCHANGED <<registered, pool, handlers, added, nameOf, log, since,
                                 written, captured, request>>

\* GreenletExit is raised in wait_read.
Killed(a) == /\ greenlet[a] = "dying"
             /\ ~Working
             /\ CleanUp(a, log)
             /\ UNCHANGED <<registered, handlers, added, nameOf, since, written, captured,
                            request>>

-----------------------------------------------------------------------------
(* rotate_capture_handler_log                                              *)

Named(n) == {h \in UNION {handlers[a] : a \in registered} : nameOf[h] = n}

Rotate(n) == /\ Idle
             /\ log' = Set(log, Named(n), "open")
             /\ UNCHANGED <<registered, greenlet, pool, handlers, added, nameOf, since,
                            written, captured, request>>

\* The log of h does not close, or the next one does not open; done are the
\* handlers that came before it.
RotateFails(n, h, done) ==
    /\ Idle
    /\ h \notin done
    /\ log' = [Set(log, done, "open") EXCEPT ![h] = "closed"]
    /\ UNCHANGED <<registered, greenlet, pool, handlers, added, nameOf, since, written,
                   captured, request>>

-----------------------------------------------------------------------------
(* stop_capture_handler: the loop over the table, in whatever order, with  *)
(* a wait for each greenlet it kills, then the removals from the table.    *)
(* An exception ends the request where it is.                              *)

StopHandler(n) == /\ Idle
                  /\ request' = [NoRequest EXCEPT !.op = "stopping", !.name = n,
                                                  !.todo = registered]
                  /\ UNCHANGED <<registered, greenlet, pool, handlers, added, nameOf, log,
                                 since, written, captured>>

\* remove_handler takes the last one of the name.
LastNamed(a, n) == {h \in handlers[a] : /\ nameOf[h] = n
                                        /\ \A k \in handlers[a] : nameOf[k] = n => k <= h}

\* Pool.killone: a greenlet of the pool is killed, any is waited for.
KillOne(a) == greenlet' = [greenlet EXCEPT ![a] = IF a \in pool THEN "dying" ELSE @]

\* mutated: killone(..., block=False)
StopNextUnwaited(a) ==
    /\ Working
    /\ a \in request.todo
    /\ LET last == LastNamed(a, request.name) IN
       /\ handlers' = [handlers EXCEPT ![a] = @ \ last]
       /\ Drop(last)
       /\ IF handlers[a] = last
          THEN /\ KillOne(a)
               /\ request' = [request EXCEPT !.todo = @ \ {a}, !.emptied = @ \cup {a}]
          ELSE /\ request' = [request EXCEPT !.todo = @ \ {a}]
               /\ UNCHANGED greenlet
    /\ UNCHANGED <<registered, pool, added, captured>>

StopNext(a) ==
    /\ Working
    /\ a \in request.todo
    /\ LET last == LastNamed(a, request.name) IN
       /\ handlers' = [handlers EXCEPT ![a] = @ \ last]
       /\ Drop(last)
       /\ IF handlers[a] = last
          THEN /\ KillOne(a)
               /\ request' = [request EXCEPT !.todo = @ \ {a}, !.emptied = @ \cup {a},
                                             !.at = a]
          ELSE /\ request' = [request EXCEPT !.todo = @ \ {a}]
               /\ UNCHANGED greenlet
    /\ UNCHANGED <<registered, pool, added, captured>>

\* The close() of the log fails: the handler stays in the list, and the capturers
\* emptied before it stay in the table.
StopFails(a) ==
    /\ Working
    /\ a \in request.todo
    /\ \E h \in LastNamed(a, request.name) : /\ log[h] = "open"
                                            /\ log' = [log EXCEPT ![h] = "closed"]
    /\ request' = NoRequest
    /\ UNCHANGED <<registered, greenlet, pool, handlers, added, nameOf, since, written,
                   captured>>

StopJoined == /\ request.op = "stopping"
              /\ request.at # NoAddress
              /\ ~Live(request.at)
              /\ request' = [request EXCEPT !.at = NoAddress]
              /\ UNCHANGED <<registered, greenlet, pool, handlers, added, nameOf, log, since,
                             written, captured>>

StopEnds == /\ Working
            /\ request.todo = {}
            /\ registered' = registered \ request.emptied
            /\ request' = NoRequest
            /\ UNCHANGED <<greenlet, pool, handlers, added, nameOf, log, since, written,
                           captured>>

-----------------------------------------------------------------------------
(* stop_stream_capturer                                                    *)

StopCapturer(a) == /\ Idle
                   /\ a \in registered
                   /\ KillOne(a)
                   /\ request' = [NoRequest EXCEPT !.op = "removing", !.at = a]
                   /\ UNCHANGED <<registered, pool, handlers, added, nameOf, log, since,
                                  written, captured>>

\* The capturer is dropped, and Python closes what it still has open.
CapturerJoined == /\ request.op = "removing"
                  /\ ~Live(request.at)
                  /\ registered' = registered \ {request.at}
                  /\ Drop(handlers[request.at])
                  /\ handlers' = [handlers EXCEPT ![request.at] = {}]
                  /\ request' = NoRequest
                  /\ UNCHANGED <<greenlet, pool, added, captured>>

-----------------------------------------------------------------------------
Requests == \/ \E a \in Addresses, n \in Names : AddToExisting(a, n) \/ AddCapturer(a, n)
            \/ \E n \in Names :
                  \/ Rotate(n)
                  \/ \E h \in Named(n), done \in SUBSET Named(n) : RotateFails(n, h, done)
                  \/ StopHandler(n)
            \/ \E a \in Addresses : StopCapturer(a)

Continues == \/ PoolAdmits
             \/ \E a \in Addresses : StopNext(a) \/ StopFails(a)
             \/ StopJoined
             \/ StopEnds
             \/ CapturerJoined

Captures == \E a \in Addresses :
               \/ \E due \in SUBSET handlers[a] :
                     \/ Capture(a, due)
                     \/ CaptureFails(a, due)
                     \/ \E k \in handlers[a] : RotationFails(a, due, k) \/ WriteFails(a, due, k)
               \/ Killed(a)

Next == Requests \/ Continues \/ Captures

\* A request that can go on does, and a greenlet that was killed gets to know.
Fairness == WF_vars(Continues) /\ \A a \in Addresses : WF_vars(Killed(a))

Spec == Init /\ [][Next]_vars /\ Fairness

-----------------------------------------------------------------------------
TypeOK == /\ registered \subseteq Addresses
          /\ greenlet \in [Addresses -> {"none", "loop", "dying", "dead"}]
          /\ pool \subseteq Addresses
          /\ Cardinality(pool) <= PoolSize
          /\ handlers \in [Addresses -> SUBSET Ids]
          /\ added \in 0 .. MaxHandlers
          /\ nameOf \in [Ids -> Names \cup {NoName}]
          /\ log \in [Ids -> {"none", "open", "closed"}]
          /\ since \in [Ids -> 0 .. MaxPackets]
          /\ written \in [Ids -> Seq(1 .. MaxPackets)]
          /\ captured \in [Addresses -> 0 .. MaxPackets]
          /\ request \in [op : {"none", "adding", "stopping", "removing"},
                          name : Names \cup {NoName}, at : Addresses \cup {NoAddress},
                          todo : SUBSET Addresses, emptied : SUBSET Addresses]
          /\ request.op \in {"adding", "removing"} => request.at \in Addresses

PacketsAfter(s, c) == [i \in 1 .. c - s |-> s + i]

\* While a capturer lives, the log of each of its handlers has every packet
\* since the handler came, in order: handlers that come, go, fail or are
\* rotated beside it cost it nothing (bsc.py 211-223, 255, 274).
LogsAreComplete ==
    \A a \in Addresses : Live(a) =>
       \A h \in handlers[a] : written[h] = PacketsAfter(since[h], captured[a])

\* What captures is in the table, where it can be stopped, and captures for some
\* handler, except while the request that took its last one waits for its end.
\* That request removes every capturer without handlers that it comes across,
\* those too that an earlier one left when a log of theirs did not close
\* (bsc.py 257-274, 572-589, 607-613).
TableIsSound ==
    /\ \A a \in Addresses : Live(a) => a \in registered
    /\ \A a \in Addresses : Live(a) /\ handlers[a] = {} => request.at = a
    /\ request.op = "stopping" => \A a \in registered \ request.todo :
                                     handlers[a] = {} => a \in request.emptied

\* A request that waits for a greenlet it killed always ends, and one that
\* waits for the pool does when there is room (570, 585, 612): the web server,
\* which takes one request at a time, answers the next one.
RequestsEnd ==
    /\ request.op \in {"stopping", "removing"} ~> Idle
    /\ (request.op = "adding" /\ ~PoolIsFull) ~> Idle

\* add_logger (503-505): "If an existing capturer is monitoring the same address
\* the new handler will be added to it"; the capturer it is added to lives.
AddedToMonitoring ==
    [][\A a \in Addresses : \A h \in handlers'[a] \ handlers[a] : Live(a)']_vars
=============================================================================
