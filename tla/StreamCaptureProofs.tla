------------------------ MODULE StreamCaptureProofs ------------------------
(***************************************************************************)
(* Theorems about StreamCapture for every set of addresses and names and   *)
(* every size of the pool: what captures can be stopped, and the logs of a *)
(* living capturer are complete.                                           *)
(***************************************************************************)
EXTENDS StreamCapture, FiniteSetTheorems, TLAPS

USE CaptureAssumption

\* The pool never has more greenlets than PoolSize, and one more fits while
\* it is not full.
LEMMA PoolFits ==
    ASSUME TypeOK, ~PoolIsFull, NEW a \in Addresses
    PROVE  Cardinality(pool \cup {a}) <= PoolSize
<1>1. IsFiniteSet(pool)
  BY FS_Subset DEF TypeOK
<1>2. Cardinality(pool) \in Nat /\ Cardinality(pool) + 1 <= PoolSize
  BY <1>1, FS_CardinalityType DEF PoolIsFull
<1>3. CASE a \in pool
  <2>1. pool \cup {a} = pool
    BY <1>3
  <2> QED  BY <2>1 DEF TypeOK
<1>4. CASE a \notin pool
  <2>1. Cardinality(pool \cup {a}) = Cardinality(pool) + 1
    BY <1>1, <1>4, FS_AddElement
  <2> QED  BY <2>1, <1>2
<1> QED  BY <1>3, <1>4

\* A greenlet that leaves makes room.
LEMMA PoolShrinks ==
    ASSUME TypeOK, NEW a \in Addresses
    PROVE  Cardinality(pool \ {a}) <= PoolSize
<1>1. IsFiniteSet(pool) /\ pool \ {a} \subseteq pool
  BY FS_Subset DEF TypeOK
<1>2. /\ Cardinality(pool \ {a}) <= Cardinality(pool)
      /\ Cardinality(pool) \in Nat
      /\ Cardinality(pool \ {a}) \in Nat
  BY <1>1, FS_Subset, FS_CardinalityType
<1> QED  BY <1>2 DEF TypeOK

\* The values of the variables that a step of one handler changes.
LEMMA WrittenType ==
    ASSUME TypeOK, NEW a \in Addresses, captured[a] < MaxPackets, NEW S \in SUBSET Ids
    PROVE  [h \in Ids |-> IF h \in S THEN Append(written[h], captured[a] + 1)
                          ELSE written[h]] \in [Ids -> Seq(1 .. MaxPackets)]
<1> SUFFICES ASSUME NEW h \in Ids
             PROVE  Append(written[h], captured[a] + 1) \in Seq(1 .. MaxPackets)
  BY DEF TypeOK
<1>1. written[h] \in Seq(1 .. MaxPackets) /\ captured[a] + 1 \in 1 .. MaxPackets
  BY DEF TypeOK
<1> QED  BY <1>1

-----------------------------------------------------------------------------
(* Type correctness.                                                       *)

LEMMA DropType ==
    ASSUME TypeOK, NEW S \in SUBSET Ids, Drop(S)
    PROVE  /\ nameOf' \in [Ids -> Names \cup {NoName}]
           /\ log' \in [Ids -> {"none", "open", "closed"}]
           /\ since' \in [Ids -> 0 .. MaxPackets]
           /\ written' \in [Ids -> Seq(1 .. MaxPackets)]
<1>1. MaxPackets \in Nat /\ 0 \in 0 .. MaxPackets /\ <<>> \in Seq(1 .. MaxPackets)
  OBVIOUS
<1>2. /\ nameOf' \in [Ids -> Names \cup {NoName}]
      /\ log' \in [Ids -> {"none", "open", "closed"}]
  BY DEF Drop, Set, TypeOK
<1>3. since' \in [Ids -> 0 .. MaxPackets]
  BY <1>1 DEF Drop, Set, TypeOK
<1>4. written' \in [Ids -> Seq(1 .. MaxPackets)]
  BY <1>1 DEF Drop, Set, TypeOK
<1> QED  BY <1>2, <1>3, <1>4

LEMMA NewHandlerType ==
    ASSUME TypeOK, NEW a \in Addresses, NEW n \in Names, NewHandler(a, n)
    PROVE  /\ added' \in 0 .. MaxHandlers
           /\ added' \in Ids
           /\ nameOf' \in [Ids -> Names \cup {NoName}]
           /\ log' \in [Ids -> {"none", "open", "closed"}]
           /\ since' \in [Ids -> 0 .. MaxPackets]
BY DEF NewHandler, TypeOK, Ids

LEMMA CleanUpType ==
    ASSUME TypeOK, NEW a \in Addresses,
           NEW now \in [Ids -> {"none", "open", "closed"}], CleanUp(a, now)
    PROVE  /\ greenlet' \in [Addresses -> {"none", "loop", "dying", "dead"}]
           /\ pool' \subseteq Addresses
           /\ Cardinality(pool') <= PoolSize
           /\ log' \in [Ids -> {"none", "open", "closed"}]
<1>1. Cardinality(pool') <= PoolSize
  BY PoolShrinks DEF CleanUp
<1> QED  BY <1>1 DEF CleanUp, TypeOK, Set

\* The variables have their types, and the pool its size (bsc.py 490-492, 570).
LEMMA TypeStep == TypeOK /\ [Next]_vars => TypeOK'
<1> SUFFICES ASSUME TypeOK, [Next]_vars PROVE TypeOK'
  OBVIOUS
<1> USE DEF TypeOK
<1>1. ASSUME NEW a \in Addresses, NEW n \in Names, AddToExisting(a, n) PROVE TypeOK'
  BY <1>1, NewHandlerType DEF AddToExisting
<1>2. ASSUME NEW a \in Addresses, NEW n \in Names, AddCapturer(a, n) PROVE TypeOK'
  <2>1. /\ pool' \subseteq Addresses /\ Cardinality(pool') <= PoolSize
    BY <1>2, PoolFits DEF AddCapturer
  <2>2. request' \in [op : {"none", "adding", "stopping", "removing"},
                      name : Names \cup {NoName}, at : Addresses \cup {NoAddress},
                      todo : SUBSET Addresses, emptied : SUBSET Addresses]
    BY <1>2 DEF AddCapturer, NoRequest
  <2>3. /\ added' \in 0 .. MaxHandlers
        /\ added' \in Ids
        /\ nameOf' \in [Ids -> Names \cup {NoName}]
        /\ log' \in [Ids -> {"none", "open", "closed"}]
        /\ since' \in [Ids -> 0 .. MaxPackets]
    BY <1>2, NewHandlerType DEF AddCapturer
  <2> QED  BY <1>2, <2>1, <2>2, <2>3 DEF AddCapturer
<1>3. CASE PoolAdmits
  <2>1. request.at \in Addresses => Cardinality(pool \cup {request.at}) <= PoolSize
    BY <1>3, PoolFits DEF PoolAdmits
  <2>2. request.at \in Addresses
    BY <1>3 DEF PoolAdmits
  <2> QED  BY <1>3, <2>1, <2>2 DEF PoolAdmits, NoRequest
<1>4. ASSUME NEW a \in Addresses, NEW due \in SUBSET handlers[a], Capture(a, due) PROVE TypeOK'
  <2>1. written' \in [Ids -> Seq(1 .. MaxPackets)]
    BY <1>4, WrittenType DEF Capture
  <2>2. log' \in [Ids -> {"none", "open", "closed"}]
    BY <1>4 DEF Capture, HandleLogRotations, Set
  <2> QED  BY <1>4, <2>1, <2>2 DEF Capture
<1>5. ASSUME NEW a \in Addresses, NEW due \in SUBSET handlers[a], CaptureFails(a, due)
      PROVE TypeOK'
  <2>1. Set(log, due, "open") \in [Ids -> {"none", "open", "closed"}]
    BY DEF Set
  <2> QED  BY <1>5, <2>1, CleanUpType DEF CaptureFails
<1>6. ASSUME NEW a \in Addresses, NEW due \in SUBSET handlers[a], NEW k \in handlers[a],
             WriteFails(a, due, k)
      PROVE TypeOK'
  <2>1. written' \in [Ids -> Seq(1 .. MaxPackets)]
    <3> DEFINE S == {h \in Ids : h \in handlers[a] /\ h < k}
    <3>1. written' = [h \in Ids |-> IF h \in S THEN Append(written[h], captured[a] + 1)
                                    ELSE written[h]]
      BY <1>6 DEF WriteFails
    <3>2. captured[a] < MaxPackets /\ S \in SUBSET Ids
      BY <1>6 DEF WriteFails
    <3> HIDE DEF S
    <3> QED  BY <3>1, <3>2, WrittenType
  <2>2. Set(log, due, "open") \in [Ids -> {"none", "open", "closed"}]
    BY DEF Set
  <2> QED  BY <1>6, <2>1, <2>2, CleanUpType DEF WriteFails
<1>7. ASSUME NEW a \in Addresses, Killed(a) PROVE TypeOK'
  BY <1>7, CleanUpType DEF Killed
<1>8. ASSUME NEW n \in Names, Rotate(n) PROVE TypeOK'
  BY <1>8 DEF Rotate, Set
<1>9. ASSUME NEW n \in Names, NEW h \in Named(n), NEW done \in SUBSET Named(n),
             RotateFails(n, h, done)
      PROVE TypeOK'
  BY <1>9 DEF RotateFails, Set
<1>17. ASSUME NEW a \in Addresses, NEW due \in SUBSET handlers[a], NEW k \in handlers[a],
              RotationFails(a, due, k)
       PROVE  TypeOK'
  <2>1. [Set(log, due, "open") EXCEPT ![k] = "closed"] \in [Ids -> {"none", "open", "closed"}]
    BY DEF Set
  <2> QED  BY <1>17, <2>1, CleanUpType DEF RotationFails
<1>18. ASSUME NEW a \in Addresses, StopFails(a) PROVE TypeOK'
  <2>1. PICK h \in LastNamed(a, request.name) : log' = [log EXCEPT ![h] = "closed"]
    BY <1>18 DEF StopFails
  <2>2. log' \in [Ids -> {"none", "open", "closed"}]
    BY <2>1 DEF LastNamed
  <2>3. /\ request' = NoRequest
        /\ UNCHANGED <<registered, greenlet, pool, handlers, added, nameOf, since, written,
                       captured>>
    BY <1>18 DEF StopFails
  <2> QED  BY <2>2, <2>3 DEF NoRequest
<1>10. ASSUME NEW n \in Names, StopHandler(n) PROVE TypeOK'
  BY <1>10 DEF StopHandler, NoRequest
<1>11. ASSUME NEW a \in Addresses, StopNext(a) PROVE TypeOK'
  <2>1. LastNamed(a, request.name) \in SUBSET Ids
    BY DEF LastNamed
  <2>2. /\ nameOf' \in [Ids -> Names \cup {NoName}]
        /\ log' \in [Ids -> {"none", "open", "closed"}]
        /\ since' \in [Ids -> 0 .. MaxPackets]
        /\ written' \in [Ids -> Seq(1 .. MaxPackets)]
    BY <1>11, <2>1, DropType DEF StopNext
  <2>3. handlers' \in [Addresses -> SUBSET Ids]
    BY <1>11 DEF StopNext
  <2>4. request' \in [op : {"none", "adding", "stopping", "removing"},
                      name : Names \cup {NoName}, at : Addresses \cup {NoAddress},
                      todo : SUBSET Addresses, emptied : SUBSET Addresses]
                  /\ request'.op = "stopping"
    <3>1. \/ request' = [request EXCEPT !.todo = @ \ {a}, !.emptied = @ \cup {a}, !.at = a]
          \/ request' = [request EXCEPT !.todo = @ \ {a}]
      BY <1>11 DEF StopNext
    <3>2. request.op = "stopping" /\ request.todo \ {a} \in SUBSET Addresses
          /\ request.emptied \cup {a} \in SUBSET Addresses
      BY <1>11 DEF StopNext, Working
    <3>3. CASE request' = [request EXCEPT !.todo = @ \ {a}, !.emptied = @ \cup {a}, !.at = a]
      BY <3>2, <3>3
    <3>4. CASE request' = [request EXCEPT !.todo = @ \ {a}]
      BY <3>2, <3>4
    <3> QED  BY <3>1, <3>3, <3>4
  <2>5. greenlet' \in [Addresses -> {"none", "loop", "dying", "dead"}]
    BY <1>11 DEF StopNext, KillOne
  <2> QED  BY <1>11, <2>2, <2>3, <2>4, <2>5 DEF StopNext
<1>12. CASE StopJoined
  BY <1>12 DEF StopJoined
<1>13. CASE StopEnds
  BY <1>13 DEF StopEnds, NoRequest
<1>14. ASSUME NEW a \in Addresses, StopCapturer(a) PROVE TypeOK'
  BY <1>14 DEF StopCapturer, KillOne, NoRequest
<1>15. CASE CapturerJoined
  <2>1. handlers[request.at] \in SUBSET Ids
    BY <1>15 DEF CapturerJoined
  <2>2. /\ nameOf' \in [Ids -> Names \cup {NoName}]
        /\ log' \in [Ids -> {"none", "open", "closed"}]
        /\ since' \in [Ids -> 0 .. MaxPackets]
        /\ written' \in [Ids -> Seq(1 .. MaxPackets)]
    BY <1>15, <2>1, DropType DEF CapturerJoined
  <2> QED  BY <1>15, <2>2 DEF CapturerJoined, NoRequest
<1>16. CASE UNCHANGED vars
  BY <1>16 DEF vars
<1> QED  BY <1>1, <1>2, <1>3, <1>4, <1>5, <1>6, <1>7, <1>8, <1>9, <1>10, <1>11, <1>12,
            <1>13, <1>14, <1>15, <1>16, <1>17, <1>18 DEF Next, Requests, Continues, Captures

\* Every reachable state has the types (bsc.py 490-492, 570).
THEOREM TypeCorrect == Spec => []TypeOK
<1>1. Init => TypeOK
  <2> SUFFICES ASSUME Init PROVE TypeOK
    OBVIOUS
  <2>1. Cardinality(pool) <= PoolSize
    BY FS_EmptySet DEF Init
  <2>2. 0 \in 0 .. MaxPackets /\ 0 \in 0 .. MaxHandlers /\ <<>> \in Seq(1 .. MaxPackets)
    OBVIOUS
  <2> QED  BY <2>1, <2>2 DEF Init, TypeOK, NoRequest
<1> QED  BY <1>1, TypeStep, PTL DEF Spec

-----------------------------------------------------------------------------
(* What captures can be stopped.                                           *)

\* A greenlet that ends has left the pool.
PoolLives == \A a \in pool : Live(a)

LEMMA PoolStep == TypeOK /\ PoolLives /\ [Next]_vars => PoolLives'
<1> SUFFICES ASSUME TypeOK, PoolLives, [Next]_vars PROVE PoolLives'
  OBVIOUS
<1>0. /\ greenlet \in [Addresses -> {"none", "loop", "dying", "dead"}]
      /\ pool \subseteq Addresses
      /\ \A a \in pool : greenlet[a] \in {"loop", "dying"}
  BY DEF TypeOK, PoolLives, Live
<1>1. CASE UNCHANGED <<pool, greenlet>>
  BY <1>0, <1>1 DEF PoolLives, Live
<1>2. ASSUME NEW a \in Addresses, pool' = pool \ {a}, greenlet' = [greenlet EXCEPT ![a] = "dead"]
      PROVE  PoolLives'
  BY <1>0, <1>2 DEF PoolLives, Live
<1>3. ASSUME NEW a \in Addresses, KillOne(a), UNCHANGED pool PROVE PoolLives'
  BY <1>0, <1>3 DEF KillOne, PoolLives, Live
<1>4. ASSUME NEW a \in Addresses, NEW n \in Names, AddCapturer(a, n) PROVE PoolLives'
  <2>1. greenlet' = [greenlet EXCEPT ![a] = "loop"] /\ pool' \subseteq pool \cup {a}
    BY <1>4 DEF AddCapturer
  <2> QED  BY <1>0, <2>1 DEF PoolLives, Live
<1>5. CASE PoolAdmits
  BY <1>0, <1>5 DEF PoolAdmits, PoolLives, Live
<1>6. CASE \E a \in Addresses : StopNext(a)
  <2>1. PICK a \in Addresses : StopNext(a)
    BY <1>6
  <2>2. UNCHANGED pool /\ (KillOne(a) \/ UNCHANGED greenlet)
    BY <2>1 DEF StopNext
  <2> QED  BY <1>1, <1>3, <2>2
<1>7. CASE \E a \in Addresses : StopCapturer(a)
  BY <1>3, <1>7 DEF StopCapturer
<1>8. ASSUME NEW a \in Addresses, NEW due \in SUBSET handlers[a],
             \/ Capture(a, due) \/ CaptureFails(a, due) \/ Killed(a)
             \/ \E k \in handlers[a] : RotationFails(a, due, k) \/ WriteFails(a, due, k)
      PROVE  PoolLives'
  <2>1. \/ UNCHANGED <<pool, greenlet>>
        \/ pool' = pool \ {a} /\ greenlet' = [greenlet EXCEPT ![a] = "dead"]
    BY <1>8 DEF Capture, CaptureFails, RotationFails, WriteFails, Killed, CleanUp
  <2> QED  BY <1>1, <1>2, <2>1
<1>10. CASE Captures
  <2>1. {} \in SUBSET Ids /\ \A a \in Addresses : {} \in SUBSET handlers[a]
    OBVIOUS
  <2> QED  BY <1>8, <1>10, <2>1 DEF Captures
<1>9. CASE \/ \E a \in Addresses, n \in Names : AddToExisting(a, n)
           \/ \E a \in Addresses : StopFails(a)
           \/ \E n \in Names : Rotate(n) \/ StopHandler(n)
           \/ \E n \in Names : \E h \in Named(n), done \in SUBSET Named(n) :
                 RotateFails(n, h, done)
           \/ StopJoined \/ StopEnds \/ CapturerJoined \/ UNCHANGED vars
  BY <1>1, <1>9 DEF AddToExisting, StopFails, Rotate, StopHandler, RotateFails, StopJoined,
                    StopEnds, CapturerJoined, vars
<1> QED  BY <1>4, <1>5, <1>6, <1>7, <1>9, <1>10 DEF Next, Requests, Continues

\* What a stop request has emptied is without handlers, so that it does not live
\* any more when the request removes it.
TableInv ==
    /\ TableIsSound
    /\ \A a \in Addresses : Live(a) /\ handlers[a] = {} => request.op = "stopping"
    /\ request.op = "stopping" => /\ request.todo \subseteq registered
                                 /\ \A a \in request.emptied : handlers[a] = {}

LEMMA TableStep == TypeOK /\ PoolLives /\ TableInv /\ [Next]_vars => TableInv'
<1> SUFFICES ASSUME TypeOK, PoolLives, TableInv, [Next]_vars PROVE TableInv'
  OBVIOUS
<1> USE DEF TypeOK, TableInv, TableIsSound, Live
<1>1. ASSUME NEW a \in Addresses, NEW n \in Names, AddToExisting(a, n) PROVE TableInv'
  BY <1>1 DEF AddToExisting, NewHandler, Idle
<1>2. ASSUME NEW a \in Addresses, NEW n \in Names, AddCapturer(a, n) PROVE TableInv'
  BY ZenonT(60), <1>2 DEF AddCapturer, NewHandler, Idle, NoRequest
<1>3. CASE PoolAdmits
  BY <1>3 DEF PoolAdmits, NoRequest
<1>4. ASSUME NEW a \in Addresses, NEW due \in SUBSET handlers[a], Capture(a, due) PROVE TableInv'
  BY <1>4 DEF Capture
<1>5. ASSUME NEW a \in Addresses, NEW due \in SUBSET handlers[a], CaptureFails(a, due)
      PROVE TableInv'
  BY <1>5 DEF CaptureFails, CleanUp
<1>6. ASSUME NEW a \in Addresses, NEW due \in SUBSET handlers[a], NEW k \in handlers[a],
             WriteFails(a, due, k)
      PROVE TableInv'
  BY <1>6 DEF WriteFails, CleanUp
<1>7. ASSUME NEW a \in Addresses, Killed(a) PROVE TableInv'
  BY <1>7 DEF Killed, CleanUp
<1>8. ASSUME NEW n \in Names, Rotate(n) PROVE TableInv'
  BY <1>8 DEF Rotate
<1>9. ASSUME NEW n \in Names, NEW h \in Named(n), NEW done \in SUBSET Named(n),
             RotateFails(n, h, done)
      PROVE TableInv'
  BY <1>9 DEF RotateFails
<1>17. ASSUME NEW a \in Addresses, NEW due \in SUBSET handlers[a], NEW k \in handlers[a],
              RotationFails(a, due, k)
       PROVE  TableInv'
  BY <1>17 DEF RotationFails, CleanUp
<1>18. ASSUME NEW a \in Addresses, StopFails(a) PROVE TableInv'
  BY <1>18 DEF StopFails, Working, NoRequest
<1>10. ASSUME NEW n \in Names, StopHandler(n) PROVE TableInv'
  BY <1>10 DEF StopHandler, Idle, NoRequest
<1>11. ASSUME NEW a \in Addresses, StopNext(a) PROVE TableInv'
  <2>1. /\ request.op = "stopping" /\ request.at = NoAddress
        /\ a \in registered
        /\ LastNamed(a, request.name) \subseteq handlers[a]
        /\ UNCHANGED registered
        /\ handlers' = [handlers EXCEPT ![a] = @ \ LastNamed(a, request.name)]
    BY <1>11 DEF StopNext, Working, LastNamed
  <2>2. /\ handlers'[a] = handlers[a] \ LastNamed(a, request.name)
        /\ \A b \in Addresses : b # a => handlers'[b] = handlers[b]
    BY <2>1
  <2>3. CASE handlers[a] = LastNamed(a, request.name)
    <3>0. request' = [request EXCEPT !.todo = @ \ {a}, !.emptied = @ \cup {a}, !.at = a]
      BY <1>11, <2>3 DEF StopNext
    <3>1. /\ request'.op = "stopping" /\ request'.at = a
          /\ request'.todo = request.todo \ {a}
          /\ request'.emptied = request.emptied \cup {a}
      BY <3>0, <2>1
    <3>2. \A b \in Addresses : b # a => greenlet'[b] = greenlet[b]
      BY <1>11, <2>3 DEF StopNext, KillOne
    <3>3. \A b \in Addresses : Live(b)' => b \in registered'
      BY <2>1, <3>2
    <3>4. \A b \in registered' \ request'.todo : handlers'[b] = {} => b \in request'.emptied
      BY <2>1, <2>2, <3>1
    <3>5. \A b \in Addresses : Live(b)' /\ handlers'[b] = {} => b = a
      BY <2>1, <2>2, <3>2, CaptureAssumption
    <3>6. \A b \in request'.emptied : handlers'[b] = {}
      BY <2>1, <2>2, <2>3, <3>1
    <3> QED  BY <2>1, <3>1, <3>3, <3>4, <3>5, <3>6
  <2>4. CASE handlers[a] # LastNamed(a, request.name)
    <3>1. /\ request' = [request EXCEPT !.todo = @ \ {a}]
          /\ UNCHANGED greenlet
      BY <1>11, <2>4 DEF StopNext
    <3>2. handlers'[a] # {}
      BY <2>1, <2>2, <2>4
    <3>3. /\ request'.op = "stopping" /\ request'.at = NoAddress
          /\ request'.todo = request.todo \ {a}
          /\ request'.emptied = request.emptied
      BY <2>1, <3>1
    <3>4. \A b \in registered' \ request'.todo : handlers'[b] = {} => b \in request'.emptied
      BY <2>1, <2>2, <3>2, <3>3
    <3>5. \A b \in Addresses : Live(b)' => ~(handlers'[b] = {})
      BY <2>1, <2>2, <3>1, <3>2, CaptureAssumption
    <3>6. \A b \in request'.emptied : handlers'[b] = {}
      BY <2>1, <2>2, <3>3
    <3> QED  BY <2>1, <3>1, <3>3, <3>4, <3>5, <3>6
  <2> QED  BY <2>3, <2>4
<1>12. CASE StopJoined
  BY <1>12 DEF StopJoined
<1>13. CASE StopEnds
  <2>1. /\ request.op = "stopping" /\ request.at = NoAddress
        /\ registered' = registered \ request.emptied
        /\ request' = NoRequest
        /\ UNCHANGED <<greenlet, handlers>>
    BY <1>13 DEF StopEnds, Working
  <2>2. \A b \in Addresses : Live(b) => handlers[b] # {}
    BY <2>1, CaptureAssumption
  <2>3. \A b \in Addresses : Live(b)' => b \in registered'
    BY <2>1, <2>2
  <2> QED  BY <2>1, <2>2, <2>3 DEF NoRequest
<1>14. ASSUME NEW a \in Addresses, StopCapturer(a) PROVE TableInv'
  <2>1. /\ UNCHANGED <<registered, handlers>>
        /\ request' = [NoRequest EXCEPT !.op = "removing", !.at = a]
        /\ \A b \in Addresses : Live(b)' => Live(b)
    BY <1>14 DEF StopCapturer, KillOne, PoolLives
  <2>2. request'.op = "removing"
    BY <2>1 DEF NoRequest
  <2>3. \A b \in Addresses : Live(b)' => handlers'[b] # {}
    BY <1>14, <2>1 DEF StopCapturer, Idle
  <2> QED  BY <2>1, <2>2, <2>3
<1>15. CASE CapturerJoined
  BY <1>15 DEF CapturerJoined, NoRequest
<1>16. CASE UNCHANGED vars
  BY <1>16 DEF vars
<1> QED  BY <1>1, <1>2, <1>3, <1>4, <1>5, <1>6, <1>7, <1>8, <1>9, <1>10, <1>11, <1>12,
            <1>13, <1>14, <1>15, <1>16, <1>17, <1>18 DEF Next, Requests, Continues, Captures

\* Whatever is added, stopped, fails or is killed, a capturer that lives is in
\* the table and has handlers, or is waited for by the request that took its
\* last one; and a stop request that gets through the table removes every
\* capturer without handlers (bsc.py 257-274, 569-613).
THEOREM TableStaysSound == Spec => []TableIsSound
<1>1. Init => TableInv
  BY CaptureAssumption DEF Init, TableInv, TableIsSound, Live, NoRequest
<1>3. Init => PoolLives
  BY DEF Init, PoolLives
<1>2. TableInv => TableIsSound
  BY DEF TableInv
<1> QED  BY <1>1, <1>2, <1>3, TypeCorrect, PoolStep, TableStep, PTL DEF Spec

-----------------------------------------------------------------------------
(* The logs of what captures are complete.                                 *)

\* A handler belongs to one capturer and came when it came; numbers not yet
\* given have written nothing; the pool's greenlets live.
LogInv ==
    /\ \A a, b \in Addresses : \A h \in handlers[a] : h \in handlers[b] => a = b
    /\ \A a \in Addresses : \A h \in handlers[a] : h <= added /\ since[h] <= captured[a]
    /\ \A h \in Ids : h > added => written[h] = <<>>
    /\ \A a \in pool : Live(a)
    /\ LogsAreComplete

\* One more packet at the end of a complete log.
LEMMA LogGrows ==
    ASSUME NEW s \in Nat, NEW c \in Nat, s <= c
    PROVE  Append(PacketsAfter(s, c), c + 1) = PacketsAfter(s, c + 1)
<1> DEFINE p == PacketsAfter(s, c)
           q == PacketsAfter(s, c + 1)
<1>1. c - s \in Nat /\ (c + 1) - s = (c - s) + 1
  OBVIOUS
<1>2. p \in Seq(Nat) /\ Len(p) = c - s
  BY <1>1 DEF PacketsAfter
<1>3. q \in Seq(Nat) /\ Len(q) = (c - s) + 1
  BY <1>1 DEF PacketsAfter
<1>4. Append(p, c + 1) \in Seq(Nat) /\ Len(Append(p, c + 1)) = (c - s) + 1
  BY <1>2
<1>5. \A i \in 1 .. (c - s) + 1 : Append(p, c + 1)[i] = q[i]
  BY <1>1, <1>2 DEF PacketsAfter
<1> HIDE DEF p, q
<1>6. Append(p, c + 1) = q
  BY <1>3, <1>4, <1>5
<1> QED  BY <1>6 DEF p, q

LEMMA LogStarts ==
    ASSUME NEW c \in Nat PROVE <<>> = PacketsAfter(c, c)
BY DEF PacketsAfter

LEMMA LogStep == TypeOK /\ LogInv /\ [Next]_vars => LogInv'
<1> SUFFICES ASSUME TypeOK, LogInv, [Next]_vars PROVE LogInv'
  OBVIOUS
<1>0. /\ \A a \in Addresses : captured[a] \in Nat /\ handlers[a] \subseteq Ids
      /\ \A h \in Ids : since[h] \in Nat /\ h \in Nat
      /\ added \in Nat
      /\ captured \in [Addresses -> 0 .. MaxPackets]
      /\ greenlet \in [Addresses -> {"none", "loop", "dying", "dead"}]
      /\ handlers \in [Addresses -> SUBSET Ids]
      /\ pool \subseteq Addresses
      /\ since \in [Ids -> 0 .. MaxPackets]
  BY SMTT(30) DEF TypeOK, Ids
<1> USE <1>0 DEF LogInv, Live, LogsAreComplete
<1>1. ASSUME NEW a \in Addresses, NEW n \in Names, AddToExisting(a, n) PROVE LogInv'
  <2>1. added' = added + 1 /\ added' \in Ids /\ UNCHANGED <<pool, greenlet, captured, written>>
    BY <1>1 DEF AddToExisting, NewHandler, Ids
  <2>2. /\ since'[added'] = captured[a] /\ written[added'] = <<>>
        /\ \A h \in Ids : h # added' => since'[h] = since[h]
    BY <1>1, <2>1 DEF AddToExisting, NewHandler, Ids
  <2>3. /\ handlers'[a] = handlers[a] \cup {added'}
        /\ \A b \in Addresses : b # a => handlers'[b] = handlers[b]
    BY <1>1 DEF AddToExisting
  <2>4. \A b \in Addresses : \A h \in handlers[b] : h \in Ids /\ h # added'
    BY <2>1 DEF Ids
  <2>5. LogsAreComplete'
    <3> SUFFICES ASSUME NEW b \in Addresses, Live(b)', NEW h \in handlers'[b]
                 PROVE  written'[h] = PacketsAfter(since'[h], captured'[b])
      OBVIOUS
    <3>1. CASE h = added'
      <4>1. b = a
        BY <2>3, <2>4, <3>1
      <4>2. written'[h] = <<>> /\ since'[h] = captured[a] /\ captured'[b] = captured[a]
        BY <2>1, <2>2, <3>1, <4>1
      <4> QED  BY <4>2, LogStarts
    <3>2. CASE h # added'
      <4>1. h \in handlers[b] /\ h \in Ids /\ Live(b)
        BY <2>1, <2>3, <2>4, <3>2
      <4>2. written'[h] = written[h] /\ since'[h] = since[h] /\ captured'[b] = captured[b]
        BY <2>1, <2>2, <3>2, <4>1
      <4> QED  BY <4>1, <4>2
    <3> QED  BY <3>1, <3>2
  <2>6. \A b \in Addresses : \A h \in handlers'[b] : h <= added' /\ since'[h] <= captured'[b]
    <3> SUFFICES ASSUME NEW b \in Addresses, NEW h \in handlers'[b]
                 PROVE  h <= added' /\ since'[h] <= captured'[b]
      OBVIOUS
    <3>1. CASE h = added'
      <4>1. b = a
        BY <2>3, <2>4, <3>1
      <4>2. since'[h] = captured[a] /\ captured'[b] = captured[a]
        BY <2>1, <2>2, <3>1, <4>1
      <4>3. captured[a] \in Nat /\ added' \in Nat
        BY <2>1
      <4> QED  BY <3>1, <4>2, <4>3
    <3>2. CASE h # added'
      <4>1. h \in handlers[b] /\ h \in Ids
        BY <2>3, <2>4, <3>2
      <4>2. since'[h] = since[h] /\ captured'[b] = captured[b] /\ added' = added + 1
        BY <2>1, <2>2, <3>2, <4>1
      <4>3. h <= added /\ since[h] <= captured[b] /\ h \in Nat /\ added \in Nat
        BY <4>1
      <4> QED  BY <4>2, <4>3
    <3> QED  BY <3>1, <3>2
  <2>7. \A b, c \in Addresses : \A h \in handlers'[b] : h \in handlers'[c] => b = c
    BY <2>3, <2>4
  <2>8. \A h \in Ids : h > added' => written'[h] = <<>>
    BY <2>1 DEF Ids
  <2> QED  BY <2>1, <2>5, <2>6, <2>7, <2>8
<1>2. ASSUME NEW a \in Addresses, NEW n \in Names, AddCapturer(a, n) PROVE LogInv'
  <2>1. added' = added + 1 /\ added' \in Ids /\ UNCHANGED <<captured, written>>
    BY <1>2 DEF AddCapturer, NewHandler, Ids
  <2>2. /\ since'[added'] = captured[a] /\ written[added'] = <<>>
        /\ \A h \in Ids : h # added' => since'[h] = since[h]
    BY <1>2, <2>1 DEF AddCapturer, NewHandler, Ids
  <2>3. /\ handlers'[a] = {added'} /\ greenlet'[a] = "loop"
        /\ \A b \in Addresses : b # a => handlers'[b] = handlers[b] /\ greenlet'[b] = greenlet[b]
    BY <1>2 DEF AddCapturer
  <2>4. \A b \in Addresses : \A h \in handlers[b] : h \in Ids /\ h # added'
    BY <2>1 DEF Ids
  <2>5. LogsAreComplete'
    <3> SUFFICES ASSUME NEW b \in Addresses, Live(b)', NEW h \in handlers'[b]
                 PROVE  written'[h] = PacketsAfter(since'[h], captured'[b])
      OBVIOUS
    <3>1. CASE h = added'
      <4>1. b = a
        BY <2>3, <2>4, <3>1
      <4>2. written'[h] = <<>> /\ since'[h] = captured[a] /\ captured'[b] = captured[a]
        BY <2>1, <2>2, <3>1, <4>1
      <4> QED  BY <4>2, LogStarts
    <3>2. CASE h # added'
      <4>1. h \in handlers[b] /\ h \in Ids /\ Live(b)
        BY <2>1, <2>3, <2>4, <3>2
      <4>2. written'[h] = written[h] /\ since'[h] = since[h] /\ captured'[b] = captured[b]
        BY <2>1, <2>2, <3>2, <4>1
      <4> QED  BY <4>1, <4>2
    <3> QED  BY <3>1, <3>2
  <2>6. \A b \in Addresses : \A h \in handlers'[b] : h <= added' /\ since'[h] <= captured'[b]
    <3> SUFFICES ASSUME NEW b \in Addresses, NEW h \in handlers'[b]
                 PROVE  h <= added' /\ since'[h] <= captured'[b]
      OBVIOUS
    <3>1. CASE h = added'
      <4>1. b = a
        BY <2>3, <2>4, <3>1
      <4>2. since'[h] = captured[a] /\ captured'[b] = captured[a]
        BY <2>1, <2>2, <3>1, <4>1
      <4>3. captured[a] \in Nat /\ added' \in Nat
        BY <2>1
      <4> QED  BY <3>1, <4>2, <4>3
    <3>2. CASE h # added'
      <4>1. h \in handlers[b] /\ h \in Ids
        BY <2>3, <2>4, <3>2
      <4>2. since'[h] = since[h] /\ captured'[b] = captured[b] /\ added' = added + 1
        BY <2>1, <2>2, <3>2, <4>1
      <4>3. h <= added /\ since[h] <= captured[b] /\ h \in Nat /\ added \in Nat
        BY <4>1
      <4> QED  BY <4>2, <4>3
    <3> QED  BY <3>1, <3>2
  <2>7. \A b, c \in Addresses : \A h \in handlers'[b] : h \in handlers'[c] => b = c
    BY <2>3, <2>4
  <2>8. \A h \in Ids : h > added' => written'[h] = <<>>
    BY <2>1 DEF Ids
  <2>9. \A b \in pool' : Live(b)'
    BY <1>2, <2>3 DEF AddCapturer
  <2> QED  BY <2>5, <2>6, <2>7, <2>8, <2>9
<1>3. CASE PoolAdmits
  BY <1>3 DEF PoolAdmits
<1>4. ASSUME NEW a \in Addresses, NEW due \in SUBSET handlers[a], Capture(a, due) PROVE LogInv'
  <2>1. /\ UNCHANGED <<pool, greenlet, handlers, added, since>>
        /\ captured' = [captured EXCEPT ![a] = captured[a] + 1]
        /\ Live(a)
        /\ \A h \in Ids : written'[h] = IF h \in handlers[a]
                                        THEN Append(written[h], captured[a] + 1) ELSE written[h]
    BY <1>4 DEF Capture
  <2>2. captured'[a] = captured[a] + 1 /\ \A b \in Addresses : b # a => captured'[b] = captured[b]
    BY <2>1
  <2>3. \A h \in handlers[a] : written'[h] = PacketsAfter(since[h], captured'[a])
    <3> SUFFICES ASSUME NEW h \in handlers[a]
                 PROVE  written'[h] = PacketsAfter(since[h], captured'[a])
      OBVIOUS
    <3>1. h \in Ids /\ since[h] \in Nat /\ captured[a] \in Nat /\ since[h] <= captured[a]
      OBVIOUS
    <3>2. written[h] = PacketsAfter(since[h], captured[a])
      BY <2>1
    <3>3. Append(PacketsAfter(since[h], captured[a]), captured[a] + 1)
             = PacketsAfter(since[h], captured[a] + 1)
      BY <3>1, LogGrows
    <3> QED  BY <2>1, <2>2, <3>1, <3>2, <3>3
  <2>4. \A b \in Addresses : b # a => \A h \in handlers[b] : written'[h] = written[h]
    BY <2>1
  <2>5. LogsAreComplete'
    <3> SUFFICES ASSUME NEW b \in Addresses, Live(b)', NEW h \in handlers'[b]
                 PROVE  written'[h] = PacketsAfter(since'[h], captured'[b])
      OBVIOUS
    <3> QED  BY <2>1, <2>2, <2>3, <2>4
  <2>6. \A b \in Addresses : \A h \in handlers'[b] : h <= added' /\ since'[h] <= captured'[b]
    BY <2>1, <2>2
  <2>7. \A h \in Ids : h > added' => written'[h] = <<>>
    BY <2>1 DEF Ids
  <2> QED  BY <2>1, <2>5, <2>6, <2>7
<1>5. ASSUME NEW a \in Addresses, NEW due \in SUBSET handlers[a], CaptureFails(a, due)
      PROVE LogInv'
  BY <1>5 DEF CaptureFails, CleanUp
<1>6. ASSUME NEW a \in Addresses, NEW due \in SUBSET handlers[a], NEW k \in handlers[a],
             WriteFails(a, due, k)
      PROVE LogInv'
  <2>1. /\ UNCHANGED <<handlers, added, since>>
        /\ captured'[a] = captured[a] + 1
        /\ greenlet'[a] = "dead" /\ pool' = pool \ {a}
        /\ \A b \in Addresses : b # a => captured'[b] = captured[b] /\ greenlet'[b] = greenlet[b]
        /\ \A h \in Ids : h \notin handlers[a] => written'[h] = written[h]
    BY <1>6 DEF WriteFails, CleanUp
  <2>2. \A b \in Addresses : b # a => \A h \in handlers[b] : written'[h] = written[h]
    BY <2>1
  <2>3. LogsAreComplete'
    <3> SUFFICES ASSUME NEW b \in Addresses, Live(b)', NEW h \in handlers'[b]
                 PROVE  written'[h] = PacketsAfter(since'[h], captured'[b])
      OBVIOUS
    <3> QED  BY <2>1, <2>2
  <2>4. \A b \in Addresses : \A h \in handlers'[b] : h <= added' /\ since'[h] <= captured'[b]
    BY <2>1
  <2>5. \A h \in Ids : h > added' => written'[h] = <<>>
    BY <2>1 DEF Ids
  <2> QED  BY <2>1, <2>3, <2>4, <2>5
<1>7. ASSUME NEW a \in Addresses, Killed(a) PROVE LogInv'
  BY <1>7 DEF Killed, CleanUp
<1>8. ASSUME NEW n \in Names, Rotate(n) PROVE LogInv'
  BY <1>8 DEF Rotate
<1>9. ASSUME NEW n \in Names, NEW h \in Named(n), NEW done \in SUBSET Named(n),
             RotateFails(n, h, done)
      PROVE LogInv'
  BY <1>9 DEF RotateFails
<1>17. ASSUME NEW a \in Addresses, NEW due \in SUBSET handlers[a], NEW k \in handlers[a],
              RotationFails(a, due, k)
       PROVE  LogInv'
  BY <1>17 DEF RotationFails, CleanUp
<1>18. ASSUME NEW a \in Addresses, StopFails(a) PROVE LogInv'
  BY <1>18 DEF StopFails
<1>10. ASSUME NEW n \in Names, StopHandler(n) PROVE LogInv'
  BY <1>10 DEF StopHandler
<1>11. ASSUME NEW a \in Addresses, StopNext(a) PROVE LogInv'
  <2> DEFINE last == LastNamed(a, request.name)
  <2>1. /\ UNCHANGED <<pool, added, captured>>
        /\ last \subseteq handlers[a] /\ last \subseteq Ids
        /\ Drop(last)
        /\ handlers' = [handlers EXCEPT ![a] = @ \ last]
    BY <1>11 DEF StopNext, LastNamed
  <2> HIDE DEF last
  <2>2. /\ handlers'[a] = handlers[a] \ last
        /\ \A b \in Addresses : b # a => handlers'[b] = handlers[b]
    BY <2>1
  <2>3. \A h \in Ids : /\ h \notin last => written'[h] = written[h] /\ since'[h] = since[h]
                       /\ h \in last => written'[h] = <<>>
    BY <2>1 DEF Drop, Set, TypeOK
  <2>4. \A b \in Addresses : Live(b)' => Live(b)
    BY <1>11 DEF StopNext, KillOne
  <2>5. \A b \in Addresses : Live(b) => Live(b)'
    BY <1>11 DEF StopNext, KillOne
  <2>6. \A b \in Addresses : \A h \in handlers'[b] : h \in handlers[b] /\ h \notin last /\ h \in Ids
    BY <2>1, <2>2
  <2>7. LogsAreComplete'
    <3> SUFFICES ASSUME NEW b \in Addresses, Live(b)', NEW h \in handlers'[b]
                 PROVE  written'[h] = PacketsAfter(since'[h], captured'[b])
      OBVIOUS
    <3> QED  BY <2>1, <2>3, <2>4, <2>6
  <2>8. \A b \in Addresses : \A h \in handlers'[b] : h <= added' /\ since'[h] <= captured'[b]
    BY <2>1, <2>3, <2>6
  <2>9. \A h \in Ids : h > added' => written'[h] = <<>>
    BY <2>1, <2>3
  <2>10. \A b, c \in Addresses : \A h \in handlers'[b] : h \in handlers'[c] => b = c
    BY <2>6
  <2> QED  BY <2>1, <2>5, <2>7, <2>8, <2>9, <2>10
<1>12. CASE StopJoined
  BY <1>12 DEF StopJoined
<1>13. CASE StopEnds
  BY <1>13 DEF StopEnds
<1>14. ASSUME NEW a \in Addresses, StopCapturer(a) PROVE LogInv'
  BY <1>14 DEF StopCapturer, KillOne
<1>15. CASE CapturerJoined
  <2> DEFINE gone == handlers[request.at]
  <2>1. /\ UNCHANGED <<pool, greenlet, added, captured>>
        /\ request.at \in Addresses
        /\ gone \subseteq Ids
        /\ Drop(gone)
        /\ handlers' = [handlers EXCEPT ![request.at] = {}]
    BY <1>15 DEF CapturerJoined, TypeOK
  <2>2. \A b \in Addresses : \A h \in handlers'[b] : h \in handlers[b] /\ h \notin gone /\ h \in Ids
    BY <2>1
  <2> HIDE DEF gone
  <2>3. \A h \in Ids : /\ h \notin gone => written'[h] = written[h] /\ since'[h] = since[h]
                       /\ h \in gone => written'[h] = <<>>
    BY <2>1 DEF Drop, Set, TypeOK
  <2>4. LogsAreComplete'
    <3> SUFFICES ASSUME NEW b \in Addresses, Live(b)', NEW h \in handlers'[b]
                 PROVE  written'[h] = PacketsAfter(since'[h], captured'[b])
      OBVIOUS
    <3> QED  BY <2>1, <2>2, <2>3
  <2>5. \A b \in Addresses : \A h \in handlers'[b] : h <= added' /\ since'[h] <= captured'[b]
    BY <2>1, <2>2, <2>3
  <2>6. \A h \in Ids : h > added' => written'[h] = <<>>
    BY <2>1, <2>3
  <2>7. \A b, c \in Addresses : \A h \in handlers'[b] : h \in handlers'[c] => b = c
    BY <2>2
  <2> QED  BY <2>1, <2>4, <2>5, <2>6, <2>7
<1>16. CASE UNCHANGED vars
  BY <1>16 DEF vars
<1> QED  BY <1>1, <1>2, <1>3, <1>4, <1>5, <1>6, <1>7, <1>8, <1>9, <1>10, <1>11, <1>12,
            <1>13, <1>14, <1>15, <1>16, <1>17, <1>18 DEF Next, Requests, Continues, Captures

\* The log of every handler of a living capturer has every packet that was
\* received since the handler came, in order (bsc.py 211-223, 255, 272-274).
THEOREM LogsStayComplete == Spec => []LogsAreComplete
<1>1. Init => LogInv
  BY DEF Init, LogInv, Live, LogsAreComplete
<1>2. LogInv => LogsAreComplete
  BY DEF LogInv
<1> QED  BY <1>1, <1>2, TypeCorrect, LogStep, PTL DEF Spec

=============================================================================
