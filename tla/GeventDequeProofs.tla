------------------------- MODULE GeventDequeProofs -------------------------
(***************************************************************************)
(* Theorems about GeventDeque, for every number of greenlets, maxlen and   *)
(* number of items.                                                        *)
(***************************************************************************)
EXTENDS GeventDeque, SequenceTheorems, TLAPS

-----------------------------------------------------------------------------
(* What the deque's own operations return.                                 *)

LEMMA KeepType ==
    ASSUME NEW d \in Seq(Items)
    PROVE  /\ KeepRight(d) \in Seq(Items) /\ KeepLeft(d) \in Seq(Items)
           /\ Len(KeepRight(d)) <= MaxLen /\ Len(KeepLeft(d)) <= MaxLen
           /\ d # <<>> => KeepRight(d) # <<>> /\ KeepLeft(d) # <<>>
<1>1. MaxLen \in Nat /\ MaxLen > 0
  BY MaxLenAssumption
<1>2. Len(d) \in Nat /\ \A i \in 1 .. Len(d) : d[i] \in Items
  BY ElementOfSeq, LenProperties
<1>3. CASE Len(d) > MaxLen
  <2>1. /\ KeepRight(d) \in Seq(Items)
        /\ Len(KeepRight(d)) = MaxLen
    <3>1. \A i \in Len(d) - MaxLen + 1 .. Len(d) : d[i] \in Items
      BY <1>1, <1>2, <1>3
    <3>2. SubSeq(d, Len(d) - MaxLen + 1, Len(d)) \in Seq(Items)
      BY <3>1, <1>1, <1>2, SubSeqProperties
    <3>3. Len(SubSeq(d, Len(d) - MaxLen + 1, Len(d))) = MaxLen
      BY <3>1, <1>1, <1>2, <1>3, SubSeqProperties
    <3> QED BY <3>2, <3>3, <1>3 DEF KeepRight
  <2>2. /\ KeepLeft(d) \in Seq(Items)
        /\ Len(KeepLeft(d)) = MaxLen
    <3>1. \A i \in 1 .. MaxLen : d[i] \in Items
      BY <1>1, <1>2, <1>3
    <3>2. SubSeq(d, 1, MaxLen) \in Seq(Items)
      BY <3>1, <1>1, <1>2, SubSeqProperties
    <3>3. Len(SubSeq(d, 1, MaxLen)) = MaxLen
      BY <3>1, <1>1, <1>2, <1>3, SubSeqProperties
    <3> QED BY <3>2, <3>3, <1>3 DEF KeepLeft
  <2> QED BY <2>1, <2>2, <1>1, EmptySeq
<1>4. CASE ~(Len(d) > MaxLen)
  BY <1>1, <1>2, <1>4 DEF KeepRight, KeepLeft
<1> QED BY <1>3, <1>4

LEMMA BackwardType ==
    ASSUME NEW S, NEW d \in Seq(S)
    PROVE  Backward(d) \in Seq(S) /\ Len(Backward(d)) = Len(d)
<1>1. Len(d) \in Nat /\ \A i \in 1 .. Len(d) : d[i] \in S
  BY ElementOfSeq, LenProperties
<1>2. Backward(d) \in [1 .. Len(d) -> S]
  BY <1>1 DEF Backward
<1>3. Backward(d) \in Seq(S)
  BY <1>1, <1>2, SeqDef
<1> QED BY <1>1, <1>2, <1>3, LenProperties

LEMMA RotateType ==
    ASSUME NEW S, NEW d \in Seq(S)
    PROVE  RotateRight(d) \in Seq(S) /\ Len(RotateRight(d)) = Len(d)
<1>1. Len(d) \in Nat /\ \A i \in 1 .. Len(d) : d[i] \in S
  BY ElementOfSeq, LenProperties
<1>2. RotateRight(d) \in [1 .. Len(d) -> S]
  BY <1>1 DEF RotateRight
<1>3. RotateRight(d) \in Seq(S)
  BY <1>1, <1>2, SeqDef
<1> QED BY <1>1, <1>2, <1>3, LenProperties

LEMMA FreshType ==
    ASSUME produced \in 0 .. MaxItems, NEW n \in Nat, produced + n <= MaxItems
    PROVE  /\ Fresh(n) \in Seq(Items)
           /\ Len(Fresh(n)) = n
           /\ \A i \in 1 .. n : Fresh(n)[i] = produced + i
<1>1. MaxItems \in Nat
  BY MaxItemsAssumption
<1>2. Fresh(n) \in [1 .. n -> Items]
  BY <1>1 DEF Fresh, Items
<1>3. Fresh(n) \in Seq(Items)
  BY <1>2, SeqDef
<1>4. Len(Fresh(n)) = n
  BY <1>2, <1>3, LenProperties
<1> QED BY <1>3, <1>4 DEF Fresh

LEMMA WithoutIndexType ==
    ASSUME NEW S, NEW d \in Seq(S), NEW k \in 1 .. Len(d)
    PROVE  WithoutIndex(d, k) \in Seq(S) /\ Len(WithoutIndex(d, k)) = Len(d) - 1
<1>1. Len(d) \in Nat /\ \A i \in 1 .. Len(d) : d[i] \in S
  BY ElementOfSeq, LenProperties
<1>2. /\ SubSeq(d, 1, k - 1) \in Seq(S)
      /\ Len(SubSeq(d, 1, k - 1)) = k - 1
  <2>1. \A i \in 1 .. k - 1 : d[i] \in S
    BY <1>1
  <2> QED BY <2>1, <1>1, SubSeqProperties
<1>3. /\ SubSeq(d, k + 1, Len(d)) \in Seq(S)
      /\ Len(SubSeq(d, k + 1, Len(d))) = Len(d) - k
  <2>1. \A i \in k + 1 .. Len(d) : d[i] \in S
    BY <1>1
  <2> QED BY <2>1, <1>1, SubSeqProperties
<1>4. /\ WithoutIndex(d, k) \in Seq(S)
      /\ Len(WithoutIndex(d, k)) = Len(SubSeq(d, 1, k - 1)) + Len(SubSeq(d, k + 1, Len(d)))
  BY <1>2, <1>3, ConcatProperties DEF WithoutIndex
<1>5. k - 1 + (Len(d) - k) = Len(d) - 1
  BY <1>1
<1> QED BY <1>2, <1>3, <1>4, <1>5

LEMMA FrontType ==
    ASSUME NEW S, NEW d \in Seq(S), d # <<>>
    PROVE  /\ SubSeq(d, 1, Len(d) - 1) \in Seq(S)
           /\ Len(SubSeq(d, 1, Len(d) - 1)) = Len(d) - 1
           /\ \A i \in 1 .. Len(d) - 1 : SubSeq(d, 1, Len(d) - 1)[i] = d[i]
<1>1. Len(d) \in Nat \ {0} /\ \A i \in 1 .. Len(d) : d[i] \in S
  BY EmptySeq, ElementOfSeq
<1>2. PICK n \in Nat : Len(d) = n + 1
  BY <1>1
<1>3. \A i \in 1 .. n : d[i] \in S
  BY <1>1, <1>2
<1>4. /\ SubSeq(d, 1, n) \in Seq(S)
      /\ Len(SubSeq(d, 1, n)) = n
      /\ \A i \in 1 .. n : SubSeq(d, 1, n)[i] = d[i]
  BY <1>3, SubSeqProperties
<1>5. Len(d) - 1 = n
  BY <1>2
<1> QED BY <1>4, <1>5

-----------------------------------------------------------------------------
(* Types.                                                                  *)

LEMMA TakeType ==
    ASSUME TypeOK, NEW isLeft \in BOOLEAN, Take(isLeft)
    PROVE  /\ deque' \in Seq(Items)
           /\ Len(deque') = Len(deque) - 1
           /\ got' \in Seq(Items)
           /\ notEmpty' \in BOOLEAN
           /\ (notEmpty /\ deque' # <<>>) => notEmpty'
           /\ notEmpty' => deque' # <<>>
<1>1. /\ deque \in Seq(Items) /\ deque # <<>> /\ got \in Seq(Items)
      /\ notEmpty \in BOOLEAN
  BY DEF TypeOK, Take
<1>2. Len(deque) \in Nat \ {0} /\ \A i \in 1 .. Len(deque) : deque[i] \in Items
  BY <1>1, EmptySeq, ElementOfSeq
<1>3. /\ deque' \in Seq(Items)
      /\ Len(deque') = Len(deque) - 1
  <2>1. CASE isLeft
    BY <2>1, <1>1, HeadTailProperties DEF Take
  <2>2. CASE ~isLeft
    BY <2>2, <1>1, FrontType DEF Take
  <2> QED BY <2>1, <2>2
<1>4. got' \in Seq(Items)
  BY <1>1, <1>2, AppendProperties DEF Take
<1>5. /\ notEmpty' = (notEmpty /\ Len(deque) > 1)
  BY DEF Take
<1>6. deque' = <<>> <=> Len(deque) = 1
  BY <1>3, <1>2, EmptySeq
<1>7. Len(deque) > 1 <=> deque' # <<>>
  <2>1. \A n \in Nat \ {0} : n > 1 <=> n # 1
    OBVIOUS
  <2>2. Len(deque) > 1 <=> Len(deque) # 1
    BY <2>1, <1>2
  <2> QED BY <2>2, <1>6
<1>8. /\ notEmpty' \in BOOLEAN
      /\ notEmpty /\ deque' # <<>> => notEmpty'
      /\ notEmpty' => deque' # <<>>
  BY <1>1, <1>5, <1>7, Zenon
<1> QED BY <1>3, <1>4, <1>8

LEMMA InsertType ==
    ASSUME TypeOK, NEW g \in Greenlets, NEW d, NEW n \in Nat,
           d \in Seq(Items), Len(d) <= MaxLen, Insert(g, d, n), uses' \in Uses
    PROVE  TypeOK'
<1>1. produced' \in 0 .. MaxItems
  BY MaxItemsAssumption DEF TypeOK, Insert
<1>2. notEmpty' \in BOOLEAN /\ notifier' \in BOOLEAN
  BY DEF TypeOK, Insert, SetEvent
<1> QED BY <1>1, <1>2 DEF TypeOK, Insert

\* One step of the whole interface keeps the types.
LEMMA TypeStep == TypeOK /\ [Next]_vars => TypeOK'
<1> SUFFICES ASSUME TypeOK, [Next]_vars PROVE TypeOK'
  OBVIOUS
<1>1. /\ deque \in Seq(Items) /\ Len(deque) \in Nat /\ Len(deque) <= MaxLen
      /\ produced \in 0 .. MaxItems
      /\ MaxLen \in Nat \ {0} /\ MaxItems \in Nat
  BY LenProperties, MaxLenAssumption, MaxItemsAssumption DEF TypeOK
<1>2. CASE Notify
  BY <1>2 DEF TypeOK, Notify, Status
<1>3. ASSUME NEW g \in Greenlets, NEW isLeft \in BOOLEAN, PopNow(g, isLeft)
      PROVE  TypeOK'
  <2>1. Take(isLeft) /\ uses' \in Uses
    BY <1>3 DEF PopNow, MarkPop, MarkDeque, TypeOK, Uses
  <2> QED BY <1>1, <1>3, <2>1, TakeType DEF TypeOK, PopNow
<1>4. ASSUME NEW g \in Greenlets, NEW isLeft \in BOOLEAN,
             NEW hasTimeout \in BOOLEAN, PopBlock(g, isLeft, hasTimeout)
      PROVE  TypeOK'
  <2>1. /\ left' \in [Greenlets -> BOOLEAN] /\ timed' \in [Greenlets -> BOOLEAN]
        /\ status' \in [Greenlets -> Status]
        /\ notifier' \in BOOLEAN /\ produced' \in 0 .. MaxItems
        /\ uses' \in Uses
    BY <1>4 DEF TypeOK, PopBlock, Status, MarkPop, MarkDeque, Uses
  <2>2. CASE Take(isLeft)
    BY <1>1, <2>1, <2>2, TakeType DEF TypeOK
  <2>3. CASE UNCHANGED <<deque, notEmpty, got>>
    BY <2>1, <2>3 DEF TypeOK
  <2> QED BY <1>4, <2>2, <2>3 DEF PopBlock
<1>5. ASSUME NEW g \in Greenlets, Wake(g)
      PROVE  TypeOK'
  <2>1. /\ left' \in [Greenlets -> BOOLEAN] /\ timed' \in [Greenlets -> BOOLEAN]
        /\ status' \in [Greenlets -> Status]
        /\ notifier' \in BOOLEAN /\ produced' \in 0 .. MaxItems
        /\ uses' \in Uses
    BY <1>5 DEF TypeOK, Wake, Status
  <2>2. CASE Take(left[g])
    <3>1. left[g] \in BOOLEAN
      BY DEF TypeOK
    <3> QED BY <1>1, <2>1, <2>2, <3>1, TakeType DEF TypeOK
  <2>3. CASE UNCHANGED <<deque, notEmpty, got>>
    BY <2>1, <2>3 DEF TypeOK
  <2> QED BY <1>5, <2>2, <2>3 DEF Wake
<1>6. ASSUME NEW g \in Greenlets, TimerFires(g) \/ Spin(g)
      PROVE  TypeOK'
  BY <1>6 DEF TypeOK, TimerFires, Spin, Status, vars
<1>7. ASSUME NEW g \in Greenlets, NEW n \in Nat, Extend(g, n)
      PROVE  TypeOK'
  <2>1. produced + n <= MaxItems
    BY <1>7 DEF Extend, Insert
  <2>2. deque \o Fresh(n) \in Seq(Items)
    BY <1>1, <2>1, FreshType, ConcatProperties
  <2> QED BY <1>7, <2>2, KeepType, InsertType DEF Extend, TypeOK
<1>8. ASSUME NEW g \in Greenlets, NEW n \in Nat, ExtendLeft(g, n)
      PROVE  TypeOK'
  <2>1. produced + n <= MaxItems
    BY <1>8 DEF ExtendLeft, Insert
  <2>2. Backward(Fresh(n)) \o deque \in Seq(Items)
    BY <1>1, <2>1, FreshType, BackwardType, ConcatProperties
  <2> QED BY <1>8, <2>2, KeepType, InsertType DEF ExtendLeft, MarkDeque, TypeOK, Uses
<1>9. ASSUME NEW g \in Greenlets, AppendRight(g) \/ AppendLeft(g)
      PROVE  TypeOK'
  <2>1. produced + 1 <= MaxItems
    BY <1>9 DEF AppendRight, AppendLeft, Insert
  <2>2. deque \o Fresh(1) \in Seq(Items) /\ Fresh(1) \o deque \in Seq(Items)
    BY <1>1, <2>1, FreshType, ConcatProperties
  <2>3. CASE AppendRight(g)
    BY <2>2, <2>3, KeepType, InsertType DEF AppendRight, TypeOK
  <2>4. CASE AppendLeft(g)
    BY <2>2, <2>4, KeepType, InsertType DEF AppendLeft, MarkDeque, TypeOK, Uses
  <2> QED BY <1>9, <2>3, <2>4
<1>10. ASSUME NEW g \in Greenlets, Clear(g) \/ Reverse(g) \/ Rotate(g)
       PROVE  TypeOK'
  <2>1. /\ Backward(deque) \in Seq(Items) /\ Len(Backward(deque)) = Len(deque)
        /\ RotateRight(deque) \in Seq(Items) /\ Len(RotateRight(deque)) = Len(deque)
    BY <1>1, BackwardType, RotateType
  <2>2. CASE Clear(g)
    <3>1. <<>> \in Seq(Items) /\ Len(<<>>) = 0
      BY EmptySeq
    <3>2. deque' \in Seq(Items) /\ Len(deque') <= MaxLen
      BY <1>1, <2>2, <3>1 DEF Clear
    <3> QED BY <3>2, <2>2 DEF TypeOK, Clear
  <2>3. CASE Reverse(g)
    BY <1>1, <2>1, <2>3 DEF TypeOK, Reverse, Reorder, MarkDeque, Uses
  <2>4. CASE Rotate(g)
    BY <1>1, <2>1, <2>4 DEF TypeOK, Rotate, Reorder, MarkDeque, Uses
  <2> QED BY <1>10, <2>2, <2>3, <2>4
<1>11. ASSUME NEW g \in Greenlets, NEW k, Remove(g, k)
       PROVE  TypeOK'
  <2>1. /\ WithoutIndex(deque, k) \in Seq(Items)
        /\ Len(WithoutIndex(deque, k)) = Len(deque) - 1
    BY <1>1, <1>11, WithoutIndexType DEF Remove
  <2>2. Len(deque) - 1 <= MaxLen
    BY <1>1
  <2> QED BY <1>1, <1>11, <2>1, <2>2 DEF TypeOK, Remove, Uses
<1>12. CASE UNCHANGED vars
  BY <1>12 DEF TypeOK, vars
<1>13. 0 .. MaxItems \subseteq Nat
  OBVIOUS
<1> QED BY <1>2, <1>3, <1>4, <1>5, <1>6, <1>7, <1>8, <1>9, <1>10, <1>11, <1>12,
           <1>13 DEF Next, Pops, Inserts, Changes, Removes

LEMMA TypeInit == Init => TypeOK
<1>1. <<>> \in Seq(Items) /\ Len(<<>>) = 0
  BY EmptySeq
<1>2. ASSUME Init PROVE TypeOK
  <2>1. deque \in Seq(Items) /\ Len(deque) <= MaxLen /\ got \in Seq(Items)
    BY <1>1, <1>2, MaxLenAssumption DEF Init
  <2>2. produced \in 0 .. MaxItems
    BY <1>2, MaxItemsAssumption DEF Init
  <2> QED BY <1>2, <2>1, <2>2 DEF Init, TypeOK, Status, Uses
<1> QED BY <1>2

\* Every operation of the deque, in every interleaving with wake-ups and
\* timeouts, leaves a state of the declared types, never above maxlen.
THEOREM TypeCorrect == Spec => []TypeOK
<1>1. Init => TypeOK
  BY TypeInit
<1>2. TypeOK /\ [Next]_vars => TypeOK'
  BY TypeStep
<1> QED BY <1>1, <1>2, PTL DEF Spec

-----------------------------------------------------------------------------
(* Wake-ups.  NoLostWakeup is not inductive: the Event must be known to be  *)
(* set while items are queued, and to have a callback while it is set.      *)

EventSet == deque # <<>> => notEmpty

CallbackDue == notEmpty /\ Parked # {} => notifier \/ Woken # {}

WakeupInv == TypeOK /\ EventSet /\ CallbackDue

LEMMA SetEventWakes ==
    ASSUME SetEvent, UNCHANGED status
    PROVE  notEmpty' /\ CallbackDue'
BY DEF SetEvent, CallbackDue, Parked, Woken

LEMMA WakeupStep == WakeupInv /\ [Next]_vars => EventSet' /\ CallbackDue'
<1> SUFFICES ASSUME WakeupInv, [Next]_vars PROVE EventSet' /\ CallbackDue'
  OBVIOUS
<1>1. TypeOK /\ EventSet /\ CallbackDue /\ notEmpty \in BOOLEAN
  BY DEF WakeupInv, TypeOK
<1>2. CASE Notify
  <2>1. EventSet'
    BY <1>1, <1>2 DEF Notify, EventSet
  <2>2. Parked' = {}
    BY <1>2, <1>1 DEF Notify, Parked, TypeOK
  <2> QED BY <2>1, <2>2 DEF CallbackDue
<1>3. ASSUME NEW g \in Greenlets, NEW isLeft \in BOOLEAN, PopNow(g, isLeft)
      PROVE  EventSet' /\ CallbackDue'
  <2>1. (notEmpty /\ deque' # <<>> => notEmpty') /\ deque # <<>>
    BY <1>1, <1>3, TakeType DEF PopNow, Take
  <2>2. notEmpty' => notEmpty
    BY <1>3 DEF PopNow, Take
  <2>3. Parked' = Parked /\ Woken' = Woken /\ notifier' = notifier
    BY <1>3 DEF PopNow, Parked, Woken
  <2> QED BY <1>1, <2>1, <2>2, <2>3, Zenon DEF EventSet, CallbackDue
<1>4. ASSUME NEW g \in Greenlets, NEW isLeft \in BOOLEAN,
             NEW hasTimeout \in BOOLEAN, PopBlock(g, isLeft, hasTimeout)
      PROVE  EventSet' /\ CallbackDue'
  <2>1. notifier' = notifier /\ status[g] = "running"
    BY <1>4 DEF PopBlock, Runs
  <2>2. CASE ~notEmpty /\ UNCHANGED <<deque, notEmpty, got>>
    BY <1>1, <2>2 DEF EventSet, CallbackDue
  <2>3. CASE Take(isLeft) /\ UNCHANGED status
    <3>1. (notEmpty /\ deque' # <<>> => notEmpty') /\ deque # <<>>
      BY <1>1, <2>3, TakeType DEF Take
    <3>2. notEmpty' => notEmpty
      BY <2>3 DEF Take
    <3>3. Parked' = Parked /\ Woken' = Woken
      BY <2>3 DEF Parked, Woken
    <3> QED BY <1>1, <2>1, <3>1, <3>2, <3>3, Zenon DEF EventSet, CallbackDue
  <2>4. CASE /\ status' = [status EXCEPT ![g] = "spinning"]
             /\ UNCHANGED <<deque, notEmpty, got>>
    <3>1. Parked' = Parked /\ Woken' = Woken
      BY <1>1, <2>1, <2>4 DEF Parked, Woken, TypeOK
    <3> QED BY <1>1, <2>1, <2>4, <3>1 DEF EventSet, CallbackDue
  <2> QED BY <1>4, <2>2, <2>3, <2>4 DEF PopBlock
<1>5. ASSUME NEW g \in Greenlets, Wake(g)
      PROVE  EventSet' /\ CallbackDue'
  <2>1. EventSet'
    <3>1. CASE Take(left[g])
      <4>1. left[g] \in BOOLEAN
        BY <1>1 DEF TypeOK
      <4>2. notEmpty /\ deque' # <<>> => notEmpty'
        BY <1>1, <3>1, <4>1, TakeType
      <4>3. deque # <<>>
        BY <3>1 DEF Take
      <4> QED BY <1>1, <4>2, <4>3 DEF EventSet
    <3>2. CASE UNCHANGED <<deque, notEmpty, got>>
      BY <1>1, <3>2 DEF EventSet
    <3> QED BY <1>5, <3>1, <3>2 DEF Wake
  <2>2. CallbackDue'
    <3>1. SUFFICES ASSUME notEmpty', Parked' # {} PROVE notifier' \/ Woken' # {}
      BY DEF CallbackDue
    <3>2. CASE Woken = {g}
      <4>1. \E h \in Greenlets : status'[h] = "parked"
        BY <3>1 DEF Parked
      <4> QED BY <1>5, <3>1, <3>2, <4>1 DEF Wake
    <3>3. CASE Woken # {g}
      <4>1. g \in Woken
        BY <1>5 DEF Wake, Woken
      <4>2. PICK h \in Woken : h # g
        BY <3>3, <4>1
      <4>3. status'[h] = "woken"
        BY <1>1, <1>5, <4>2 DEF Wake, Woken, TypeOK
      <4> QED BY <4>2, <4>3 DEF Woken
    <3> QED BY <3>2, <3>3
  <2> QED BY <2>1, <2>2
<1>6. ASSUME NEW g \in Greenlets, TimerFires(g)
      PROVE  EventSet' /\ CallbackDue'
  <2>1. Parked' \subseteq Parked /\ Woken' = Woken
    BY <1>1, <1>6 DEF TimerFires, Parked, Woken, TypeOK
  <2>2. UNCHANGED <<deque, notEmpty, notifier>>
    BY <1>6 DEF TimerFires
  <2> QED BY <1>1, <2>1, <2>2 DEF EventSet, CallbackDue
<1>7. ASSUME NEW g \in Greenlets, NEW d, NEW n, Insert(g, d, n)
      PROVE  EventSet' /\ CallbackDue'
  <2>1. CASE d = <<>>
    BY <1>1, <1>7, <2>1 DEF Insert, EventSet, CallbackDue, Parked, Woken
  <2>2. CASE d # <<>>
    BY <1>7, <2>2, SetEventWakes DEF Insert, EventSet
  <2> QED BY <2>1, <2>2
<1>8. ASSUME NEW g \in Greenlets, Clear(g)
      PROVE  EventSet' /\ CallbackDue'
  BY <1>8 DEF Clear, EventSet, CallbackDue
<1>9. ASSUME NEW g \in Greenlets, Reverse(g) \/ Rotate(g) \/ \E k : Remove(g, k)
      PROVE  EventSet' /\ CallbackDue'
  <2>1. deque' # <<>> => deque # <<>>
    <3>1. deque \in Seq(Items)
      BY <1>1 DEF TypeOK
    <3>2. CASE deque = <<>>
      <4>1. Len(deque) = 0
        BY <3>2, EmptySeq
      <4>2. Backward(deque) = <<>> /\ RotateRight(deque) = <<>>
        BY <3>1, <4>1, BackwardType, RotateType, EmptySeq
      <4>3. ~ \E k : Remove(g, k)
        BY <4>1 DEF Remove
      <4> QED BY <1>9, <4>2, <4>3 DEF Reverse, Rotate, Reorder
    <3> QED BY <3>2
  <2>2. UNCHANGED <<notEmpty, notifier, status>>
    BY <1>9 DEF Reverse, Rotate, Reorder, Remove
  <2> QED BY <1>1, <2>1, <2>2 DEF EventSet, CallbackDue, Parked, Woken
<1>10. CASE UNCHANGED vars
  BY <1>1, <1>10 DEF vars, EventSet, CallbackDue, Parked, Woken
<1> QED BY <1>2, <1>3, <1>4, <1>5, <1>6, <1>7, <1>8, <1>9, <1>10
        DEF Next, Pops, Inserts, Changes, Removes, Spin, Extend, ExtendLeft,
            AppendRight, AppendLeft

\* Whatever pops, wake-ups, timeouts and other operations interleave, remove()
\* included, no pop sleeps on a non-empty deque without a callback under way.
THEOREM NoWakeupIsLost == Spec => []NoLostWakeup
<1>1. Init => WakeupInv
  BY TypeInit DEF Init, WakeupInv, EventSet, CallbackDue
<1>2. WakeupInv /\ [Next]_vars => WakeupInv'
  BY TypeStep, WakeupStep DEF WakeupInv
<1>3. WakeupInv => NoLostWakeup
  BY DEF WakeupInv, EventSet, CallbackDue, NoLostWakeup
<1> QED BY <1>1, <1>2, <1>3, PTL DEF Spec

-----------------------------------------------------------------------------
(* Until remove() is called the Event is set only while items are queued.  *)

NobodySpins == \A g \in Greenlets : status[g] # "spinning"

SpinInv == WakeupInv /\ (uses # "removes" => NobodySpins /\ (notEmpty => deque # <<>>))

LEMMA SpinStep == SpinInv /\ [Next]_vars => SpinInv'
<1>2. SpinInv /\ [Next]_vars => WakeupInv'
  BY TypeStep, WakeupStep DEF SpinInv, WakeupInv
<1> SUFFICES ASSUME SpinInv, [Next]_vars, uses' # "removes"
             PROVE  NobodySpins' /\ (notEmpty' => deque' # <<>>)
  BY <1>2 DEF SpinInv
<1>0. uses # "removes" /\ ~Removes
  BY DEF Next, Pops, Inserts, Changes, Removes, Notify, PopNow, PopBlock, Wake,
         TimerFires, Spin, AppendRight, AppendLeft, Extend, ExtendLeft, Clear,
         Reverse, Rotate, Reorder, Remove, MarkPop, MarkDeque, vars
<1>1. /\ TypeOK /\ NobodySpins /\ (notEmpty => deque # <<>>)
      /\ deque \in Seq(Items) /\ Len(deque) \in Nat
  BY <1>0, LenProperties DEF SpinInv, WakeupInv, TypeOK
<1>3. CASE Notify
  BY <1>1, <1>3 DEF Notify, NobodySpins, TypeOK
<1>4. ASSUME NEW g \in Greenlets, NEW isLeft \in BOOLEAN, PopNow(g, isLeft)
      PROVE  NobodySpins' /\ (notEmpty' => deque' # <<>>)
  <2>1. notEmpty' => deque' # <<>>
    BY <1>1, <1>4, TakeType DEF PopNow
  <2> QED BY <1>1, <1>4, <2>1 DEF PopNow, NobodySpins
<1>5. ASSUME NEW g \in Greenlets, NEW isLeft \in BOOLEAN,
             NEW hasTimeout \in BOOLEAN, PopBlock(g, isLeft, hasTimeout)
      PROVE  NobodySpins' /\ (notEmpty' => deque' # <<>>)
  <2>1. CASE /\ ~notEmpty
             /\ status' = [status EXCEPT ![g] = "parked"]
             /\ UNCHANGED <<deque, notEmpty, got>>
    BY <1>1, <2>1 DEF NobodySpins, TypeOK
  <2>2. CASE Take(isLeft) /\ UNCHANGED status
    <3>1. notEmpty' => deque' # <<>>
      BY <1>1, <2>2, TakeType
    <3> QED BY <1>1, <2>2, <3>1 DEF NobodySpins
  <2> QED BY <1>1, <1>5, <2>1, <2>2 DEF PopBlock
<1>6. ASSUME NEW g \in Greenlets, Wake(g)
      PROVE  NobodySpins' /\ (notEmpty' => deque' # <<>>)
  <2>1. CASE Take(left[g]) /\ status' = [status EXCEPT ![g] = "running"]
    <3>1. left[g] \in BOOLEAN
      BY <1>1 DEF TypeOK
    <3>2. notEmpty' => deque' # <<>>
      BY <1>1, <2>1, <3>1, TakeType
    <3> QED BY <1>1, <2>1, <3>2 DEF NobodySpins, TypeOK
  <2>2. CASE /\ deque = <<>>
             /\ status' = [status EXCEPT ![g] = IF notEmpty THEN "spinning"
                                                            ELSE "parked"]
             /\ UNCHANGED <<deque, notEmpty, got>>
    BY <1>1, <2>2 DEF NobodySpins, TypeOK
  <2> QED BY <1>6, <2>1, <2>2 DEF Wake
<1>7. ASSUME NEW g \in Greenlets, TimerFires(g) \/ Spin(g)
      PROVE  NobodySpins' /\ (notEmpty' => deque' # <<>>)
  BY <1>1, <1>7 DEF TimerFires, Spin, NobodySpins, TypeOK, vars
<1>8. ASSUME NEW g \in Greenlets, NEW d, NEW n, Insert(g, d, n),
             d = <<>> => deque = <<>>
      PROVE  NobodySpins' /\ (notEmpty' => deque' # <<>>)
  BY <1>1, <1>8 DEF Insert, SetEvent, NobodySpins
<1>9. ASSUME NEW g \in Greenlets, Inserts
      PROVE  NobodySpins' /\ (notEmpty' => deque' # <<>>)
  <2>1. PICK h \in Greenlets :
               \/ AppendRight(h) \/ AppendLeft(h)
               \/ \E n \in 0 .. MaxItems : Extend(h, n) \/ ExtendLeft(h, n)
    BY <1>9 DEF Inserts
  <2>2. PICK n \in Nat :
               /\ produced + n <= MaxItems
               /\ \/ Insert(h, KeepRight(deque \o Fresh(n)), n)
                  \/ Insert(h, KeepLeft(Backward(Fresh(n)) \o deque), n)
                  \/ Insert(h, KeepLeft(Fresh(n) \o deque), n)
    <3>1. 0 .. MaxItems \subseteq Nat /\ 1 \in Nat
      OBVIOUS
    <3> QED BY <2>1, <3>1 DEF AppendRight, AppendLeft, Extend, ExtendLeft, Insert
  <2>3. produced \in 0 .. MaxItems
    BY <1>1 DEF TypeOK
  <2>4. /\ Fresh(n) \in Seq(Items)
        /\ Backward(Fresh(n)) \in Seq(Items)
    BY <2>2, <2>3, FreshType, BackwardType
  <2>5. ASSUME deque # <<>>
        PROVE  /\ KeepRight(deque \o Fresh(n)) # <<>>
               /\ KeepLeft(Backward(Fresh(n)) \o deque) # <<>>
               /\ KeepLeft(Fresh(n) \o deque) # <<>>
    <3>1. /\ deque \o Fresh(n) # <<>>
          /\ Backward(Fresh(n)) \o deque # <<>>
          /\ Fresh(n) \o deque # <<>>
      BY <1>1, <2>4, <2>5, ConcatEqualIffEmpty
    <3>2. /\ deque \o Fresh(n) \in Seq(Items)
          /\ Backward(Fresh(n)) \o deque \in Seq(Items)
          /\ Fresh(n) \o deque \in Seq(Items)
      BY <1>1, <2>4, ConcatProperties
    <3> QED BY <3>1, <3>2, KeepType
  <2> QED BY <1>8, <2>2, <2>5
<1>10. ASSUME NEW g \in Greenlets, Clear(g) \/ Reverse(g) \/ Rotate(g)
       PROVE  NobodySpins' /\ (notEmpty' => deque' # <<>>)
  <2>1. deque # <<>> => Backward(deque) # <<>> /\ RotateRight(deque) # <<>>
    <3>1. /\ Backward(deque) \in Seq(Items) /\ Len(Backward(deque)) = Len(deque)
          /\ RotateRight(deque) \in Seq(Items) /\ Len(RotateRight(deque)) = Len(deque)
      BY <1>1, BackwardType, RotateType
    <3> QED BY <1>1, <3>1, EmptySeq
  <2> QED BY <1>1, <1>10, <2>1 DEF Clear, Reverse, Rotate, Reorder, NobodySpins
<1>11. CASE UNCHANGED vars
  BY <1>1, <1>11 DEF vars, NobodySpins
<1>12. Inserts => \E g \in Greenlets : TRUE
  BY DEF Inserts
<1> QED BY <1>0, <1>3, <1>4, <1>5, <1>6, <1>7, <1>9, <1>10, <1>11, <1>12
        DEF Next, Pops, Changes

\* Until remove() is called no pop ever loops without yielding: blocking pops park,
\* and a timeout can always fire.
THEOREM PopsNeverSpin == Spec => []NeverSpins
<1>1. Init => SpinInv
  <2>1. Init => WakeupInv
    BY TypeInit DEF Init, WakeupInv, EventSet, CallbackDue
  <2> QED BY <2>1 DEF Init, SpinInv, NobodySpins
<1>2. SpinInv /\ [Next]_vars => SpinInv'
  BY SpinStep
<1>3. SpinInv => NeverSpins
  BY DEF SpinInv, NeverSpins, NobodySpins
<1> QED BY <1>1, <1>2, <1>3, PTL DEF Spec

-----------------------------------------------------------------------------
(* Items.  ReturnedOnce needs to know besides that the items in the deque   *)
(* and those returned have been inserted, so that new ones are not among   *)
(* them.                                                                    *)

Distinct(d) == \A i, j \in 1 .. Len(d) : i # j => d[i] # d[j]

\* The items of d are among those of q.
From(d, q) == \A i \in 1 .. Len(d) : \E k \in 1 .. Len(q) : d[i] = q[k]

Inserted(d) == \A i \in 1 .. Len(d) : d[i] <= produced

OnceInv == TypeOK /\ ReturnedOnce /\ Inserted(deque) /\ Inserted(got)

\* A part of a sequence has its items from it, each once if they are there once.
LEMMA PartOnce ==
    ASSUME NEW q \in Seq(Items), NEW m \in Nat \ {0}, NEW n \in Nat, n <= Len(q)
    PROVE  /\ From(SubSeq(q, m, n), q)
           /\ Distinct(q) => Distinct(SubSeq(q, m, n))
<1> DEFINE d == SubSeq(q, m, n)
<1>1. Len(q) \in Nat /\ \A i \in 1 .. Len(q) : q[i] \in Items
  BY ElementOfSeq, LenProperties
<1>2. \A i \in m .. n : q[i] \in Items
  BY <1>1
<1>3. /\ Len(d) = IF m <= n THEN n - m + 1 ELSE 0
      /\ \A i \in 1 .. n - m + 1 : d[i] = q[m + i - 1]
  BY <1>2, SubSeqProperties
<1> HIDE DEF d
<1>4. \A i \in 1 .. Len(d) : m + i - 1 \in 1 .. Len(q) /\ d[i] = q[m + i - 1]
  BY <1>1, <1>3
<1>5. Len(d) \in Nat
  BY <1>3
<1>6. From(d, q)
  BY <1>4 DEF From
<1>7. Distinct(q) => Distinct(d)
  <2> SUFFICES ASSUME Distinct(q), NEW i \in 1 .. Len(d), NEW j \in 1 .. Len(d), i # j
               PROVE  d[i] # d[j]
    BY DEF Distinct
  <2>1. /\ m + i - 1 \in 1 .. Len(q) /\ d[i] = q[m + i - 1]
        /\ m + j - 1 \in 1 .. Len(q) /\ d[j] = q[m + j - 1]
    BY <1>4
  <2>2. m + i - 1 # m + j - 1
    BY <1>5
  <2> QED BY <2>1, <2>2 DEF Distinct
<1> QED BY <1>6, <1>7 DEF d

LEMMA KeepOnce ==
    ASSUME NEW q \in Seq(Items)
    PROVE  /\ From(KeepRight(q), q) /\ From(KeepLeft(q), q)
           /\ Distinct(q) => Distinct(KeepRight(q)) /\ Distinct(KeepLeft(q))
<1>1. MaxLen \in Nat \ {0} /\ Len(q) \in Nat
  BY MaxLenAssumption, LenProperties
<1>2. CASE Len(q) > MaxLen
  <2>1. Len(q) - MaxLen + 1 \in Nat \ {0}
    BY <1>1, <1>2
  <2>2. /\ From(SubSeq(q, Len(q) - MaxLen + 1, Len(q)), q)
        /\ Distinct(q) => Distinct(SubSeq(q, Len(q) - MaxLen + 1, Len(q)))
    BY <1>1, <2>1, PartOnce
  <2>3. /\ From(SubSeq(q, 1, MaxLen), q)
        /\ Distinct(q) => Distinct(SubSeq(q, 1, MaxLen))
    BY <1>1, <1>2, PartOnce
  <2> QED BY <1>2, <2>2, <2>3 DEF KeepRight, KeepLeft
<1>3. CASE ~(Len(q) > MaxLen)
  BY <1>3 DEF KeepRight, KeepLeft, From
<1> QED BY <1>2, <1>3

LEMMA ReorderOnce ==
    ASSUME NEW q \in Seq(Items)
    PROVE  /\ From(Backward(q), q) /\ From(RotateRight(q), q)
           /\ Distinct(q) => Distinct(Backward(q)) /\ Distinct(RotateRight(q))
<1>1. /\ Len(q) \in Nat
      /\ Len(Backward(q)) = Len(q) /\ Len(RotateRight(q)) = Len(q)
  BY LenProperties, BackwardType, RotateType
<1>2. \A i \in 1 .. Len(q) : /\ Len(q) + 1 - i \in 1 .. Len(q)
                             /\ Backward(q)[i] = q[Len(q) + 1 - i]
  BY <1>1 DEF Backward
<1>3. \A i \in 1 .. Len(q) : /\ (IF i = 1 THEN Len(q) ELSE i - 1) \in 1 .. Len(q)
                             /\ RotateRight(q)[i] = q[IF i = 1 THEN Len(q) ELSE i - 1]
  BY <1>1 DEF RotateRight
<1>4. From(Backward(q), q) /\ From(RotateRight(q), q)
  BY <1>1, <1>2, <1>3 DEF From
<1>5. Distinct(q) => Distinct(Backward(q))
  BY SMTT(30), <1>1, <1>2 DEF Distinct
<1>6. Distinct(q) => Distinct(RotateRight(q))
  <2> SUFFICES ASSUME Distinct(q), NEW i \in 1 .. Len(q), NEW j \in 1 .. Len(q), i # j
               PROVE  RotateRight(q)[i] # RotateRight(q)[j]
    BY <1>1 DEF Distinct
  <2>1. (IF i = 1 THEN Len(q) ELSE i - 1) # (IF j = 1 THEN Len(q) ELSE j - 1)
    BY <1>1
  <2> QED BY <1>3, <2>1 DEF Distinct
<1> QED BY <1>4, <1>5, <1>6

LEMMA WithoutOnce ==
    ASSUME NEW q \in Seq(Items), NEW k \in 1 .. Len(q)
    PROVE  /\ From(WithoutIndex(q, k), q)
           /\ Distinct(q) => Distinct(WithoutIndex(q, k))
<1> DEFINE a == SubSeq(q, 1, k - 1)
           b == SubSeq(q, k + 1, Len(q))
<1>1. Len(q) \in Nat /\ \A i \in 1 .. Len(q) : q[i] \in Items
  BY ElementOfSeq, LenProperties
<1>2. a \in Seq(Items) /\ Len(a) = k - 1 /\ \A i \in 1 .. k - 1 : a[i] = q[i]
  <2>1. \A i \in 1 .. k - 1 : q[i] \in Items
    BY <1>1
  <2> QED BY <1>1, <2>1, SubSeqProperties
<1>3. /\ b \in Seq(Items) /\ Len(b) = Len(q) - k
      /\ \A i \in 1 .. Len(q) - k : b[i] = q[k + i]
  <2>1. \A i \in k + 1 .. Len(q) : q[i] \in Items
    BY <1>1
  <2> QED BY <1>1, <2>1, SubSeqProperties
<1>4. WithoutIndex(q, k) = a \o b
  BY DEF WithoutIndex
<1> HIDE DEF a, b
<1>5. /\ Len(a \o b) = Len(q) - 1
      /\ \A i \in 1 .. Len(q) - 1 : (a \o b)[i] = IF i <= k - 1 THEN a[i] ELSE b[i - (k - 1)]
  BY <1>1, <1>2, <1>3, ConcatProperties
<1>6. \A i \in 1 .. Len(q) - 1 : (a \o b)[i] = q[IF i <= k - 1 THEN i ELSE i + 1]
  <2> SUFFICES ASSUME NEW i \in 1 .. Len(q) - 1
               PROVE  (a \o b)[i] = q[IF i <= k - 1 THEN i ELSE i + 1]
    OBVIOUS
  <2>1. CASE i <= k - 1
    BY <1>1, <1>2, <1>5, <2>1
  <2>2. CASE ~(i <= k - 1)
    <3>1. i - (k - 1) \in 1 .. Len(q) - k /\ k + (i - (k - 1)) = i + 1
      BY <1>1, <2>2
    <3> QED BY <1>3, <1>5, <2>2, <3>1
  <2> QED BY <2>1, <2>2
<1>7. From(a \o b, q)
  BY <1>1, <1>5, <1>6 DEF From
<1>8. Distinct(q) => Distinct(a \o b)
  BY SMTT(30), <1>1, <1>5, <1>6 DEF Distinct
<1> QED BY <1>4, <1>7, <1>8

\* Two sequences one after the other
LEMMA ConcatOnce ==
    ASSUME NEW s \in Seq(Items), NEW t \in Seq(Items)
    PROVE  /\ \A i \in 1 .. Len(s \o t) : \/ \E k \in 1 .. Len(s) : (s \o t)[i] = s[k]
                                          \/ \E k \in 1 .. Len(t) : (s \o t)[i] = t[k]
           /\ /\ Distinct(s) /\ Distinct(t)
              /\ \A i \in 1 .. Len(s), j \in 1 .. Len(t) : s[i] # t[j]
              => Distinct(s \o t)
<1>1. /\ Len(s) \in Nat /\ Len(t) \in Nat
      /\ Len(s \o t) = Len(s) + Len(t)
      /\ \A i \in 1 .. Len(s) + Len(t) : (s \o t)[i] = IF i <= Len(s) THEN s[i] ELSE t[i - Len(s)]
  BY ConcatProperties, LenProperties
<1>2. \A i \in 1 .. Len(s \o t) :
         \/ i \in 1 .. Len(s) /\ (s \o t)[i] = s[i]
         \/ i - Len(s) \in 1 .. Len(t) /\ (s \o t)[i] = t[i - Len(s)]
  BY <1>1
<1> QED BY SMTT(30), <1>1, <1>2 DEF Distinct

-----------------------------------------------------------------------------
LEMMA TakeOnce ==
    ASSUME OnceInv, NEW isLeft \in BOOLEAN, Take(isLeft), produced' = produced
    PROVE  ReturnedOnce' /\ Inserted(deque)' /\ Inserted(got)'
<1>1. /\ deque \in Seq(Items) /\ got \in Seq(Items) /\ deque # <<>>
      /\ Len(deque) \in Nat \ {0} /\ Len(got) \in Nat
  BY EmptySeq, LenProperties DEF OnceInv, TypeOK, Take
<1>2. PICK k \in 1 .. Len(deque) :
        /\ got' = Append(got, deque[k])
        /\ Len(deque') = Len(deque) - 1
        /\ \A i \in 1 .. Len(deque) - 1 : deque'[i] = deque[IF k = 1 THEN i + 1 ELSE i]
        /\ k = 1 \/ k = Len(deque)
  <2>1. CASE isLeft
    BY SMTT(30), <1>1, <2>1, HeadTailProperties DEF Take
  <2>2. CASE ~isLeft
    <3>1. /\ Len(deque') = Len(deque) - 1
          /\ \A i \in 1 .. Len(deque) - 1 : deque'[i] = deque[i]
          /\ got' = Append(got, deque[Len(deque)])
      BY <1>1, <2>2, FrontType DEF Take
    <3>2. CASE Len(deque) = 1
      BY <1>1, <3>1, <3>2
    <3>3. CASE Len(deque) # 1
      BY <1>1, <3>1, <3>3
    <3> QED BY <3>2, <3>3
  <2> QED BY <2>1, <2>2
<1>3. deque[k] \in Items
  BY <1>1, ElementOfSeq
<1>4. /\ Len(got') = Len(got) + 1
      /\ \A i \in 1 .. Len(got) : got'[i] = got[i]
      /\ got'[Len(got) + 1] = deque[k]
  BY <1>1, <1>2, <1>3, AppendProperties
<1>5. \A i \in 1 .. Len(got') : \/ i \in 1 .. Len(got) /\ got'[i] = got[i]
                                \/ i = Len(got) + 1 /\ got'[i] = deque[k]
  BY <1>1, <1>4
<1>6. ASSUME NEW i \in 1 .. Len(deque')
      PROVE  \E m \in 1 .. Len(deque) : /\ m # k /\ deque'[i] = deque[m]
                                        /\ m = IF k = 1 THEN i + 1 ELSE i
  <2>1. i \in 1 .. Len(deque) - 1
    BY <1>2
  <2>2. (IF k = 1 THEN i + 1 ELSE i) \in 1 .. Len(deque)
    BY <1>1, <2>1
  <2>3. (IF k = 1 THEN i + 1 ELSE i) # k
    BY <1>1, <1>2, <2>1
  <2>4. deque'[i] = deque[IF k = 1 THEN i + 1 ELSE i]
    BY <1>2, <2>1
  <2> QED BY <2>2, <2>3, <2>4
<1>7. \A i, j \in 1 .. Len(got') : i # j => got'[i] # got'[j]
  BY <1>5 DEF OnceInv, ReturnedOnce
<1>8. \A i, j \in 1 .. Len(deque') : i # j => deque'[i] # deque'[j]
  <2> SUFFICES ASSUME NEW i \in 1 .. Len(deque'), NEW j \in 1 .. Len(deque'), i # j
               PROVE  deque'[i] # deque'[j]
    OBVIOUS
  <2>1. PICK m \in 1 .. Len(deque) : /\ deque'[i] = deque[m]
                                     /\ m = IF k = 1 THEN i + 1 ELSE i
    BY <1>6
  <2>2. PICK n \in 1 .. Len(deque) : /\ deque'[j] = deque[n]
                                     /\ n = IF k = 1 THEN j + 1 ELSE j
    BY <1>6
  <2>3. m # n
    BY <1>1, <1>2, <2>1, <2>2
  <2> QED BY <2>1, <2>2, <2>3 DEF OnceInv, ReturnedOnce
<1>9. \A i \in 1 .. Len(got'), j \in 1 .. Len(deque') : got'[i] # deque'[j]
  <2> SUFFICES ASSUME NEW i \in 1 .. Len(got'), NEW j \in 1 .. Len(deque')
               PROVE  got'[i] # deque'[j]
    OBVIOUS
  <2>1. PICK m \in 1 .. Len(deque) : m # k /\ deque'[j] = deque[m]
    BY <1>6
  <2>2. CASE i \in 1 .. Len(got) /\ got'[i] = got[i]
    BY <2>1, <2>2 DEF OnceInv, ReturnedOnce
  <2>3. CASE got'[i] = deque[k]
    BY <2>1, <2>3 DEF OnceInv, ReturnedOnce
  <2> QED BY <1>5, <2>2, <2>3
<1>10. Inserted(deque)' /\ Inserted(got)'
  BY <1>5, <1>6 DEF OnceInv, Inserted
<1> QED BY <1>7, <1>8, <1>9, <1>10 DEF ReturnedOnce

\* A deque made of some of its items keeps the invariant.
LEMMA FromOnce ==
    ASSUME OnceInv, From(deque', deque), Distinct(deque) => Distinct(deque'),
           got' = got, produced' = produced
    PROVE  ReturnedOnce' /\ Inserted(deque)' /\ Inserted(got)'
<1>1. Distinct(deque)
  BY DEF OnceInv, ReturnedOnce, Distinct
<1>2. Distinct(deque')
  BY <1>1
<1>3. \A i \in 1 .. Len(got'), j \in 1 .. Len(deque') : got'[i] # deque'[j]
  BY DEF From, OnceInv, ReturnedOnce
<1>4. Inserted(deque)' /\ Inserted(got)'
  BY DEF From, OnceInv, Inserted
<1> QED BY <1>2, <1>3, <1>4 DEF ReturnedOnce, Distinct, OnceInv

LEMMA InsertOnce ==
    ASSUME OnceInv, NEW n \in Nat, produced + n <= MaxItems,
           NEW f \in Seq(Items), f = Fresh(n) \/ f = Backward(Fresh(n)),
           \/ deque' = KeepRight(deque \o f)
           \/ deque' = KeepLeft(f \o deque),
           got' = got, produced' = produced + n
    PROVE  ReturnedOnce' /\ Inserted(deque)' /\ Inserted(got)'
<1>1. /\ deque \in Seq(Items) /\ got \in Seq(Items)
      /\ produced \in 0 .. MaxItems /\ MaxItems \in Nat
      /\ Distinct(deque)
  BY MaxItemsAssumption DEF OnceInv, TypeOK, ReturnedOnce, Distinct
<1>2. /\ Distinct(f)
      /\ \A i \in 1 .. Len(f) : f[i] > produced /\ f[i] <= produced + n
  <2>1. /\ Fresh(n) \in Seq(Items) /\ Len(Fresh(n)) = n
        /\ \A i \in 1 .. n : Fresh(n)[i] = produced + i
    BY <1>1, FreshType
  <2>2. /\ Distinct(Fresh(n))
        /\ \A i \in 1 .. Len(Fresh(n)) : Fresh(n)[i] > produced /\ Fresh(n)[i] <= produced + n
    BY <1>1, <2>1 DEF Distinct
  <2>3. From(Backward(Fresh(n)), Fresh(n)) /\ Distinct(Backward(Fresh(n)))
    BY <2>1, <2>2, ReorderOnce
  <2>4. \A i \in 1 .. Len(Backward(Fresh(n))) :
           Backward(Fresh(n))[i] > produced /\ Backward(Fresh(n))[i] <= produced + n
    BY <2>2, <2>3 DEF From
  <2> QED BY <2>2, <2>3, <2>4
<1>3. \A i \in 1 .. Len(deque), j \in 1 .. Len(f) : deque[i] # f[j]
  <2> SUFFICES ASSUME NEW i \in 1 .. Len(deque), NEW j \in 1 .. Len(f)
               PROVE  deque[i] # f[j]
    OBVIOUS
  <2>1. deque[i] \in Items /\ f[j] \in Items /\ deque[i] <= produced /\ f[j] > produced
    BY <1>1, <1>2, ElementOfSeq DEF OnceInv, Inserted
  <2> QED BY <1>1, <2>1 DEF Items
<1>4. PICK q \in Seq(Items) :
        /\ From(deque', q)
        /\ Distinct(q) => Distinct(deque')
        /\ q = deque \o f \/ q = f \o deque
  <2>1. deque \o f \in Seq(Items) /\ f \o deque \in Seq(Items)
    BY <1>1, ConcatProperties
  <2> QED BY <2>1, KeepOnce
<1>5. Distinct(q)
  BY <1>1, <1>2, <1>3, <1>4, ConcatOnce
<1>6. \A i \in 1 .. Len(q) : \/ \E k \in 1 .. Len(deque) : q[i] = deque[k]
                             \/ \E k \in 1 .. Len(f) : q[i] = f[k]
  <2>1. CASE q = deque \o f
    BY <1>1, <2>1, ConcatOnce
  <2>2. CASE q = f \o deque
    BY <1>1, <2>2, ConcatOnce
  <2> QED BY <1>4, <2>1, <2>2
<1>7. \A i \in 1 .. Len(deque') : \/ \E k \in 1 .. Len(deque) : deque'[i] = deque[k]
                                  \/ \E k \in 1 .. Len(f) : deque'[i] = f[k]
  <2> SUFFICES ASSUME NEW i \in 1 .. Len(deque')
               PROVE  \/ \E k \in 1 .. Len(deque) : deque'[i] = deque[k]
                      \/ \E k \in 1 .. Len(f) : deque'[i] = f[k]
    OBVIOUS
  <2>1. PICK m \in 1 .. Len(q) : deque'[i] = q[m]
    BY <1>4 DEF From
  <2> QED BY <1>6, <2>1
<1>8. \A i \in 1 .. Len(got), j \in 1 .. Len(deque') : got[i] # deque'[j]
  <2> SUFFICES ASSUME NEW i \in 1 .. Len(got), NEW j \in 1 .. Len(deque')
               PROVE  got[i] # deque'[j]
    OBVIOUS
  <2>1. got[i] \in Items /\ got[i] <= produced
    BY <1>1, ElementOfSeq DEF OnceInv, Inserted
  <2>2. CASE \E k \in 1 .. Len(deque) : deque'[j] = deque[k]
    BY <2>2 DEF OnceInv, ReturnedOnce
  <2>3. CASE \E k \in 1 .. Len(f) : deque'[j] = f[k]
    <3>1. PICK k \in 1 .. Len(f) : deque'[j] = f[k]
      BY <2>3
    <3>2. f[k] \in Items /\ f[k] > produced
      BY <1>2, ElementOfSeq
    <3> QED BY SMTT(30), <1>1, <2>1, <3>1, <3>2 DEF Items
  <2> QED BY <1>7, <2>2, <2>3
<1>9. Inserted(deque)'
  <2> SUFFICES ASSUME NEW j \in 1 .. Len(deque')
               PROVE  deque'[j] <= produced + n
    BY DEF Inserted
  <2>1. CASE \E k \in 1 .. Len(deque) : deque'[j] = deque[k]
    <3>1. PICK k \in 1 .. Len(deque) : deque'[j] = deque[k]
      BY <2>1
    <3>2. deque[k] \in Items /\ deque[k] <= produced
      BY <1>1, ElementOfSeq DEF OnceInv, Inserted
    <3> QED BY <1>1, <3>1, <3>2 DEF Items
  <2>2. CASE \E k \in 1 .. Len(f) : deque'[j] = f[k]
    BY <1>2, <2>2
  <2> QED BY <1>7, <2>1, <2>2
<1>10. Inserted(got)'
  <2> SUFFICES ASSUME NEW i \in 1 .. Len(got)
               PROVE  got[i] <= produced + n
    BY DEF Inserted
  <2>1. got[i] \in Items /\ got[i] <= produced
    BY <1>1, ElementOfSeq DEF OnceInv, Inserted
  <2> QED BY <1>1, <2>1 DEF Items
<1> QED BY <1>4, <1>5, <1>8, <1>9, <1>10 DEF OnceInv, ReturnedOnce, Distinct

LEMMA OnceStep == OnceInv /\ [Next]_vars => ReturnedOnce' /\ Inserted(deque)' /\ Inserted(got)'
<1> SUFFICES ASSUME OnceInv, [Next]_vars
             PROVE  ReturnedOnce' /\ Inserted(deque)' /\ Inserted(got)'
  OBVIOUS
<1>1. deque \in Seq(Items) /\ produced \in 0 .. MaxItems /\ MaxItems \in Nat
  BY MaxItemsAssumption DEF OnceInv, TypeOK
<1>2. CASE UNCHANGED <<deque, got, produced>>
  BY <1>2 DEF OnceInv, ReturnedOnce, Inserted
<1>3. ASSUME NEW g \in Greenlets, NEW isLeft \in BOOLEAN, NEW hasTimeout \in BOOLEAN,
             PopNow(g, isLeft) \/ PopBlock(g, isLeft, hasTimeout)
      PROVE  ReturnedOnce' /\ Inserted(deque)' /\ Inserted(got)'
  <2>1. produced' = produced /\ (Take(isLeft) \/ UNCHANGED <<deque, got>>)
    BY <1>3 DEF PopNow, PopBlock
  <2> QED BY <1>2, <2>1, TakeOnce
<1>4. ASSUME NEW g \in Greenlets, Wake(g)
      PROVE  ReturnedOnce' /\ Inserted(deque)' /\ Inserted(got)'
  <2>1. /\ left[g] \in BOOLEAN /\ produced' = produced
        /\ Take(left[g]) \/ UNCHANGED <<deque, got>>
    BY <1>4 DEF Wake, OnceInv, TypeOK
  <2> QED BY <1>2, <2>1, TakeOnce
<1>5. CASE Notify \/ \E g \in Greenlets : TimerFires(g) \/ Spin(g)
  BY <1>2, <1>5 DEF Notify, TimerFires, Spin, vars
<1>6. CASE Inserts
  <2>1. PICK g \in Greenlets :
          \/ AppendRight(g) \/ AppendLeft(g)
          \/ \E n \in 0 .. MaxItems : Extend(g, n) \/ ExtendLeft(g, n)
    BY <1>6 DEF Inserts
  <2>2. PICK n \in Nat :
          /\ produced + n <= MaxItems
          /\ \/ Insert(g, KeepRight(deque \o Fresh(n)), n)
             \/ Insert(g, KeepLeft(Backward(Fresh(n)) \o deque), n)
             \/ Insert(g, KeepLeft(Fresh(n) \o deque), n)
    <3>1. 0 .. MaxItems \subseteq Nat /\ 1 \in Nat
      BY <1>1
    <3> QED BY <2>1, <3>1 DEF AppendRight, AppendLeft, Extend, ExtendLeft, Insert
  <2>3. Fresh(n) \in Seq(Items) /\ Backward(Fresh(n)) \in Seq(Items)
    BY <1>1, <2>2, FreshType, BackwardType
  <2> QED BY <2>2, <2>3, InsertOnce DEF Insert
<1>7. ASSUME NEW g \in Greenlets, Reverse(g) \/ Rotate(g)
      PROVE  ReturnedOnce' /\ Inserted(deque)' /\ Inserted(got)'
  BY <1>1, <1>7, ReorderOnce, FromOnce DEF Reverse, Rotate, Reorder
<1>8. ASSUME NEW g \in Greenlets, NEW k, Remove(g, k)
      PROVE  ReturnedOnce' /\ Inserted(deque)' /\ Inserted(got)'
  BY <1>1, <1>8, WithoutOnce, FromOnce DEF Remove
<1>9. ASSUME NEW g \in Greenlets, Clear(g)
      PROVE  ReturnedOnce' /\ Inserted(deque)' /\ Inserted(got)'
  <2>1. deque' = <<>> /\ got' = got /\ produced' = produced
    BY <1>9 DEF Clear
  <2>2. Len(<<>>) = 0
    BY EmptySeq
  <2>3. From(deque', deque) /\ Distinct(deque')
    BY <2>1, <2>2 DEF From, Distinct
  <2> QED BY <2>1, <2>3, FromOnce
<1>10. CASE UNCHANGED vars
  BY <1>2, <1>10 DEF vars
<1> QED BY <1>3, <1>4, <1>5, <1>6, <1>7, <1>8, <1>9, <1>10
        DEF Next, Pops, Changes, Removes

\* No item is returned by two pops, nor returned and still queued, however pops,
\* timeouts, reorderings, removals and full deques interleave (api.py 344-370).
THEOREM ItemsAreReturnedOnce == Spec => []ReturnedOnce
<1>1. Init => OnceInv
  <2> SUFFICES ASSUME Init PROVE OnceInv
    OBVIOUS
  <2>1. deque = <<>> /\ got = <<>> /\ Len(<<>>) = 0
    BY EmptySeq DEF Init
  <2> QED BY <2>1, TypeInit DEF OnceInv, ReturnedOnce, Inserted
<1>2. OnceInv /\ [Next]_vars => OnceInv'
  BY OnceStep, TypeStep DEF OnceInv
<1>3. OnceInv => ReturnedOnce
  BY DEF OnceInv
<1> QED BY <1>1, <1>2, <1>3, PTL DEF Spec

-----------------------------------------------------------------------------
(* The deque as a queue.  While only append, extend, clear and popleft are  *)
(* called, the deque is a segment of the items inserted, up to the last,   *)
(* and what was returned lies before it.  A pop that sleeps then takes from *)
(* the left, which NewestInOrder does not say.                             *)

SleepersTakeLeft == uses = "queue" => \A g \in Greenlets : status[g] # "running" => left[g]

LEMMA NewestTake ==
    ASSUME TypeOK, NewestInOrder, uses = "queue", Take(TRUE), produced' = produced
    PROVE  NewestInOrder'
<1>1. /\ deque \in Seq(Items) /\ got \in Seq(Items) /\ deque # <<>>
      /\ Len(deque) \in Nat \ {0} /\ Len(got) \in Nat /\ produced \in Nat
  BY EmptySeq, LenProperties, MaxItemsAssumption DEF TypeOK, Take
<1>2. /\ Len(deque') = Len(deque) - 1
      /\ \A i \in 1 .. Len(deque') : deque'[i] = deque[i + 1]
  BY <1>1, HeadTailProperties DEF Take
<1>3. deque[1] \in Items /\ deque[1] = produced - Len(deque) + 1
  BY <1>1, ElementOfSeq DEF NewestInOrder
<1>4. /\ Len(got') = Len(got) + 1
      /\ \A i \in 1 .. Len(got) : got'[i] = got[i]
      /\ got'[Len(got) + 1] = deque[1]
  BY <1>1, <1>3, AppendProperties DEF Take
<1>5. \A i \in 1 .. Len(deque') : deque'[i] = produced - Len(deque') + i
  <2> SUFFICES ASSUME NEW i \in 1 .. Len(deque')
               PROVE  deque'[i] = produced - Len(deque') + i
    OBVIOUS
  <2>1. i + 1 \in 1 .. Len(deque)
    BY <1>1, <1>2
  <2>2. deque[i + 1] = produced - Len(deque) + (i + 1)
    BY <2>1 DEF NewestInOrder
  <2> QED BY <1>1, <1>2, <2>2
<1>6. \A i \in 1 .. Len(got) : got[i] \in Nat /\ got[i] <= produced - Len(deque)
  <2>1. \A i \in 1 .. Len(got) : got[i] \in Items
    BY <1>1, ElementOfSeq
  <2> QED BY <2>1 DEF NewestInOrder, Items
<1>7. \A i \in 1 .. Len(got') : \/ i \in 1 .. Len(got) /\ got'[i] = got[i]
                                \/ i = Len(got) + 1 /\ got'[i] = produced - Len(deque) + 1
  BY <1>1, <1>3, <1>4
<1>8. \A i \in 1 .. Len(got') : got'[i] <= produced - Len(deque')
  BY <1>1, <1>2, <1>6, <1>7
<1>9. \A i, j \in 1 .. Len(got') : i < j => got'[i] < got'[j]
  <2> SUFFICES ASSUME NEW i \in 1 .. Len(got'), NEW j \in 1 .. Len(got'), i < j
               PROVE  got'[i] < got'[j]
    OBVIOUS
  <2>1. i \in 1 .. Len(got) /\ got'[i] = got[i]
    BY <1>1, <1>4
  <2>2. CASE j \in 1 .. Len(got) /\ got'[j] = got[j]
    BY <2>1, <2>2 DEF NewestInOrder
  <2>3. CASE got'[j] = produced - Len(deque) + 1
    BY <1>1, <1>6, <2>1, <2>3
  <2> QED BY <1>7, <2>2, <2>3
<1> QED BY <1>5, <1>8, <1>9 DEF NewestInOrder

\* KeepRight drops the oldest items only.
LEMMA NewestInsert ==
    ASSUME TypeOK, NewestInOrder, uses = "queue",
           NEW n \in Nat, produced + n <= MaxItems,
           deque' = KeepRight(deque \o Fresh(n)), produced' = produced + n, got' = got
    PROVE  NewestInOrder'
<1> DEFINE q == deque \o Fresh(n)
<1>1. /\ deque \in Seq(Items) /\ Len(deque) \in Nat
      /\ produced \in 0 .. MaxItems /\ MaxItems \in Nat /\ MaxLen \in Nat \ {0}
      /\ got \in Seq(Items)
  BY LenProperties, MaxItemsAssumption, MaxLenAssumption DEF TypeOK
<1>2. /\ Fresh(n) \in Seq(Items) /\ Len(Fresh(n)) = n
      /\ \A i \in 1 .. n : Fresh(n)[i] = produced + i
  BY <1>1, FreshType
<1>3. /\ q \in Seq(Items) /\ Len(q) = Len(deque) + n
      /\ \A i \in 1 .. Len(deque) + n :
           q[i] = IF i <= Len(deque) THEN deque[i] ELSE Fresh(n)[i - Len(deque)]
  <2> HIDE DEF q
  <2>1. /\ deque \o Fresh(n) \in Seq(Items)
        /\ Len(deque \o Fresh(n)) = Len(deque) + Len(Fresh(n))
        /\ \A i \in 1 .. Len(deque) + Len(Fresh(n)) : (deque \o Fresh(n))[i] =
              IF i <= Len(deque) THEN deque[i] ELSE Fresh(n)[i - Len(deque)]
    BY <1>1, <1>2, ConcatProperties, Zenon
  <2> QED BY <1>2, <2>1, Zenon DEF q
<1> HIDE DEF q
<1>4. \A i \in 1 .. Len(q) : q[i] = produced - Len(deque) + i
  <2> SUFFICES ASSUME NEW i \in 1 .. Len(q)
               PROVE  q[i] = produced - Len(deque) + i
    OBVIOUS
  <2>1. CASE i <= Len(deque)
    <3>1. i \in 1 .. Len(deque) /\ q[i] = deque[i]
      BY <1>1, <1>3, <2>1
    <3> QED BY <3>1 DEF NewestInOrder
  <2>2. CASE ~(i <= Len(deque))
    <3>1. i - Len(deque) \in 1 .. n /\ q[i] = Fresh(n)[i - Len(deque)]
      BY <1>1, <1>3, <2>2
    <3> QED BY <1>1, <1>2, <3>1
  <2> QED BY <2>1, <2>2
<1>5. /\ Len(deque') \in Nat /\ Len(deque') <= Len(q)
      /\ \A i \in 1 .. Len(deque') : deque'[i] = q[Len(q) - Len(deque') + i]
  <2>1. CASE Len(q) > MaxLen
    <3>1. \A i \in Len(q) - MaxLen + 1 .. Len(q) : q[i] \in Items
      BY <1>1, <1>3, <2>1, ElementOfSeq
    <3>2. /\ Len(SubSeq(q, Len(q) - MaxLen + 1, Len(q))) = MaxLen
          /\ \A i \in 1 .. MaxLen :
               SubSeq(q, Len(q) - MaxLen + 1, Len(q))[i] = q[Len(q) - MaxLen + 1 + i - 1]
      BY <1>1, <1>3, <2>1, <3>1, SubSeqProperties
    <3>3. \A i \in 1 .. MaxLen : Len(q) - MaxLen + 1 + i - 1 = Len(q) - MaxLen + i
      BY <1>1, <1>3
    <3>4. deque' = SubSeq(q, Len(q) - MaxLen + 1, Len(q))
      BY <2>1 DEF KeepRight, q
    <3> QED BY <1>1, <1>3, <2>1, <3>2, <3>3, <3>4
  <2>2. CASE ~(Len(q) > MaxLen)
    <3>1. deque' = q
      BY <2>2 DEF KeepRight, q
    <3> QED BY <1>1, <1>3, <3>1
  <2> QED BY <2>1, <2>2
<1>6. \A i \in 1 .. Len(deque') : deque'[i] = produced' - Len(deque') + i
  <2> SUFFICES ASSUME NEW i \in 1 .. Len(deque')
               PROVE  deque'[i] = produced' - Len(deque') + i
    OBVIOUS
  <2>1. Len(q) - Len(deque') + i \in 1 .. Len(q)
    BY <1>1, <1>3, <1>5
  <2>2. deque'[i] = produced - Len(deque) + (Len(q) - Len(deque') + i)
    BY <1>4, <1>5, <2>1
  <2>3. produced - Len(deque) + ((Len(deque) + n) - Len(deque') + i) = (produced + n) - Len(deque') + i
    BY <1>1, <1>5
  <2>4. Len(q) = Len(deque) + n
    BY <1>3
  <2>5. deque'[i] = produced - Len(deque) + ((Len(deque) + n) - Len(deque') + i)
    BY <2>2, <2>4, Zenon
  <2>6. produced' = produced + n
    OBVIOUS
  <2> QED BY <2>3, <2>5, <2>6, Zenon
<1>7. \A i \in 1 .. Len(got') : got'[i] <= produced' - Len(deque')
  <2> SUFFICES ASSUME NEW i \in 1 .. Len(got)
               PROVE  got[i] <= produced' - Len(deque')
    OBVIOUS
  <2>1. got[i] \in Items /\ got[i] <= produced - Len(deque)
    BY <1>1, ElementOfSeq DEF NewestInOrder
  <2> QED BY <1>1, <1>3, <1>5, <2>1 DEF Items
<1>8. \A i, j \in 1 .. Len(got') : i < j => got'[i] < got'[j]
  BY DEF NewestInOrder
<1> QED BY <1>6, <1>7, <1>8 DEF NewestInOrder

LEMMA SleepersStep == TypeOK /\ SleepersTakeLeft /\ [Next]_vars => SleepersTakeLeft'
<1> SUFFICES ASSUME TypeOK, SleepersTakeLeft, [Next]_vars, uses' = "queue",
                    NEW h \in Greenlets, status'[h] # "running"
             PROVE  left'[h]
  BY DEF SleepersTakeLeft
<1>1. CASE uses = "queue" /\ left' = left /\ (status[h] = "running" => status'[h] = "running")
  BY <1>1 DEF SleepersTakeLeft
<1>2. CASE Notify
  BY <1>1, <1>2 DEF Notify, TypeOK
<1>3. ASSUME NEW g \in Greenlets, NEW isLeft \in BOOLEAN, NEW hasTimeout \in BOOLEAN,
             PopBlock(g, isLeft, hasTimeout)
      PROVE  left'[h]
  <2>1. isLeft /\ uses = "queue"
    BY <1>3 DEF PopBlock, MarkPop, MarkDeque
  <2>2. CASE h = g
    BY <1>3, <2>1, <2>2 DEF PopBlock, TypeOK
  <2>3. CASE h # g
    <3>1. status'[h] = status[h] /\ left'[h] = left[h]
      BY <1>3, <2>3 DEF PopBlock, TypeOK
    <3> QED BY <2>1, <3>1 DEF SleepersTakeLeft
  <2> QED BY <2>2, <2>3
<1>4. ASSUME NEW g \in Greenlets, NEW isLeft \in BOOLEAN, PopNow(g, isLeft)
      PROVE  left'[h]
  BY <1>1, <1>4 DEF PopNow, MarkPop, MarkDeque
<1>5. ASSUME NEW g \in Greenlets, Wake(g)
      PROVE  left'[h]
  BY <1>1, <1>5 DEF Wake, TypeOK
<1>6. ASSUME NEW g \in Greenlets, TimerFires(g) \/ Spin(g)
      PROVE  left'[h]
  BY <1>1, <1>6 DEF TimerFires, Spin, TypeOK, vars
<1>7. CASE Inserts
  BY <1>1, <1>7 DEF Inserts, AppendRight, AppendLeft, Extend, ExtendLeft, Insert, MarkDeque
<1>8. CASE Changes \/ Removes
  BY <1>1, <1>8 DEF Changes, Removes, Clear, Reverse, Rotate, Remove, Reorder, MarkDeque
<1>9. CASE UNCHANGED vars
  BY <1>1, <1>9 DEF vars
<1> QED BY <1>2, <1>3, <1>4, <1>5, <1>6, <1>7, <1>8, <1>9 DEF Next, Pops

LEMMA NewestStep ==
    TypeOK /\ SleepersTakeLeft /\ NewestInOrder /\ [Next]_vars => NewestInOrder'
<1> SUFFICES ASSUME TypeOK, SleepersTakeLeft, NewestInOrder, [Next]_vars, uses' = "queue"
             PROVE  NewestInOrder'
  BY DEF NewestInOrder
<1>1. uses \in Uses /\ MaxItems \in Nat /\ produced \in 0 .. MaxItems
  BY MaxItemsAssumption DEF TypeOK
<1>2. CASE UNCHANGED <<deque, got, produced, uses>>
  BY <1>2 DEF NewestInOrder
<1>3. ASSUME NEW g \in Greenlets, NEW isLeft \in BOOLEAN, NEW hasTimeout \in BOOLEAN,
             PopNow(g, isLeft) \/ PopBlock(g, isLeft, hasTimeout)
      PROVE  NewestInOrder'
  <2>1. uses = "queue" /\ isLeft
    BY <1>3 DEF PopNow, PopBlock, MarkPop, MarkDeque
  <2>2. /\ produced' = produced /\ uses' = uses
        /\ Take(TRUE) \/ UNCHANGED <<deque, got>>
    BY <1>3, <2>1 DEF PopNow, PopBlock, MarkPop
  <2> QED BY <1>2, <2>1, <2>2, NewestTake
<1>4. ASSUME NEW g \in Greenlets, Wake(g)
      PROVE  NewestInOrder'
  <2>1. uses = "queue" /\ produced' = produced /\ uses' = uses
    BY <1>4 DEF Wake
  <2>2. left[g] = TRUE
    BY <1>4, <2>1 DEF Wake, SleepersTakeLeft, TypeOK
  <2>3. Take(TRUE) \/ UNCHANGED <<deque, got>>
    BY <1>4, <2>2 DEF Wake
  <2> QED BY <1>2, <2>1, <2>3, NewestTake
<1>5. CASE Notify \/ \E g \in Greenlets : TimerFires(g) \/ Spin(g)
  BY <1>2, <1>5 DEF Notify, TimerFires, Spin, vars
<1>6. CASE Inserts
  <2>1. PICK g \in Greenlets :
          \/ AppendRight(g) \/ AppendLeft(g)
          \/ \E n \in 0 .. MaxItems : Extend(g, n) \/ ExtendLeft(g, n)
    BY <1>6 DEF Inserts
  <2>2. ~AppendLeft(g) /\ \A n : ~ExtendLeft(g, n)
    BY DEF AppendLeft, ExtendLeft, MarkDeque
  <2>3. PICK n \in Nat : /\ Insert(g, KeepRight(deque \o Fresh(n)), n)
                         /\ uses = "queue"
    <3>1. 0 .. MaxItems \subseteq Nat /\ 1 \in Nat
      BY <1>1
    <3> QED BY <2>1, <2>2, <3>1 DEF AppendRight, Extend
  <2> QED BY <2>3, NewestInsert DEF Insert
<1>7. ASSUME NEW g \in Greenlets, Reverse(g) \/ Rotate(g) \/ \E k : Remove(g, k)
      PROVE  FALSE
  BY <1>7 DEF Reverse, Rotate, Remove, Reorder, MarkDeque
<1>8. ASSUME NEW g \in Greenlets, Clear(g)
      PROVE  NewestInOrder'
  <2>1. deque' = <<>> /\ got' = got /\ produced' = produced /\ uses = "queue"
    BY <1>8 DEF Clear
  <2>2. Len(<<>>) = 0 /\ Len(deque) \in Nat /\ produced \in Nat
    BY <1>1, EmptySeq, LenProperties DEF TypeOK
  <2>3. \A i \in 1 .. Len(got) : got[i] \in Items
    BY ElementOfSeq DEF TypeOK
  <2>4. \A i \in 1 .. Len(got) : got[i] <= produced
    BY <1>1, <2>1, <2>2, <2>3 DEF NewestInOrder, Items
  <2> QED BY <2>1, <2>2, <2>4 DEF NewestInOrder
<1>9. CASE UNCHANGED vars
  BY <1>2, <1>9 DEF vars
<1> QED BY <1>3, <1>4, <1>5, <1>6, <1>7, <1>8, <1>9 DEF Next, Pops, Changes, Removes

\* Used as a queue, the deque holds the newest items in order and returned what is
\* older in order, whatever overflows and however many pops sleep (api.py 303-307).
THEOREM QueueKeepsNewest == Spec => []NewestInOrder
<1>1. Init => SleepersTakeLeft /\ NewestInOrder
  <2> SUFFICES ASSUME Init PROVE SleepersTakeLeft /\ NewestInOrder
    OBVIOUS
  <2>1. deque = <<>> /\ got = <<>> /\ Len(<<>>) = 0
    BY EmptySeq DEF Init
  <2> QED BY <2>1 DEF Init, NewestInOrder, SleepersTakeLeft
<1>2. TypeOK /\ SleepersTakeLeft /\ NewestInOrder /\ [Next]_vars
        => SleepersTakeLeft' /\ NewestInOrder'
  BY SleepersStep, NewestStep
<1> QED BY <1>1, <1>2, TypeCorrect, PTL DEF Spec
=============================================================================
