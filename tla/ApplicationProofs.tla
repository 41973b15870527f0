-------------------------- MODULE ApplicationProofs --------------------------
(***************************************************************************)
(* Theorems about what works on top of the bus, and about what configures  *)
(* it: the limit monitor, the accumulator, the routing table of            *)
(* APIDRouter, the configuration, streams, scripts of the ground API,      *)
(* commands, and packets with the history of their fields.                 *)
(***************************************************************************)
EXTENDS LimitMonitor, PacketAccumulator, ApidRouter, Streams, Config, GroundApi,
        Commands, Packets, Lemmas, SequenceTheorems, FiniteSetTheorems, TLAPS

-----------------------------------------------------------------------------
(* Limits.                                                                 *)

Triggers == {"error", "warn"}

\* What a multiple is.
LEMMA Multiples ==
    ASSUME NEW d \in Nat \ {0}, NEW q \in Nat \ {0}
    PROVE  d % q = 0 <=> \E m \in 1 .. d : d = m * q
  <1>1. ASSUME d % q = 0 PROVE \E m \in 1 .. d : d = m * q
    <2> DEFINE m == d \div q
    <2>1. m \in Nat /\ d = q * m
      BY <1>1
    <2> HIDE DEF m
    <2>2. m # 0
      BY <2>1
    <2>3. m <= q * m
      BY <2>1
    <2>4. m \in 1 .. d /\ d = m * q
      BY <2>1, <2>2, <2>3
    <2> QED
      BY <2>4
  <1>2. ASSUME NEW m \in 1 .. d, d = m * q PROVE d % q = 0
    BY <1>2
  <1> QED
    BY <1>1, <1>2

\* The count of a field is the length of the row of bad values that it ends with.
Counting == \A f \in Fields : repeats[f] \in Nat /\ RowOf(f, Len(seen[f]), repeats[f])

LimitSorts == /\ limits \in LimitSets
              /\ options \in NotifyOptions
              /\ field \in Fields
              /\ repeats \in [Fields -> Nat]
              /\ seen \in [Fields -> Seq(Values)]
              /\ \A f \in Fields : Len(seen[f]) <= MaxSeen
              /\ notified = [f \in Fields |-> notified[f]]

LimitInv == LimitSorts /\ Counting /\ NotifiedAsConfigured

LEMMA LimitsHere ==
    ASSUME limits \in LimitSets
    PROVE  /\ Len(limits) \in Nat \ {0}
           /\ Fields = 1 .. Len(limits)
  <1>1. limits # <<>> /\ limits \in Seq([error : Level, warn : Level])
    BY LimitMonitorAssumption
  <1>2. Len(limits) \in Nat /\ DOMAIN limits = 1 .. Len(limits)
    BY <1>1, LenProperties
  <1>3. Len(limits) # 0
    BY <1>1, EmptySeq
  <1> QED
    BY <1>2, <1>3 DEF Fields

LEMMA OptionsHere ==
    ASSUME options \in NotifyOptions
    PROVE  /\ options.threshold \in Nat \ {0}
           /\ options.frequency # Infinite => options.frequency \in Nat \ {0}
           /\ MaxSeen \in Nat
  BY LimitMonitorAssumption

\* A count rings exactly if it is due.
LEMMA DueRings ==
    ASSUME options \in NotifyOptions, NEW n \in Nat, n <= MaxSeen
    PROVE  Due(n) <=> n \in Rings
  <1> DEFINE h == options.threshold
             q == options.frequency
  <1>1. h \in Nat \ {0} /\ (q # Infinite => q \in Nat \ {0}) /\ MaxSeen \in Nat
    BY OptionsHere
  <1>2. Due(n) <=> n = h \/ (n > h /\ q # Infinite /\ (n - h) % q = 0)
    BY DEF Due
  <1>3. n \in Rings <=> n = h \/ (n \in h + 1 .. MaxSeen /\ \E m \in 1 .. MaxSeen : q # Infinite /\ n = h + m * q)
    BY DEF Rings
  <1> HIDE DEF h, q
  <1>4. ASSUME n > h, q # Infinite
        PROVE  (n - h) % q = 0 <=> \E m \in 1 .. MaxSeen : n = h + m * q
    <2> DEFINE d == n - h
    <2>1. d \in Nat \ {0} /\ d <= MaxSeen /\ q \in Nat \ {0} /\ n = h + d
      BY <1>1, <1>4
    <2> HIDE DEF d
    <2>2. d % q = 0 <=> \E m \in 1 .. d : d = m * q
      BY <2>1, Multiples
    <2>3. ASSUME NEW m \in 1 .. d, d = m * q PROVE m \in 1 .. MaxSeen /\ n = h + m * q
      BY <1>1, <2>1, <2>3
    <2>4. ASSUME NEW m \in 1 .. MaxSeen, n = h + m * q PROVE m \in 1 .. d /\ d = m * q
      <3>1. m \in Nat /\ m * q \in Nat
        BY <2>1
      <3>2. d = m * q
        BY <1>1, <2>1, <2>4, <3>1
      <3>3. m <= m * q
        BY <2>1, <3>1
      <3> QED
        BY <3>1, <3>2, <3>3
    <2> QED
      BY <2>2, <2>3, <2>4 DEF d
  <1>5. n > h <=> n \in h + 1 .. MaxSeen
    BY <1>1
  <1> QED
    BY <1>2, <1>3, <1>4, <1>5

\* There is one row that ends with a value.
LEMMA RowIsOne ==
    ASSUME NEW f, NEW i \in Nat, NEW n \in Nat, NEW m \in Nat, RowOf(f, i, n)', RowOf(f, i, m)'
    PROVE  n = m
  <1>1. ASSUME NEW a \in Nat, NEW b \in Nat, RowOf(f, i, a)', RowOf(f, i, b)', a < b PROVE FALSE
    <2>1. i - a \in i - b + 1 .. i /\ a < i
      BY <1>1 DEF RowOf
    <2> QED
      BY <1>1, <2>1 DEF RowOf
  <1>2. n < m \/ m < n \/ n = m
    OBVIOUS
  <1> QED
    BY <1>1, <1>2

\* The values of a field that was given one more.
Grows(f, v) == /\ seen' = [seen EXCEPT ![f] = Append(@, v)]
               /\ UNCHANGED <<limits, options>>

LEMMA RowsThatWere ==
    ASSUME LimitSorts, NEW f \in Fields, NEW v \in Values, Grows(f, v)
    PROVE  /\ seen' \in [Fields -> Seq(Values)]
           /\ Len(seen[f]) \in Nat /\ Len(seen'[f]) = Len(seen[f]) + 1
           /\ \A g \in Fields : g # f => seen'[g] = seen[g]
           /\ \A i \in 1 .. Len(seen[f]) : seen'[f][i] = seen[f][i]
           /\ seen'[f][Len(seen[f]) + 1] = v
           /\ \A i \in 1 .. Len(seen[f]) : Bad(f, i)' <=> Bad(f, i)
           /\ \A i \in 0 .. Len(seen[f]), n \in Nat : RowOf(f, i, n)' <=> RowOf(f, i, n)
  <1>1. seen \in [Fields -> Seq(Values)] /\ seen[f] \in Seq(Values)
    BY DEF LimitSorts
  <1>2. /\ Append(seen[f], v) \in Seq(Values)
        /\ Len(Append(seen[f], v)) = Len(seen[f]) + 1
        /\ \A i \in 1 .. Len(seen[f]) : Append(seen[f], v)[i] = seen[f][i]
        /\ Append(seen[f], v)[Len(seen[f]) + 1] = v
        /\ Len(seen[f]) \in Nat
    BY <1>1, AppendProperties, LenProperties
  <1>3. seen'[f] = Append(seen[f], v) /\ seen' \in [Fields -> Seq(Values)]
        /\ \A g \in Fields : g # f => seen'[g] = seen[g]
    BY <1>1, <1>2 DEF Grows
  <1>4. ASSUME NEW i \in 1 .. Len(seen[f]) PROVE Bad(f, i)' <=> Bad(f, i)
    <2>1. seen'[f][i] = seen[f][i] /\ limits' = limits
      BY <1>2, <1>3 DEF Grows
    <2> QED
      BY <2>1 DEF Bad, Violates
  <1>5. ASSUME NEW i \in 0 .. Len(seen[f]), NEW n \in Nat
        PROVE  RowOf(f, i, n)' <=> RowOf(f, i, n)
    <2>1. n <= i => \A k \in i - n + 1 .. i : k \in 1 .. Len(seen[f])
      BY <1>2
    <2>2. n < i => i - n \in 1 .. Len(seen[f])
      BY <1>2
    <2> QED
      BY <1>4, <2>1, <2>2 DEF RowOf
  <1> QED
    BY <1>2, <1>3, <1>4, <1>5

\* How the row that f ends with grows, or ends.
LEMMA RowGrows ==
    ASSUME LimitSorts, NEW f \in Fields, NEW v \in Values, Grows(f, v),
           NEW r \in Nat, RowOf(f, Len(seen[f]), r),
           NEW n \in Nat, n = Len(seen[f])
    PROVE  /\ Bad(f, n + 1)' => RowOf(f, n + 1, r + 1)'
           /\ ~Bad(f, n + 1)' => /\ RowOf(f, n + 1, 0)'
                                 /\ \A m \in Nat \ {0} : ~RowOf(f, n + 1, m)'
  <1> DEFINE len == Len(seen[f])
  <1>1. len \in Nat /\ \A i \in 1 .. len : Bad(f, i)' <=> Bad(f, i)
    BY RowsThatWere
  <1>2. /\ r <= len
        /\ \A k \in len - r + 1 .. len : Bad(f, k)
        /\ r < len => ~Bad(f, len - r)
    BY DEF RowOf
  <1>3. n = len
    OBVIOUS
  <1> HIDE DEF len
  <1>4. ASSUME Bad(f, n + 1)' PROVE RowOf(f, n + 1, r + 1)'
    <2>1. r + 1 <= n + 1
      BY <1>2, <1>3
    <2>2. ASSUME NEW k \in (n + 1) - (r + 1) + 1 .. n + 1 PROVE Bad(f, k)'
      <3>1. CASE k = n + 1
        BY <1>4, <3>1
      <3>2. CASE k # n + 1
        <4>1. k \in n - r + 1 .. n /\ k \in 1 .. n
          BY <1>2, <1>3, <3>2
        <4> QED
          BY <1>1, <1>2, <1>3, <4>1
      <3> QED
        BY <3>1, <3>2
    <2>3. ASSUME r + 1 < n + 1 PROVE ~Bad(f, (n + 1) - (r + 1))'
      <3>1. n - r \in 1 .. n /\ r < n /\ (n + 1) - (r + 1) = n - r
        BY <2>3
      <3> QED
        BY <1>1, <1>2, <1>3, <3>1
    <2> HIDE DEF Bad
    <2> QED
      BY <2>1, <2>2, <2>3 DEF RowOf
  <1>5. ASSUME ~Bad(f, n + 1)'
        PROVE  RowOf(f, n + 1, 0)' /\ \A m \in Nat \ {0} : ~RowOf(f, n + 1, m)'
    <2>1. /\ 0 <= n + 1 /\ 0 < n + 1 /\ (n + 1) - 0 = n + 1
          /\ (n + 1) - 0 + 1 .. n + 1 = {}
      OBVIOUS
    <2>2. RowOf(f, n + 1, 0)'
      BY <1>5, <2>1 DEF RowOf
    <2>3. ASSUME NEW m \in Nat \ {0}, RowOf(f, n + 1, m)' PROVE FALSE
      <3>1. n + 1 \in (n + 1) - m + 1 .. n + 1
        OBVIOUS
      <3> QED
        BY <1>5, <2>3, <3>1 DEF RowOf
    <2> QED
      BY <2>2, <2>3
  <1> QED
    BY <1>4, <1>5

\* NotifiedAsConfigured for one field.
NotifiedFor(f) ==
    /\ notified[f] \subseteq (1 .. Len(seen[f])) \X Triggers
    /\ \A i \in 1 .. Len(seen[f]), t \in Triggers :
          <<i, t>> \in notified[f] <=> /\ t = "error" <=> Violates(seen[f][i], limits[f].error)
                                       /\ \E n \in Rings : RowOf(f, i, n)

LEMMA ForEachField == NotifiedAsConfigured <=> \A f \in Fields : NotifiedFor(f)
  BY DEF NotifiedAsConfigured, NotifiedFor, Triggers

LEMMA RingsAreNumbers ==
    ASSUME options \in NotifyOptions
    PROVE  Rings \subseteq Nat \ {0}
  <1>1. options.threshold \in Nat \ {0}
    BY OptionsHere
  <1> QED
    BY <1>1 DEF Rings

\* The triggers with which value v, the one after the n-th, is to be notified.
Notifying(f, v, n, T) ==
    \A t \in Triggers : t \in T <=> /\ t = "error" <=> Violates(v, limits[f].error)
                                    /\ \E m \in Rings : RowOf(f, n + 1, m)'

\* Of a field that was given one more value, which is notified with the triggers T.
LEMMA OneMoreNotified ==
    ASSUME LimitInv, NEW f \in Fields, NEW v \in Values, Grows(f, v),
           NEW n \in Nat, n = Len(seen[f]),
           NEW T \in SUBSET Triggers,
           notified'[f] = notified[f] \cup {<<n + 1, t>> : t \in T},
           Notifying(f, v, n, T)
    PROVE  NotifiedFor(f)'
  <1>1. /\ LimitSorts /\ NotifiedFor(f) /\ options \in NotifyOptions
    BY ForEachField DEF LimitInv, LimitSorts
  <1>2. /\ Len(seen'[f]) = n + 1
        /\ \A i \in 1 .. n : seen'[f][i] = seen[f][i]
        /\ seen'[f][n + 1] = v
        /\ \A i \in 0 .. n, m \in Nat : RowOf(f, i, m)' <=> RowOf(f, i, m)
    BY <1>1, RowsThatWere
  <1>3. Rings \subseteq Nat /\ Rings' = Rings /\ limits' = limits
    BY <1>1, RingsAreNumbers DEF Grows, Rings
  <1>4. notified[f] \subseteq (1 .. n) \X Triggers
    BY <1>1 DEF NotifiedFor
  <1>5. notified'[f] \subseteq (1 .. n + 1) \X Triggers
    <2>1. \A p \in (1 .. n) \X Triggers : p \in (1 .. n + 1) \X Triggers
      BY <1>2
    <2>2. \A t \in T : <<n + 1, t>> \in (1 .. n + 1) \X Triggers
      OBVIOUS
    <2> QED
      BY <1>4, <2>1, <2>2
  <1>6. ASSUME NEW i \in 1 .. n + 1, NEW t \in Triggers
        PROVE  <<i, t>> \in notified'[f] <=> /\ t = "error" <=> Violates(seen'[f][i], limits[f].error)
                                             /\ \E m \in Rings : RowOf(f, i, m)'
    <2>1. CASE i = n + 1
      <3>1. <<i, t>> \notin notified[f]
        BY <1>4, <2>1
      <3>2. <<i, t>> \in notified'[f] <=> t \in T
        BY <2>1, <3>1
      <3> QED
        BY <1>2, <2>1, <3>2 DEF Notifying
    <2>2. CASE i # n + 1
      <3>1. i \in 1 .. n /\ i \in 0 .. n
        BY <2>2
      <3>2. <<i, t>> \in notified'[f] <=> <<i, t>> \in notified[f]
        BY <2>2
      <3>3. \A m \in Rings : RowOf(f, i, m)' <=> RowOf(f, i, m)
        BY <1>2, <1>3, <3>1
      <3>4. <<i, t>> \in notified[f] <=> /\ t = "error" <=> Violates(seen[f][i], limits[f].error)
                                         /\ \E m \in Rings : RowOf(f, i, m)
        BY <1>1, <3>1 DEF NotifiedFor
      <3> QED
        BY <1>2, <3>1, <3>2, <3>3, <3>4
    <2> QED
      BY <2>1, <2>2
  <1>7. \A w, l : Violates(w, l)' <=> Violates(w, l)
    BY DEF Violates
  <1> QED
    BY <1>2, <1>3, <1>5, <1>6 DEF NotifiedFor, Violates

LEMMA OtherFieldsStay ==
    ASSUME LimitInv, NEW f \in Fields, NEW v \in Values, Grows(f, v),
           NEW g \in Fields, g # f, repeats'[g] = repeats[g], notified'[g] = notified[g]
    PROVE  /\ NotifiedFor(g)'
           /\ repeats'[g] \in Nat /\ RowOf(g, Len(seen[g]), repeats[g])'
  <1>1. seen'[g] = seen[g] /\ limits' = limits /\ options' = options
    BY RowsThatWere DEF LimitInv, Grows
  <1>2. \A i, n : RowOf(g, i, n)' <=> RowOf(g, i, n)
    BY <1>1 DEF RowOf, Bad, Violates
  <1>3. Rings' = Rings
    BY <1>1 DEF Rings
  <1>4. NotifiedFor(g) /\ repeats[g] \in Nat /\ RowOf(g, Len(seen[g]), repeats[g])
    BY ForEachField DEF LimitInv, Counting
  <1>5. NotifiedFor(g)'
    BY <1>1, <1>2, <1>3, <1>4 DEF NotifiedFor, Violates
  <1>6. RowOf(g, Len(seen[g]), repeats[g])'
    BY <1>1, <1>4 DEF RowOf, Bad, Violates
  <1> QED
    BY <1>4, <1>5, <1>6

\* A value was looked at; the count of its field is of the row that the field ends with now.
LEMMA Looked ==
    ASSUME LimitInv, NEW f \in Fields, NEW v \in Values, Grows(f, v),
           NEW n \in Nat, n = Len(seen[f]), n < MaxSeen,
           NEW r \in Nat, repeats' = [repeats EXCEPT ![f] = r], RowOf(f, n + 1, r)',
           NEW T \in SUBSET Triggers,
           notified' = [notified EXCEPT ![f] = @ \cup {<<n + 1, t>> : t \in T}],
           Notifying(f, v, n, T),
           field' \in Fields
    PROVE  LimitInv'
  <1>1. LimitSorts
    BY DEF LimitInv
  <1>2. /\ seen' \in [Fields -> Seq(Values)] /\ Len(seen'[f]) = n + 1
        /\ \A g \in Fields : g # f => seen'[g] = seen[g]
    BY <1>1, RowsThatWere
  <1>3. UNCHANGED <<limits, options>> /\ Fields' = Fields
    BY DEF Grows, Fields
  <1>4. /\ repeats'[f] = r /\ repeats' \in [Fields -> Nat]
        /\ \A g \in Fields : g # f => repeats'[g] = repeats[g] /\ notified'[g] = notified[g]
        /\ notified'[f] = notified[f] \cup {<<n + 1, t>> : t \in T}
        /\ notified' = [g \in Fields |-> notified'[g]]
    BY <1>1 DEF LimitSorts
  <1>5. \A g \in Fields : Len(seen'[g]) <= MaxSeen
    <2>1. MaxSeen \in Nat
      BY LimitMonitorAssumption
    <2>2. n + 1 <= MaxSeen
      BY <2>1
    <2> QED
      BY <1>1, <1>2, <2>2 DEF LimitSorts
  <1>6. LimitSorts'
    BY <1>1, <1>2, <1>3, <1>4, <1>5 DEF LimitSorts
  <1>7. ASSUME NEW g \in Fields
        PROVE  NotifiedFor(g)' /\ repeats'[g] \in Nat /\ RowOf(g, Len(seen[g]), repeats[g])'
    <2>1. CASE g = f
      <3>1. NotifiedFor(f)'
        BY <1>4, OneMoreNotified
      <3>2. RowOf(f, Len(seen[f]), repeats[f])'
        BY <1>2, <1>4 DEF RowOf
      <3> QED
        BY <1>4, <2>1, <3>1, <3>2
    <2>2. CASE g # f
      <3>1. repeats'[g] = repeats[g] /\ notified'[g] = notified[g]
        BY <1>4, <2>2
      <3> QED
        BY <2>2, <3>1, OtherFieldsStay
    <2> QED
      BY <2>1, <2>2
  <1>8. Counting'
    BY <1>3, <1>7 DEF Counting
  <1>9. NotifiedAsConfigured'
    BY <1>3, <1>7 DEF NotifiedAsConfigured, NotifiedFor, Triggers
  <1> QED
    BY <1>6, <1>8, <1>9 DEF LimitInv

LEMMA NominalKeeps ==
    ASSUME LimitInv, NEW v \in Values, Nominal(v), Len(seen[field]) < MaxSeen, field' \in Fields
    PROVE  LimitInv'
  <1>1. LimitSorts /\ field \in Fields /\ Grows(field, v)
    BY DEF LimitInv, LimitSorts, Nominal, Grows
  <1>2. PICK f \in Fields : f = field
    BY <1>1
  <1>3. PICK n \in Nat : n = Len(seen[f])
    BY <1>1, <1>2, RowsThatWere
  <1>4. Grows(f, v)
    BY <1>1, <1>2
  <1>5. ~Bad(f, n + 1)'
    <2>1. seen'[f][n + 1] = v /\ limits' = limits
      BY <1>1, <1>3, <1>4, RowsThatWere DEF Grows
    <2>2. ~Violates(v, limits[f].error) /\ ~Violates(v, limits[f].warn)
      BY <1>2 DEF Nominal
    <2> QED
      BY <2>1, <2>2 DEF Bad, Violates
  <1>6. RowOf(f, n, repeats[f]) /\ repeats[f] \in Nat
    BY <1>3 DEF LimitInv, Counting
  <1>7. RowOf(f, n + 1, 0)' /\ \A m \in Nat \ {0} : ~RowOf(f, n + 1, m)'
    BY <1>1, <1>3, <1>4, <1>5, <1>6, RowGrows
  <1>8. Notifying(f, v, n, {})
    <2>1. Rings \subseteq Nat \ {0}
      BY <1>1, RingsAreNumbers DEF LimitSorts
    <2> QED
      BY <1>7, <2>1 DEF Notifying
  <1>9. /\ repeats' = [repeats EXCEPT ![f] = 0]
        /\ notified' = [notified EXCEPT ![f] = @ \cup {<<n + 1, t>> : t \in {}}]
    <2>1. {<<n + 1, t>> : t \in {}} = {}
      OBVIOUS
    <2>2. notified' = notified
      BY <1>1 DEF Nominal, LimitSorts
    <2>3. notified = [notified EXCEPT ![f] = @ \cup {}]
      BY <1>1, <2>2 DEF LimitSorts
    <2> QED
      BY <1>2, <2>1, <2>2, <2>3 DEF Nominal
  <1>10. n < MaxSeen /\ {} \in SUBSET Triggers /\ 0 \in Nat
    BY <1>2, <1>3
  <1> QED
    BY <1>3, <1>4, <1>7, <1>8, <1>9, <1>10, Looked

LEMMA CountKeeps ==
    ASSUME LimitInv, NEW v \in Values, NEW trigger \in Triggers, Count(v, trigger),
           UNCHANGED <<limits, options>>, Len(seen[field]) < MaxSeen, field' \in Fields
    PROVE  LimitInv'
  <1>1. LimitSorts /\ field \in Fields /\ Grows(field, v)
    BY DEF LimitInv, LimitSorts, Count, Grows
  <1>2. PICK f \in Fields : f = field
    BY <1>1
  <1>3. PICK n \in Nat : n = Len(seen[f])
    BY <1>1, <1>2, RowsThatWere
  <1>4. Grows(f, v)
    BY <1>1, <1>2
  <1>5. /\ seen'[f][n + 1] = v /\ Len(seen'[f]) = n + 1 /\ limits' = limits
    BY <1>1, <1>3, <1>4, RowsThatWere DEF Grows
  <1>6. /\ Violates(v, limits[f][trigger])
        /\ trigger = "warn" => ~Violates(v, limits[f].error)
    BY <1>2 DEF Count
  <1>7. trigger = "error" <=> Violates(v, limits[f].error)
    BY <1>6 DEF Triggers
  <1>8. Bad(f, n + 1)'
    BY <1>5, <1>6 DEF Bad, Violates, Triggers
  <1>9. PICK r \in Nat : r = repeats[f] /\ RowOf(f, n, r)
    BY <1>3 DEF LimitInv, Counting
  <1>10. RowOf(f, n + 1, r + 1)'
    BY <1>1, <1>3, <1>4, <1>8, <1>9, RowGrows
  <1>11. n < MaxSeen /\ r <= n /\ MaxSeen \in Nat
    BY <1>2, <1>3, <1>9, LimitMonitorAssumption DEF RowOf
  <1>12. options \in NotifyOptions /\ r + 1 \in Nat /\ r + 1 <= MaxSeen
    BY <1>1, <1>11 DEF LimitSorts
  <1>13. Due(r + 1) <=> r + 1 \in Rings
    BY <1>12, DueRings
  <1>14. (\E m \in Rings : RowOf(f, n + 1, m)') <=> Due(r + 1)
    <2>1. ASSUME NEW m \in Rings, RowOf(f, n + 1, m)' PROVE m = r + 1
      <3>1. m \in Nat /\ n + 1 \in Nat
        BY <1>12, RingsAreNumbers
      <3> QED
        BY <1>10, <1>12, <2>1, <3>1, RowIsOne
    <2> QED
      BY <1>10, <1>13, <2>1
  <1> DEFINE T == IF Due(r + 1) THEN {trigger} ELSE {}
  <1>15. T \in SUBSET Triggers
    OBVIOUS
  <1>16. Notifying(f, v, n, T)
    <2>1. ASSUME NEW t \in Triggers
          PROVE  t \in T <=> (t = "error" <=> Violates(v, limits[f].error)) /\ Due(r + 1)
      BY <1>7, <2>1 DEF Triggers
    <2> QED
      BY <1>14, <2>1 DEF Notifying
  <1>17. repeats' = [repeats EXCEPT ![f] = r + 1]
    BY <1>2, <1>9 DEF Count
  <1>18. notified' = [notified EXCEPT ![f] = @ \cup {<<n + 1, t>> : t \in T}]
    <2>1. repeats'[f] = r + 1 /\ notified = [g \in Fields |-> notified[g]]
      BY <1>1, <1>17 DEF LimitSorts
    <2>2. CASE Due(r + 1)
      <3>1. {<<n + 1, t>> : t \in T} = {<<n + 1, trigger>>}
        BY <2>2
      <3>2. notified' = [notified EXCEPT ![f] = @ \cup {<<n + 1, trigger>>}]
        BY <1>2, <1>5, <2>1, <2>2 DEF Count
      <3> QED
        BY <3>1, <3>2
    <2>3. CASE ~Due(r + 1)
      <3>1. {<<n + 1, t>> : t \in T} = {}
        BY <2>3
      <3>2. notified' = notified
        BY <1>2, <2>1, <2>3 DEF Count
      <3>3. notified = [notified EXCEPT ![f] = @ \cup {}]
        BY <2>1
      <3> QED
        BY <3>1, <3>2, <3>3
    <2> QED
      BY <2>2, <2>3
  <1> HIDE DEF T
  <1> QED
    BY <1>3, <1>4, <1>10, <1>11, <1>12, <1>15, <1>16, <1>17, <1>18, Looked

LEMMA LimitKeepsInv == LimitInv /\ [LimitMonitorNext]_limitVars => LimitInv'
  <1> SUFFICES ASSUME LimitInv, [LimitMonitorNext]_limitVars PROVE LimitInv'
    OBVIOUS
  <1>1. field \in Fields /\ NextField \in Fields
    <2>1. Len(limits) \in Nat \ {0} /\ Fields = 1 .. Len(limits) /\ field \in Fields
      BY LimitsHere DEF LimitInv, LimitSorts
    <2> QED
      BY <2>1 DEF NextField
  <1>2. CASE UNCHANGED <<limits, options, field, repeats, seen, notified>>
    <2>1. /\ Fields' = Fields /\ Rings' = Rings /\ seen' = seen /\ limits' = limits
          /\ repeats' = repeats /\ notified' = notified
      BY <1>2 DEF Fields, Rings
    <2>2. \A f, i, n : RowOf(f, i, n)' <=> RowOf(f, i, n)
      BY <1>2 DEF RowOf, Bad, Violates
    <2>3. LimitSorts'
      BY <1>2, <2>1 DEF LimitInv, LimitSorts
    <2>4. Counting'
      <3>1. ASSUME NEW f \in Fields PROVE repeats[f] \in Nat /\ RowOf(f, Len(seen[f]), repeats[f])'
        <4>1. repeats[f] \in Nat /\ RowOf(f, Len(seen[f]), repeats[f])
          BY DEF LimitInv, Counting
        <4> QED
          BY <2>1, <4>1 DEF RowOf, Bad, Violates
      <3> QED
        BY <2>1, <3>1 DEF Counting
    <2>5. NotifiedAsConfigured'
      <3>1. \A v, l : Violates(v, l)' <=> Violates(v, l)
        BY DEF Violates
      <3> QED
        BY <2>1, <2>2, <3>1 DEF LimitInv, NotifiedAsConfigured, Violates
    <2> QED
      BY <2>3, <2>4, <2>5 DEF LimitInv
  <1>3. ASSUME NEW v \in Values, Nominal(v), Len(seen[field]) < MaxSeen PROVE LimitInv'
    <2>1. field' \in Fields
      BY <1>1, <1>3 DEF Nominal
    <2> QED
      BY <1>3, <2>1, NominalKeeps
  <1>4. ASSUME NEW v \in Values, NEW t \in Triggers, Len(seen[field]) < MaxSeen,
               Trip(v, t) \/ NotificationRaises(v, t)
        PROVE  LimitInv'
    <2>1. field' \in Fields /\ UNCHANGED <<limits, options>> /\ Count(v, t)
      BY <1>1, <1>4 DEF Trip, NotificationRaises
    <2> QED
      BY <1>4, <2>1, CountKeeps
  <1>5. FieldRaises => UNCHANGED <<limits, options, field, repeats, seen, notified>>
    BY DEF FieldRaises
  <1> QED
    BY <1>2, <1>3, <1>4, <1>5 DEF LimitMonitorNext, limitVars, Triggers

LEMMA LimitStarts == LimitMonitorInit => LimitInv
  <1> SUFFICES ASSUME LimitMonitorInit PROVE LimitInv
    OBVIOUS
  <1>1. Len(limits) \in Nat \ {0} /\ Fields = 1 .. Len(limits)
    BY LimitsHere DEF LimitMonitorInit
  <1>2. \A f \in Fields : seen[f] = <<>> /\ repeats[f] = 0 /\ notified[f] = {}
    BY DEF LimitMonitorInit
  <1>3. LimitSorts
    <2>1. <<>> \in Seq(Values) /\ Len(<<>>) = 0 /\ MaxSeen \in Nat
      BY LimitMonitorAssumption
    <2> QED
      BY <1>1, <2>1 DEF LimitMonitorInit, LimitSorts
  <1>4. Counting
    <2>1. ASSUME NEW f \in Fields PROVE RowOf(f, Len(seen[f]), repeats[f]) /\ repeats[f] \in Nat
      <3>1. Len(seen[f]) = 0 /\ repeats[f] = 0 /\ 0 - 0 + 1 .. 0 = {} /\ 0 <= 0 /\ ~(0 < 0)
        BY <1>2
      <3> QED
        BY <3>1 DEF RowOf
    <2> QED
      BY <2>1 DEF Counting
  <1>5. NotifiedAsConfigured
    <2>1. \A f \in Fields : 1 .. Len(seen[f]) = {}
      BY <1>2
    <2> QED
      BY <1>2, <2>1 DEF NotifiedAsConfigured
  <1> QED
    BY <1>3, <1>4, <1>5 DEF LimitInv

\* For every limit, threshold and frequency and every sequence of values, what is notified
\* is what the configuration asks for (limit_monitor.py 58-95).
THEOREM NotifiedRight == LimitMonitorSpec => []NotifiedAsConfigured
  <1>1. LimitInv => NotifiedAsConfigured
    BY DEF LimitInv
  <1> QED
    BY <1>1, LimitStarts, LimitKeepsInv, PTL DEF LimitMonitorSpec

LEMMA LimitsTyped == LimitInv /\ monitoring \in BOOLEAN => LimitMonitorTypes
  <1> SUFFICES ASSUME LimitInv, monitoring \in BOOLEAN PROVE LimitMonitorTypes
    OBVIOUS
  <1>1. /\ limits \in LimitSets /\ options \in NotifyOptions /\ field \in Fields
        /\ repeats \in [Fields -> Nat] /\ seen \in [Fields -> Seq(Values)]
        /\ notified = [f \in Fields |-> notified[f]] /\ MaxSeen \in Nat
    BY LimitMonitorAssumption DEF LimitInv, LimitSorts
  <1>2. \A f \in Fields : Len(seen[f]) \in Nat /\ Len(seen[f]) <= MaxSeen
    BY <1>1, LenProperties DEF LimitInv, LimitSorts
  <1>3. \A f \in Fields : repeats[f] \in Nat /\ repeats[f] <= Len(seen[f])
    BY DEF LimitInv, Counting, RowOf
  <1>4. repeats \in [Fields -> 0 .. MaxSeen]
    <2>1. \A f \in Fields : repeats[f] \in 0 .. MaxSeen
      BY <1>1, <1>2, <1>3
    <2> QED
      BY <1>1, <2>1
  <1>5. \A f \in Fields : notified[f] \in SUBSET ((1 .. MaxSeen) \X {"error", "warn"})
    <2>1. ASSUME NEW f \in Fields PROVE notified[f] \subseteq (1 .. MaxSeen) \X {"error", "warn"}
      <3>1. notified[f] \subseteq (1 .. Len(seen[f])) \X {"error", "warn"}
        BY DEF LimitInv, NotifiedAsConfigured
      <3>2. 1 .. Len(seen[f]) \subseteq 1 .. MaxSeen
        BY <1>1, <1>2
      <3> QED
        BY <3>1, <3>2
    <2> QED
      BY <2>1
  <1>6. notified \in [Fields -> SUBSET ((1 .. MaxSeen) \X {"error", "warn"})]
    BY <1>1, <1>5
  <1> QED
    BY <1>1, <1>4, <1>6 DEF LimitMonitorTypes

\* The monitor counts no further than the values it has seen, and what it notified are values
\* of the field, as errors or warnings (limit_monitor.py 58-95).
THEOREM LimitMonitorTypeCorrect == LimitMonitorSpec => []LimitMonitorTypes
  <1>1. LimitMonitorInit => monitoring \in BOOLEAN
    BY DEF LimitMonitorInit
  <1>2. monitoring \in BOOLEAN /\ [LimitMonitorNext]_limitVars => (monitoring \in BOOLEAN)'
    BY DEF LimitMonitorNext, Nominal, Trip, NotificationRaises, FieldRaises, limitVars
  <1> QED
    BY <1>1, <1>2, LimitStarts, LimitKeepsInv, LimitsTyped, PTL DEF LimitMonitorSpec

-----------------------------------------------------------------------------
(* The accumulator.                                                        *)

\* f has the totals of what sizes begins with.
TotalsOf(sizes, f) == /\ f \in [0 .. Len(sizes) -> Nat]
                      /\ f[0] = 0
                      /\ \A i \in 1 .. Len(sizes) : f[i] = f[i - 1] + sizes[i]

LEMMA TotalsExist ==
    ASSUME NEW sizes \in Seq(Nat)
    PROVE  \E f : TotalsOf(sizes, f)
  <1> DEFINE n == Len(sizes)
             step == [x \in Nat \X Nat |-> IF x[1] + 1 \in 1 .. n THEN x[2] + sizes[x[1] + 1] ELSE 0]
  <1>1. n \in Nat /\ \A i \in 1 .. n : sizes[i] \in Nat
    BY LenProperties, ElementOfSeq
  <1>2. step \in [Nat \X Nat -> Nat]
    <2> HIDE DEF n
    <2> QED
      BY <1>1
  <1>3. \A i \in Nat, t \in Nat : i + 1 \in 1 .. n => step[<<i, t>>] = t + sizes[i + 1]
    <2> HIDE DEF n
    <2> QED
      OBVIOUS
  <1> HIDE DEF step
  <1>4. PICK g \in [Nat -> Nat] : Follows(g, 0, step)
    BY <1>2, Recursion
  <1> DEFINE f == [i \in 0 .. n |-> g[i]]
  <1>5. f \in [0 .. n -> Nat] /\ f[0] = 0
    BY <1>1, <1>4 DEF Follows
  <1>6. ASSUME NEW i \in 1 .. n PROVE f[i] = f[i - 1] + sizes[i]
    <2> HIDE DEF n
    <2>1. i - 1 \in Nat /\ (i - 1) + 1 = i /\ i \in 0 .. n /\ i - 1 \in 0 .. n
      BY <1>1
    <2>2. g[(i - 1) + 1] = step[<<i - 1, g[i - 1]>>]
      BY <1>4, <2>1 DEF Follows
    <2>3. g[i] = g[i - 1] + sizes[i]
      BY <1>3, <1>4, <2>1, <2>2
    <2> QED
      BY <2>1, <2>3
  <1> HIDE DEF f
  <1> QED
    BY <1>5, <1>6 DEF TotalsOf

LEMMA TotalsAreOne ==
    ASSUME NEW sizes \in Seq(Nat), NEW f, TotalsOf(sizes, f)
    PROVE  Total(sizes) = f[Len(sizes)]
  <1> DEFINE n == Len(sizes)
             body(t) == [i \in 0 .. n |-> IF i = 0 THEN 0 ELSE t[i - 1] + sizes[i]]
             total == CHOOSE t : t = body(t)
  <1>1. n \in Nat /\ \A i \in 1 .. n : sizes[i] \in Nat
    BY LenProperties, ElementOfSeq
  <1>2. Total(sizes) = total[n]
    BY DEF Total
  <1>3. f = body(f)
    <2>1. f = [i \in 0 .. n |-> f[i]]
      BY DEF TotalsOf
    <2>2. \A i \in 0 .. n : f[i] = IF i = 0 THEN 0 ELSE f[i - 1] + sizes[i]
      BY <1>1 DEF TotalsOf
    <2> HIDE DEF n
    <2> QED
      BY <2>1, <2>2
  <1>4. total = body(total)
    <2> HIDE DEF body
    <2> QED
      BY <1>3
  <1> HIDE DEF total
  <1> DEFINE T == {i \in Nat : i <= n => total[i] = f[i]}
  <1>5. 0 \in T
    BY <1>1, <1>4 DEF TotalsOf
  <1>6. ASSUME NEW i \in Nat, i \in T PROVE i + 1 \in T
    <2>1. CASE i + 1 <= n
      <3>1. i + 1 \in 1 .. n /\ i + 1 \in 0 .. n /\ i + 1 # 0 /\ (i + 1) - 1 = i /\ i <= n
        BY <1>1, <2>1
      <3>2. total[i + 1] = total[i] + sizes[i + 1]
        BY <1>4, <3>1
      <3>3. f[i + 1] = f[i] + sizes[i + 1]
        BY <3>1 DEF TotalsOf
      <3> QED
        BY <1>6, <3>1, <3>2, <3>3
    <2> QED
      BY <2>1
  <1> HIDE DEF T
  <1>7. n \in T
    BY <1>1, <1>5, <1>6, SetInduction
  <1> QED
    BY <1>1, <1>2, <1>7 DEF T

LEMMA TotalType ==
    ASSUME NEW sizes \in Seq(Nat)
    PROVE  Total(sizes) \in Nat
  <1>1. PICK f : TotalsOf(sizes, f)
    BY TotalsExist
  <1>2. Len(sizes) \in Nat
    BY LenProperties
  <1> QED
    BY SMTT(30), <1>1, <1>2, TotalsAreOne DEF TotalsOf

LEMMA TotalOfNone == Total(<<>>) = 0
  <1>1. <<>> \in Seq(Nat) /\ Len(<<>>) = 0
    BY EmptySeq
  <1>2. TotalsOf(<<>>, [i \in 0 .. 0 |-> 0])
    BY <1>1 DEF TotalsOf
  <1> QED
    BY <1>1, <1>2, TotalsAreOne

LEMMA TotalOfOneMore ==
    ASSUME NEW sizes \in Seq(Nat), NEW x \in Nat
    PROVE  Total(Append(sizes, x)) = Total(sizes) + x
  <1> DEFINE more == Append(sizes, x)
  <1>1. PICK n \in Nat : n = Len(sizes)
    BY LenProperties
  <1>2. /\ more \in Seq(Nat) /\ Len(more) = n + 1
        /\ \A i \in 1 .. n : more[i] = sizes[i]
        /\ more[n + 1] = x
    BY <1>1, AppendProperties
  <1> HIDE DEF more
  <1>3. PICK f : TotalsOf(more, f)
    BY <1>2, TotalsExist
  <1> DEFINE g == [i \in 0 .. n |-> f[i]]
  <1>4. g \in [0 .. n -> Nat] /\ g[0] = 0 /\ g[n] = f[n] /\ \A i \in 1 .. n : g[i] = f[i] /\ g[i - 1] = f[i - 1]
    BY SMTT(30), <1>2, <1>3 DEF TotalsOf
  <1>5. \A i \in 1 .. n : g[i] = g[i - 1] + sizes[i]
    <2> HIDE DEF g
    <2>1. \A i \in 1 .. n : i \in 1 .. n + 1
      OBVIOUS
    <2> QED
      BY <1>2, <1>3, <1>4, <2>1 DEF TotalsOf
  <1> HIDE DEF g
  <1>6. Total(sizes) = g[n]
    BY <1>1, <1>4, <1>5, TotalsAreOne DEF TotalsOf
  <1>7. Total(more) = f[n + 1]
    BY <1>2, <1>3, TotalsAreOne
  <1>8. f[n + 1] = f[n] + x
    <2>1. n + 1 \in 1 .. n + 1 /\ (n + 1) - 1 = n
      OBVIOUS
    <2> QED
      BY <1>2, <1>3, <2>1 DEF TotalsOf
  <1> QED
    BY <1>4, <1>6, <1>7, <1>8 DEF more

LEMMA NextPlaces ==
    ASSUME NEW n \in Nat, NEW i \in Nat, i + 1 <= n
    PROVE  /\ i + 1 \in 1 .. n /\ (i + 1) + 1 \in 1 .. n + 1 /\ i <= n
           /\ (i + 1) - 1 = i /\ ((i + 1) + 1) - 1 = i + 1
  OBVIOUS

LEMMA TotalOfRest ==
    ASSUME NEW sizes \in Seq(Nat), NEW rest \in Seq(Nat), Len(sizes) = Len(rest) + 1,
           \A i \in 1 .. Len(rest) : rest[i] = sizes[i + 1]
    PROVE  Total(rest) <= Total(sizes)
  <1>1. PICK n \in Nat : n = Len(rest)
    BY LenProperties
  <1>2. PICK f : TotalsOf(sizes, f)
    BY TotalsExist
  <1>3. PICK h : TotalsOf(rest, h)
    BY TotalsExist
  <1> DEFINE T == {i \in Nat : i <= n => h[i] <= f[i + 1]}
  <1>4. \A i \in 1 .. n + 1 : f[i] = f[i - 1] + sizes[i] /\ f[i] \in Nat /\ f[i - 1] \in Nat
    <2>1. \A i \in 1 .. n + 1 : i \in 0 .. n + 1 /\ i - 1 \in 0 .. n + 1
      OBVIOUS
    <2> QED
      BY <1>1, <1>2, <2>1 DEF TotalsOf
  <1>5. \A i \in 1 .. n : h[i] = h[i - 1] + rest[i] /\ h[i] \in Nat /\ h[i - 1] \in Nat
    <2>1. \A i \in 1 .. n : i \in 0 .. n /\ i - 1 \in 0 .. n
      OBVIOUS
    <2> QED
      BY <1>1, <1>3, <2>1 DEF TotalsOf
  <1>6. \A i \in 1 .. n + 1 : sizes[i] \in Nat
    BY <1>1, ElementOfSeq
  <1>7. 0 \in T
    <2>1. h[0] = 0 /\ f[1] \in Nat
      BY <1>1, <1>3, <1>4 DEF TotalsOf
    <2> QED
      BY <2>1
  <1>8. ASSUME NEW i \in Nat, i \in T PROVE i + 1 \in T
    <2>1. CASE i + 1 <= n
      <3>1. /\ i + 1 \in 1 .. n /\ (i + 1) + 1 \in 1 .. n + 1 /\ i <= n
            /\ (i + 1) - 1 = i /\ ((i + 1) + 1) - 1 = i + 1
        BY <2>1, NextPlaces
      <3>2. h[i + 1] = h[i] + rest[i + 1] /\ h[i] \in Nat
        BY <1>5, <3>1
      <3>3. f[(i + 1) + 1] = f[i + 1] + sizes[(i + 1) + 1] /\ f[i + 1] \in Nat
        BY <1>4, <3>1
      <3>4. rest[i + 1] = sizes[(i + 1) + 1] /\ rest[i + 1] \in Nat
        BY <1>1, <1>6, <3>1
      <3>5. h[i] <= f[i + 1]
        BY <1>8, <3>1
      <3> QED
        BY SMTT(30), <3>2, <3>3, <3>4, <3>5
    <2> QED
      BY <2>1
  <1> HIDE DEF T
  <1>9. n \in T
    BY <1>7, <1>8, SetInduction
  <1>10. h[n] <= f[n + 1]
    BY <1>9 DEF T
  <1> QED
    BY <1>1, <1>2, <1>3, <1>10, TotalsAreOne

Packet == [size : Sizes, type : PayloadTypes]

SizesIn(reached, q) == [i \in DOMAIN q |-> reached[q[i]].size]
SizeIn(reached, q) == Total(SizesIn(reached, q))

LEMMA SizesType ==
    ASSUME NEW reached \in Seq(Packet), NEW q \in Seq(1 .. Len(reached))
    PROVE  /\ SizesIn(reached, q) \in Seq(Nat)
           /\ Len(SizesIn(reached, q)) = Len(q)
           /\ \A i \in 1 .. Len(q) : SizesIn(reached, q)[i] = reached[q[i]].size
           /\ SizeIn(reached, q) \in Nat
  <1>1. PICK n \in Nat : n = Len(q) /\ DOMAIN q = 1 .. n
    BY LenProperties
  <1>2. \A i \in 1 .. n : reached[q[i]].size \in Nat
    <2>1. \A i \in 1 .. n : q[i] \in 1 .. Len(reached)
      BY <1>1, ElementOfSeq
    <2>2. \A k \in 1 .. Len(reached) : reached[k] \in Packet
      BY ElementOfSeq
    <2> QED
      BY <2>1, <2>2, AccumulatorAssumption DEF Packet
  <1>3. SizesIn(reached, q) \in [1 .. n -> Nat]
    BY <1>1, <1>2 DEF SizesIn
  <1>4. SizesIn(reached, q) \in Seq(Nat)
    BY <1>3
  <1>5. Len(SizesIn(reached, q)) = n
    BY <1>3, <1>4, LenProperties
  <1> QED
    BY <1>1, <1>4, <1>5, TotalType DEF SizesIn, SizeIn

\* A packet that is processed later does not change the size of what is there.
LEMMA SizeStays ==
    ASSUME NEW reached \in Seq(Packet), NEW p \in Packet, NEW q \in Seq(1 .. Len(reached))
    PROVE  SizeIn(Append(reached, p), q) = SizeIn(reached, q)
  <1>1. \A i \in DOMAIN q : Append(reached, p)[q[i]] = reached[q[i]]
    <2>1. \A i \in DOMAIN q : q[i] \in 1 .. Len(reached)
      BY ElementOfSeq, LenProperties
    <2>2. \A k \in 1 .. Len(reached) : Append(reached, p)[k] = reached[k]
      BY AppendProperties
    <2> QED
      BY <2>1, <2>2
  <1> QED
    BY <1>1 DEF SizeIn, SizesIn

LEMMA SizeGrows ==
    ASSUME NEW reached \in Seq(Packet), NEW p \in Packet, NEW q \in Seq(1 .. Len(reached))
    PROVE  SizeIn(Append(reached, p), Append(q, Len(reached) + 1)) = SizeIn(reached, q) + p.size
  <1> DEFINE more == Append(reached, p)
             longer == Append(q, Len(reached) + 1)
             sizes == SizesIn(reached, q)
  <1>1. PICK N \in Nat : N = Len(reached)
    BY LenProperties
  <1>2. PICK n \in Nat : n = Len(q) /\ DOMAIN q = 1 .. n /\ \A i \in 1 .. n : q[i] \in 1 .. N
    BY <1>1, LenProperties, ElementOfSeq
  <1>3. /\ more \in Seq(Packet) /\ Len(more) = N + 1
        /\ \A k \in 1 .. N : more[k] = reached[k]
        /\ more[N + 1] = p
    BY <1>1, AppendProperties
  <1>4. q \in Seq(1 .. N + 1)
    BY <1>1, SeqMonotonic
  <1>5. /\ longer \in Seq(1 .. N + 1) /\ Len(longer) = n + 1
        /\ \A i \in 1 .. n : longer[i] = q[i]
        /\ longer[n + 1] = N + 1
    BY <1>1, <1>2, <1>4, AppendProperties
  <1>6. p.size \in Nat
    BY AccumulatorAssumption DEF Packet
  <1>7. /\ sizes \in Seq(Nat) /\ Len(sizes) = n
        /\ \A i \in 1 .. n : sizes[i] = reached[q[i]].size
    BY <1>2, SizesType
  <1> HIDE DEF more, longer, sizes
  <1>8. /\ SizesIn(more, longer) \in Seq(Nat) /\ Len(SizesIn(more, longer)) = n + 1
        /\ \A i \in 1 .. n + 1 : SizesIn(more, longer)[i] = more[longer[i]].size
    <2>1. longer \in Seq(1 .. Len(more))
      BY <1>3, <1>5
    <2> QED
      BY <1>3, <1>5, <2>1, SizesType
  <1>9. /\ Append(sizes, p.size) \in Seq(Nat) /\ Len(Append(sizes, p.size)) = n + 1
        /\ \A i \in 1 .. n : Append(sizes, p.size)[i] = sizes[i]
        /\ Append(sizes, p.size)[n + 1] = p.size
    BY <1>6, <1>7, AppendProperties
  <1>10. ASSUME NEW i \in 1 .. n + 1 PROVE SizesIn(more, longer)[i] = Append(sizes, p.size)[i]
    <2>1. CASE i = n + 1
      BY <1>3, <1>5, <1>8, <1>9, <2>1
    <2>2. CASE i # n + 1
      <3>1. i \in 1 .. n
        BY <2>2
      <3>2. longer[i] = q[i] /\ q[i] \in 1 .. N
        BY <1>2, <1>5, <3>1
      <3>3. more[longer[i]] = reached[q[i]]
        BY <1>3, <3>2
      <3>4. SizesIn(more, longer)[i] = reached[q[i]].size
        BY <1>8, <3>3
      <3>5. Append(sizes, p.size)[i] = sizes[i]
        BY <1>9, <3>1
      <3> QED
        BY <1>7, <3>1, <3>4, <3>5
    <2> QED
      BY <2>1, <2>2
  <1>11. SizesIn(more, longer) = Append(sizes, p.size)
    BY <1>8, <1>9, <1>10, SeqEqual
  <1>12. Total(Append(sizes, p.size)) = Total(sizes) + p.size
    BY <1>6, <1>7, TotalOfOneMore
  <1> QED
    BY <1>11, <1>12 DEF SizeIn, more, longer, sizes

LEMMA SizeOfNone ==
    ASSUME NEW reached
    PROVE  SizeIn(reached, <<>>) = 0
  <1>1. SizesIn(reached, <<>>) = <<>>
    BY DEF SizesIn
  <1> QED
    BY <1>1, TotalOfNone DEF SizeIn

LEMMA SizeShrinks ==
    ASSUME NEW reached \in Seq(Packet), NEW q \in Seq(1 .. Len(reached)), q # <<>>
    PROVE  SizeIn(reached, Tail(q)) <= SizeIn(reached, q)
  <1> DEFINE rest == Tail(q)
  <1>1. PICK n \in Nat : n + 1 = Len(q)
    <2>1. Len(q) \in Nat \ {0}
      BY EmptySeq
    <2>2. Len(q) - 1 \in Nat /\ (Len(q) - 1) + 1 = Len(q)
      BY <2>1
    <2> QED
      BY <2>2
  <1>2. rest \in Seq(1 .. Len(reached)) /\ Len(rest) = n /\ \A i \in 1 .. n : rest[i] = q[i + 1]
    BY <1>1, HeadTailProperties
  <1> HIDE DEF rest
  <1>3. /\ SizesIn(reached, q) \in Seq(Nat) /\ Len(SizesIn(reached, q)) = n + 1
        /\ \A i \in 1 .. n + 1 : SizesIn(reached, q)[i] = reached[q[i]].size
    BY <1>1, SizesType
  <1>4. /\ SizesIn(reached, rest) \in Seq(Nat) /\ Len(SizesIn(reached, rest)) = n
        /\ \A i \in 1 .. n : SizesIn(reached, rest)[i] = reached[rest[i]].size
    BY <1>2, SizesType
  <1>5. \A i \in 1 .. n : SizesIn(reached, rest)[i] = SizesIn(reached, q)[i + 1]
    <2>1. \A i \in 1 .. n : i + 1 \in 1 .. n + 1
      OBVIOUS
    <2> QED
      BY <1>2, <1>3, <1>4, <2>1
  <1> QED
    BY <1>3, <1>4, <1>5, TotalOfRest DEF SizeIn, rest

In(n, q) == \E k \in DOMAIN q : q[k] = n
Before(p, q) == \A i \in DOMAIN p, j \in DOMAIN q : p[i] < q[j]

\* The payloads e, the queue q and the lost L share the first N packets.
Shared(e, q, L, N) ==
    /\ q \in Seq(1 .. N) /\ e \in Seq(Seq(1 .. N)) /\ L \subseteq 1 .. N
    /\ Rising(q) /\ \A i \in DOMAIN e : Rising(e[i])
    /\ \A i, j \in DOMAIN e : i < j => Before(e[i], e[j])
    /\ \A i \in DOMAIN e : Before(e[i], q)
    /\ \A n \in 1 .. N : n \notin L <=> In(n, q) \/ \E i \in DOMAIN e : In(n, e[i])

LEMMA Appended ==
    ASSUME NEW S, NEW q \in Seq(S), NEW x \in S
    PROVE  /\ Append(q, x) \in Seq(S)
           /\ DOMAIN Append(q, x) = DOMAIN q \cup {Len(q) + 1}
           /\ Len(q) \in Nat /\ DOMAIN q = 1 .. Len(q)
           /\ \A i \in DOMAIN q : Append(q, x)[i] = q[i] /\ i # Len(q) + 1
           /\ Append(q, x)[Len(q) + 1] = x
  <1>1. PICK n \in Nat : n = Len(q) /\ DOMAIN q = 1 .. n
    BY LenProperties
  <1>2. /\ Append(q, x) \in Seq(S) /\ Len(Append(q, x)) = n + 1
        /\ \A i \in 1 .. n : Append(q, x)[i] = q[i]
        /\ Append(q, x)[n + 1] = x
    BY <1>1, AppendProperties
  <1>3. DOMAIN Append(q, x) = 1 .. n + 1
    BY <1>2, LenProperties
  <1>4. 1 .. n + 1 = (1 .. n) \cup {n + 1} /\ \A i \in 1 .. n : i # n + 1
    OBVIOUS
  <1> QED
    BY <1>1, <1>2, <1>3, <1>4

\* The queue gets the next packet.
LEMMA MoreIsShared ==
    ASSUME NEW N \in Nat, NEW e, NEW q, NEW L, Shared(e, q, L, N)
    PROVE  Shared(e, Append(q, N + 1), L, N + 1)
  <1> DEFINE more == Append(q, N + 1)
             last == Len(q) + 1
  <1>1. /\ q \in Seq(1 .. N) /\ e \in Seq(Seq(1 .. N)) /\ L \subseteq 1 .. N
        /\ \A k \in DOMAIN q : q[k] \in 1 .. N
    BY ElementOfSeq, LenProperties DEF Shared
  <1>2. q \in Seq(1 .. N + 1)
    BY <1>1, SeqMonotonic
  <1>3. e \in Seq(Seq(1 .. N + 1)) /\ L \subseteq 1 .. N + 1
    <2>1. Seq(1 .. N) \subseteq Seq(1 .. N + 1)
      BY SeqMonotonic
    <2> QED
      BY <1>1, <2>1, SeqMonotonic
  <1>4. \A i \in DOMAIN e : \A k \in DOMAIN e[i] : e[i][k] \in 1 .. N
    BY <1>1, ElementOfSeq, LenProperties
  <1>5. /\ more \in Seq(1 .. N + 1) /\ DOMAIN more = DOMAIN q \cup {last}
        /\ last \in Nat /\ DOMAIN q = 1 .. last - 1
        /\ \A i \in DOMAIN q : more[i] = q[i] /\ i # last
        /\ more[last] = N + 1
    <2>1. N + 1 \in 1 .. N + 1
      OBVIOUS
    <2> QED
      BY <1>2, <2>1, Appended
  <1> HIDE DEF more, last
  <1>6. Rising(more)
    <2>1. ASSUME NEW i \in DOMAIN more, NEW j \in DOMAIN more, i < j PROVE more[i] < more[j]
      <3>1. i \in DOMAIN q
        BY <1>5, <2>1
      <3>2. CASE j = last
        BY <1>1, <1>5, <3>1, <3>2
      <3>3. CASE j # last
        BY <1>5, <2>1, <3>1, <3>3 DEF Shared, Rising
      <3> QED
        BY <3>2, <3>3
    <2> QED
      BY <2>1 DEF Rising
  <1>7. \A i \in DOMAIN e : Before(e[i], more)
    <2>1. ASSUME NEW i \in DOMAIN e, NEW k \in DOMAIN e[i], NEW j \in DOMAIN more PROVE e[i][k] < more[j]
      <3>1. CASE j = last
        BY <1>4, <1>5, <3>1
      <3>2. CASE j # last
        BY <1>5, <3>2 DEF Shared, Before
      <3> QED
        BY <3>1, <3>2
    <2> QED
      BY <2>1 DEF Before
  <1>8. ASSUME NEW n \in 1 .. N + 1
        PROVE  n \notin L <=> In(n, more) \/ \E i \in DOMAIN e : In(n, e[i])
    <2>1. CASE n = N + 1
      <3>1. n \notin L /\ In(n, more)
        BY <1>1, <1>5, <2>1 DEF In
      <3> QED
        BY <3>1
    <2>2. CASE n # N + 1
      <3>1. n \in 1 .. N
        BY <2>2
      <3>2. In(n, more) <=> In(n, q)
        BY <1>5, <2>2 DEF In
      <3> QED
        BY <3>1, <3>2 DEF Shared
    <2> QED
      BY <2>1, <2>2
  <1> QED
    BY <1>3, <1>5, <1>6, <1>7, <1>8 DEF Shared, more

\* The queue is published.
LEMMA EmittedIsShared ==
    ASSUME NEW N \in Nat, NEW e, NEW q, NEW L, Shared(e, q, L, N)
    PROVE  Shared(Append(e, q), <<>>, L, N)
  <1> DEFINE more == Append(e, q)
             last == Len(e) + 1
  <1>1. q \in Seq(1 .. N) /\ e \in Seq(Seq(1 .. N)) /\ L \subseteq 1 .. N
    BY DEF Shared
  <1>2. /\ more \in Seq(Seq(1 .. N)) /\ DOMAIN more = DOMAIN e \cup {last}
        /\ last \in Nat /\ DOMAIN e = 1 .. last - 1
        /\ \A i \in DOMAIN e : more[i] = e[i] /\ i # last
        /\ more[last] = q
    BY <1>1, Appended
  <1> HIDE DEF more, last
  <1>3. <<>> \in Seq(1 .. N) /\ DOMAIN <<>> = {}
    BY EmptySeq
  <1>4. Rising(<<>>) /\ \A i \in DOMAIN more : Before(more[i], <<>>)
    BY <1>3 DEF Rising, Before
  <1>5. \A i \in DOMAIN more : Rising(more[i])
    BY <1>2 DEF Shared
  <1>6. ASSUME NEW i \in DOMAIN more, NEW j \in DOMAIN more, i < j PROVE Before(more[i], more[j])
    <2>1. i \in DOMAIN e
      BY <1>2, <1>6
    <2> QED
      BY <1>2, <1>6, <2>1 DEF Shared
  <1>7. ASSUME NEW n \in 1 .. N
        PROVE  n \notin L <=> In(n, <<>>) \/ \E i \in DOMAIN more : In(n, more[i])
    <2>1. ~In(n, <<>>)
      BY <1>3 DEF In
    <2>2. (\E i \in DOMAIN more : In(n, more[i])) <=> In(n, q) \/ \E i \in DOMAIN e : In(n, e[i])
      BY <1>2
    <2> QED
      BY <2>1, <2>2 DEF Shared
  <1> QED
    BY <1>1, <1>2, <1>3, <1>4, <1>5, <1>6, <1>7 DEF Shared, more

\* The head of the queue is lost.
LEMMA RestIsShared ==
    ASSUME NEW N \in Nat, NEW e, NEW q, NEW L, Shared(e, q, L, N), q # <<>>
    PROVE  Shared(e, Tail(q), L \cup {Head(q)}, N) /\ Head(q) \in 1 .. N
  <1> DEFINE rest == Tail(q)
  <1>1. q \in Seq(1 .. N) /\ e \in Seq(Seq(1 .. N)) /\ L \subseteq 1 .. N
    BY DEF Shared
  <1>2. PICK n \in Nat : n + 1 = Len(q)
    <2>1. Len(q) \in Nat \ {0}
      BY <1>1, EmptySeq
    <2>2. Len(q) - 1 \in Nat /\ (Len(q) - 1) + 1 = Len(q)
      BY <2>1
    <2> QED
      BY <2>2
  <1>3. /\ rest \in Seq(1 .. N) /\ Len(rest) = n /\ \A i \in 1 .. n : rest[i] = q[i + 1]
        /\ Head(q) = q[1]
    BY <1>1, <1>2, HeadTailProperties
  <1> HIDE DEF rest
  <1>4. /\ DOMAIN rest = 1 .. n /\ DOMAIN q = 1 .. n + 1 /\ q[1] \in 1 .. N
        /\ \A i \in 1 .. n : i + 1 \in DOMAIN q /\ 1 < i + 1 /\ 1 \in DOMAIN q
        /\ \A i \in DOMAIN q : i # 1 => i - 1 \in 1 .. n /\ (i - 1) + 1 = i
        /\ \A i \in DOMAIN q : q[i] \in 1 .. N
    BY SMTT(30), <1>1, <1>2, <1>3, LenProperties, ElementOfSeq
  <1>5. \A i \in 1 .. n : q[1] < q[i + 1]
    BY <1>4 DEF Shared, Rising
  <1>6. Rising(rest)
    <2>1. ASSUME NEW i \in 1 .. n, NEW j \in 1 .. n, i < j PROVE rest[i] < rest[j]
      <3>1. i + 1 \in DOMAIN q /\ j + 1 \in DOMAIN q /\ i + 1 < j + 1
        BY <1>4, <2>1
      <3>2. q[i + 1] < q[j + 1]
        BY <3>1 DEF Shared, Rising
      <3> QED
        BY <1>3, <3>2
    <2> QED
      BY <1>4, <2>1 DEF Rising
  <1>7. \A i \in DOMAIN e : Before(e[i], rest)
    <2>1. ASSUME NEW i \in DOMAIN e, NEW k \in DOMAIN e[i], NEW j \in 1 .. n PROVE e[i][k] < rest[j]
      <3>1. j + 1 \in DOMAIN q
        BY <1>4
      <3>2. e[i][k] < q[j + 1]
        BY <3>1 DEF Shared, Before
      <3> QED
        BY <1>3, <3>2
    <2> QED
      BY <1>4, <2>1 DEF Before
  <1>8. \A m \in 1 .. N : In(m, rest) <=> In(m, q) /\ m # q[1]
    <2>1. ASSUME NEW m \in 1 .. N, In(m, rest) PROVE In(m, q) /\ m # q[1]
      <3>1. PICK k \in 1 .. n : rest[k] = m
        BY <1>4, <2>1 DEF In
      <3>2. q[k + 1] = m /\ k + 1 \in DOMAIN q /\ q[1] < q[k + 1]
        BY <1>3, <1>4, <1>5, <3>1
      <3> QED
        BY <1>4, <3>2 DEF In
    <2>2. ASSUME NEW m \in 1 .. N, In(m, q), m # q[1] PROVE In(m, rest)
      BY <1>3, <1>4, <2>2 DEF In
    <2> QED
      BY <2>1, <2>2
  <1>9. \A i \in DOMAIN e : ~In(q[1], e[i])
    <2>1. ASSUME NEW i \in DOMAIN e, In(q[1], e[i]) PROVE FALSE
      <3>1. PICK k \in DOMAIN e[i] : e[i][k] = q[1]
        BY <2>1 DEF In
      <3>2. 1 \in DOMAIN q
        BY <1>4
      <3>3. e[i][k] < q[1]
        BY <3>2 DEF Shared, Before
      <3> QED
        BY <1>4, <3>1, <3>3
    <2> QED
      BY <2>1
  <1>10. ASSUME NEW m \in 1 .. N
         PROVE  m \notin L \cup {q[1]} <=> In(m, rest) \/ \E i \in DOMAIN e : In(m, e[i])
    BY <1>8, <1>9 DEF Shared
  <1> QED
    BY <1>1, <1>3, <1>4, <1>6, <1>7, <1>10 DEF Shared, rest

\* The packet in hand is lost.
LEMMA LossIsShared ==
    ASSUME NEW N \in Nat, NEW e, NEW q, NEW L, Shared(e, q, L, N)
    PROVE  Shared(e, q, L \cup {N + 1}, N + 1)
  <1>1. /\ q \in Seq(1 .. N) /\ e \in Seq(Seq(1 .. N)) /\ L \subseteq 1 .. N
        /\ \A k \in DOMAIN q : q[k] \in 1 .. N
        /\ \A i \in DOMAIN e : \A k \in DOMAIN e[i] : e[i][k] \in 1 .. N
    BY ElementOfSeq, LenProperties DEF Shared
  <1>2. q \in Seq(1 .. N + 1) /\ e \in Seq(Seq(1 .. N + 1)) /\ L \cup {N + 1} \subseteq 1 .. N + 1
    <2>1. Seq(1 .. N) \subseteq Seq(1 .. N + 1)
      BY SeqMonotonic
    <2>2. e \in Seq(Seq(1 .. N + 1))
      BY <1>1, <2>1, SeqMonotonic
    <2>3. q \in Seq(1 .. N + 1)
      BY <1>1, <2>1
    <2>4. L \cup {N + 1} \subseteq 1 .. N + 1
      BY <1>1
    <2> QED
      BY <2>2, <2>3, <2>4
  <1>3. ASSUME NEW n \in 1 .. N + 1
        PROVE  n \notin L \cup {N + 1} <=> In(n, q) \/ \E i \in DOMAIN e : In(n, e[i])
    <2>1. CASE n = N + 1
      BY <1>1, <2>1 DEF In
    <2>2. CASE n # N + 1
      <3>1. n \in 1 .. N
        BY <2>2
      <3> QED
        BY <2>2, <3>1 DEF Shared
    <2> QED
      BY <2>1, <2>2
  <1> QED
    BY <1>2, <1>3 DEF Shared

\* The size z is judged for the queue q; the payloads e are not larger than asked.
Sized(reached, e, q, L, z) ==
    /\ z \in Nat
    /\ z >= SizeIn(reached, q)
    /\ L = {} => z = SizeIn(reached, q)
    /\ Len(q) > 1 => z <= MaxSize
    /\ \A i \in DOMAIN e : Len(e[i]) > 1 => SizeIn(reached, e[i]) <= MaxSize

Accounted(reached, e, q, L, z) == /\ reached \in Seq(Packet)
                                  /\ Shared(e, q, L, Len(reached))
                                  /\ Sized(reached, e, q, L, z)

LEMMA AccountedHere ==
    ASSUME NEW reached, NEW e, NEW q, NEW L, NEW z, Accounted(reached, e, q, L, z)
    PROVE  /\ Len(reached) \in Nat /\ reached \in Seq(Packet)
           /\ q \in Seq(1 .. Len(reached)) /\ Len(q) \in Nat
           /\ e \in Seq(Seq(1 .. Len(reached)))
           /\ \A i \in DOMAIN e : e[i] \in Seq(1 .. Len(reached))
           /\ z \in Nat /\ SizeIn(reached, q) \in Nat
  <1>1. /\ reached \in Seq(Packet) /\ q \in Seq(1 .. Len(reached)) /\ e \in Seq(Seq(1 .. Len(reached)))
        /\ z \in Nat
    BY DEF Accounted, Shared, Sized
  <1>2. \A i \in DOMAIN e : e[i] \in Seq(1 .. Len(reached))
    BY <1>1, ElementOfSeq, LenProperties
  <1> QED
    BY <1>1, <1>2, SizesType, LenProperties

LEMMA MoreIsAccounted ==
    ASSUME NEW reached, NEW e, NEW q, NEW L, NEW z, Accounted(reached, e, q, L, z),
           NEW p \in Packet, q = <<>> \/ z + p.size <= MaxSize
    PROVE  Accounted(Append(reached, p), e, Append(q, Len(reached) + 1), L, z + p.size)
  <1> DEFINE more == Append(reached, p)
             longer == Append(q, Len(reached) + 1)
  <1>1. PICK N \in Nat : N = Len(reached)
    BY AccountedHere
  <1>2. more \in Seq(Packet) /\ Len(more) = N + 1
    BY <1>1, AccountedHere, AppendProperties
  <1>3. Shared(e, longer, L, N + 1)
    BY <1>1, MoreIsShared DEF Accounted
  <1>4. /\ SizeIn(more, longer) = SizeIn(reached, q) + p.size
        /\ \A i \in DOMAIN e : SizeIn(more, e[i]) = SizeIn(reached, e[i])
    BY AccountedHere, SizeGrows, SizeStays
  <1>5. p.size \in Nat /\ MaxSize \in Nat
    BY AccumulatorAssumption DEF Packet
  <1>6. Len(longer) > 1 => q # <<>>
    <2>1. <<>> \in Seq(Nat) /\ Len(reached) + 1 \in Nat
      BY <1>1, EmptySeq
    <2>2. Len(Append(<<>>, Len(reached) + 1)) = 1
      BY <2>1, AppendProperties, EmptySeq
    <2> QED
      BY <2>2
  <1>7. z \in Nat /\ SizeIn(reached, q) \in Nat
    BY AccountedHere
  <1> HIDE DEF more, longer
  <1>8. Sized(more, e, longer, L, z + p.size)
    BY <1>4, <1>5, <1>6, <1>7 DEF Accounted, Sized
  <1> QED
    BY <1>2, <1>3, <1>8 DEF Accounted, more, longer

LEMMA EmittedIsAccounted ==
    ASSUME NEW reached, NEW e, NEW q, NEW L, NEW z, Accounted(reached, e, q, L, z)
    PROVE  Accounted(reached, Append(e, q), <<>>, L, 0)
  <1> DEFINE more == Append(e, q)
             last == Len(e) + 1
  <1>1. PICK N \in Nat : N = Len(reached)
    BY AccountedHere
  <1>2. /\ DOMAIN more = DOMAIN e \cup {last}
        /\ \A i \in DOMAIN e : more[i] = e[i]
        /\ more[last] = q
    BY AccountedHere, Appended
  <1> HIDE DEF more, last
  <1>3. Shared(more, <<>>, L, N)
    BY <1>1, EmittedIsShared DEF Accounted, more
  <1>4. SizeIn(reached, <<>>) = 0 /\ Len(<<>>) = 0
    BY SizeOfNone
  <1>5. MaxSize \in Nat
    BY AccumulatorAssumption
  <1>6. Len(q) > 1 => SizeIn(reached, q) <= MaxSize
    BY <1>5, AccountedHere DEF Accounted, Sized
  <1>7. Sized(reached, more, <<>>, L, 0)
    BY <1>2, <1>4, <1>6 DEF Accounted, Sized
  <1> QED
    BY <1>1, <1>3, <1>7 DEF Accounted, more

LEMMA RestIsAccounted ==
    ASSUME NEW reached, NEW e, NEW q, NEW L, NEW z, Accounted(reached, e, q, L, z), q # <<>>
    PROVE  Accounted(reached, e, Tail(q), L \cup {Head(q)}, z)
  <1>1. PICK N \in Nat : N = Len(reached)
    BY AccountedHere
  <1>2. Shared(e, Tail(q), L \cup {Head(q)}, N)
    BY <1>1, RestIsShared DEF Accounted
  <1>3. SizeIn(reached, Tail(q)) <= SizeIn(reached, q)
    BY AccountedHere, SizeShrinks
  <1>4. Len(Tail(q)) = Len(q) - 1 /\ Tail(q) \in Seq(1 .. N)
    BY <1>1, AccountedHere, HeadTailProperties
  <1>5. z \in Nat /\ SizeIn(reached, q) \in Nat /\ Len(q) \in Nat /\ SizeIn(reached, Tail(q)) \in Nat
    BY <1>1, <1>4, AccountedHere, SizesType
  <1>6. Sized(reached, e, Tail(q), L \cup {Head(q)}, z)
    BY <1>3, <1>4, <1>5 DEF Accounted, Sized
  <1> QED
    BY <1>1, <1>2, <1>6 DEF Accounted

LEMMA LossIsAccounted ==
    ASSUME NEW reached, NEW e, NEW q, NEW L, NEW z, Accounted(reached, e, q, L, z),
           NEW p \in Packet
    PROVE  Accounted(Append(reached, p), e, q, L \cup {Len(reached) + 1}, z)
  <1>1. PICK N \in Nat : N = Len(reached)
    BY AccountedHere
  <1>2. Append(reached, p) \in Seq(Packet) /\ Len(Append(reached, p)) = N + 1
    BY <1>1, AccountedHere, AppendProperties
  <1>3. Shared(e, q, L \cup {N + 1}, N + 1)
    BY <1>1, LossIsShared DEF Accounted
  <1>4. /\ SizeIn(Append(reached, p), q) = SizeIn(reached, q)
        /\ \A i \in DOMAIN e : SizeIn(Append(reached, p), e[i]) = SizeIn(reached, e[i])
    BY AccountedHere, SizeStays
  <1>5. Sized(Append(reached, p), e, q, L \cup {N + 1}, z)
    BY <1>4 DEF Accounted, Sized
  <1> QED
    BY <1>1, <1>2, <1>3, <1>5 DEF Accounted

AccInv == Accounted(processed, emitted, queued, lost, queuedSize)

LEMMA AccumulatorStarts == AccumulatorInit => AccInv
  <1> SUFFICES ASSUME AccumulatorInit PROVE AccInv
    OBVIOUS
  <1>1. processed = <<>> /\ emitted = <<>> /\ queued = <<>> /\ lost = {} /\ queuedSize = 0
    BY DEF AccumulatorInit
  <1>2. /\ \A S : <<>> \in Seq(S)
        /\ Len(<<>>) = 0 /\ DOMAIN <<>> = {} /\ 1 .. 0 = {}
    BY EmptySeq
  <1>3. Shared(<<>>, <<>>, {}, 0)
    BY <1>2 DEF Shared, Rising
  <1>4. Sized(<<>>, <<>>, <<>>, {}, 0)
    BY <1>2, SizeOfNone DEF Sized
  <1> QED
    BY <1>1, <1>2, <1>3, <1>4 DEF AccInv, Accounted

LEMMA EmittedOrEmpty ==
    ASSUME AccInv
    PROVE  Accounted(processed, IF queued = <<>> THEN emitted ELSE Append(emitted, queued), <<>>, lost,
                     IF queued = <<>> THEN queuedSize ELSE 0)
  BY EmittedIsAccounted DEF AccInv

LEMMA AccumulatorKeeps == AccInv /\ [AccumulatorNext]_accumulatorVars => AccInv'
  <1> SUFFICES ASSUME AccInv, [AccumulatorNext]_accumulatorVars PROVE AccInv'
    OBVIOUS
  <1>1. ~Joins(queued) => queued # <<>>
    BY DEF Joins
  <1>2. Len(processed) \in Nat /\ processed \in Seq(Packet) /\ queuedSize \in Nat
    BY AccountedHere DEF AccInv
  <1>3. \A p \in Packet : Len(Append(processed, p)) = Len(processed) + 1
    BY <1>2, AppendProperties
  <1>4. ASSUME NEW p \in Packet, Accumulate(p) PROVE AccInv'
    <2>1. Accounted(Append(processed, p), emitted, Append(queued, Len(processed) + 1), lost, queuedSize + p.size)
      BY <1>4, MoreIsAccounted DEF AccInv, Accumulate
    <2> QED
      BY <1>3, <1>4, <2>1 DEF AccInv, Accumulate
  <1>5. ASSUME NEW p \in Packet, EmitThenAdd(p) PROVE AccInv'
    <2> DEFINE e == IF queued = <<>> THEN emitted ELSE Append(emitted, queued)
               z == IF queued = <<>> THEN queuedSize ELSE 0
    <2>1. Accounted(processed, e, <<>>, lost, z)
      BY EmittedOrEmpty
    <2> HIDE DEF e, z
    <2>2. Accounted(Append(processed, p), e, Append(<<>>, Len(processed) + 1), lost, z + p.size)
      BY <2>1, MoreIsAccounted
    <2>3. Append(<<>>, Len(processed) + 1) = <<Len(processed) + 1>>
      OBVIOUS
    <2>4. p.size \in Nat
      BY AccumulatorAssumption DEF Packet
    <2>5. /\ processed' = Append(processed, p) /\ queued' = <<Len(processed) + 1>>
          /\ emitted' = e /\ lost' = lost /\ queuedSize' = z + p.size
      BY <1>2, <1>3, <1>5, <2>4 DEF EmitThenAdd, e, z
    <2> QED
      BY <2>2, <2>3, <2>5 DEF AccInv
  <1>6. ASSUME NEW p \in Packet, AddRaises(p) PROVE AccInv'
    <2>1. Accounted(processed, emitted, Tail(queued), lost \cup {Head(queued)}, queuedSize)
      BY <1>1, <1>6, RestIsAccounted DEF AccInv, AddRaises, EmitRaises
    <2>2. Accounted(Append(processed, p), emitted, Tail(queued),
                    (lost \cup {Head(queued)}) \cup {Len(processed) + 1}, queuedSize)
      BY <2>1, LossIsAccounted
    <2>3. (lost \cup {Head(queued)}) \cup {Len(processed) + 1} = lost'
      BY <1>3, <1>6 DEF AddRaises
    <2> QED
      BY <1>6, <2>2, <2>3 DEF AccInv, AddRaises, EmitRaises
  <1>7. ASSUME TimerEmits PROVE AccInv'
    BY <1>7, EmittedIsAccounted DEF AccInv, TimerEmits
  <1>8. ASSUME TimerRaises PROVE AccInv'
    BY <1>1, <1>8, RestIsAccounted DEF AccInv, TimerRaises, EmitRaises
  <1>9. CASE UNCHANGED accumulatorVars
    BY <1>9 DEF AccInv, accumulatorVars
  <1> QED
    BY <1>4, <1>5, <1>6, <1>7, <1>8, <1>9 DEF AccumulatorNext, Packet

LEMMA AccountedOnce == AccInv => AccumulatesOnce
  <1> SUFFICES ASSUME AccInv PROVE AccumulatesOnce
    OBVIOUS
  <1> DEFINE last == Len(emitted) + 1
             N == Len(processed)
  <1>1. /\ Shared(emitted, queued, lost, N)
        /\ Sized(processed, emitted, queued, lost, queuedSize)
        /\ N \in Nat /\ DOMAIN processed = 1 .. N
        /\ emitted \in Seq(Seq(1 .. N)) /\ queued \in Seq(1 .. N)
        /\ \A i \in DOMAIN emitted : emitted[i] \in Seq(1 .. N)
    BY AccountedHere, LenProperties DEF AccInv, Accounted
  <1> HIDE DEF N
  <1>2. /\ DOMAIN Payloads = DOMAIN emitted \cup {last}
        /\ last \in Nat /\ DOMAIN emitted = 1 .. last - 1
        /\ \A i \in DOMAIN emitted : Payloads[i] = emitted[i] /\ i # last
        /\ Payloads[last] = queued
    BY <1>1, Appended DEF Payloads
  <1> HIDE DEF last
  <1>3. \A q, n : n \in Range(q) <=> In(n, q)
    BY DEF Range, In
  <1>4. \A i \in DOMAIN Payloads : Payloads[i] \in Seq(1 .. N) /\ Rising(Payloads[i])
    BY <1>1, <1>2 DEF Shared
  <1>5. ASSUME NEW i \in DOMAIN Payloads, NEW j \in DOMAIN Payloads,
               NEW m \in Range(Payloads[i]), NEW n \in Range(Payloads[j]), i < j
        PROVE  m < n
    <2>1. i \in DOMAIN emitted
      BY <1>2, <1>5
    <2>2. Before(Payloads[i], Payloads[j])
      BY <1>1, <1>2, <1>5, <2>1 DEF Shared
    <2> QED
      BY <2>2 DEF Before, Range
  <1>6. UNION {Range(Payloads[i]) : i \in DOMAIN Payloads} = DOMAIN processed \ lost
    <2>1. ASSUME NEW n PROVE (\E i \in DOMAIN Payloads : In(n, Payloads[i])) <=> n \in 1 .. N /\ n \notin lost
      <3>1. (\E i \in DOMAIN Payloads : In(n, Payloads[i])) => n \in 1 .. N
        BY <1>4, ElementOfSeq, LenProperties DEF In
      <3>2. (\E i \in DOMAIN Payloads : In(n, Payloads[i])) <=> In(n, queued) \/ \E i \in DOMAIN emitted : In(n, emitted[i])
        BY <1>2
      <3> QED
        BY <1>1, <3>1, <3>2 DEF Shared
    <2>2. \A n : n \in UNION {Range(Payloads[i]) : i \in DOMAIN Payloads} <=> \E i \in DOMAIN Payloads : In(n, Payloads[i])
      BY <1>3
    <2> QED
      BY <1>1, <2>1, <2>2
  <1>7. \A q : SizeOf(q) = SizeIn(processed, q)
    BY DEF SizeOf, SizeIn, SizesIn
  <1> QED
    BY <1>1, <1>4, <1>5, <1>6, <1>7 DEF AccumulatesOnce, Sized

\* For every limit of the size and every sequence of packets, of whatever types, each packet
\* is published once and in its turn or waits, but for those in hand when types did not join
\* (PacketAccumulator.py 39-60).
THEOREM PublishedOnce == AccumulatorSpec => []AccumulatesOnce
  BY AccumulatorStarts, AccumulatorKeeps, AccountedOnce, PTL DEF AccumulatorSpec

AccBounds == /\ Len(processed) <= MaxProcessed
             /\ ticking \in BOOLEAN /\ receiving \in BOOLEAN

LEMMA AccumulatorTyped == AccInv /\ AccBounds => AccumulatorTypes
  <1> SUFFICES ASSUME AccInv, AccBounds PROVE AccumulatorTypes
    OBVIOUS
  <1>1. /\ processed \in Seq(Packet) /\ queuedSize \in Nat
        /\ queued \in Seq(1 .. Len(processed))
        /\ emitted \in Seq(Seq(1 .. Len(processed)))
        /\ Len(processed) \in Nat
    BY AccountedHere DEF AccInv
  <1>2. lost \subseteq 1 .. Len(processed)
    BY DEF AccInv, Accounted, Shared
  <1>3. 1 .. Len(processed) \subseteq 1 .. MaxProcessed
    BY <1>1, AccumulatorAssumption DEF AccBounds
  <1>4. Seq(1 .. Len(processed)) \subseteq Seq(1 .. MaxProcessed)
    BY <1>3, SeqMonotonic
  <1>5. Seq(Seq(1 .. Len(processed))) \subseteq Seq(Seq(1 .. MaxProcessed))
    BY <1>4, SeqMonotonic
  <1> QED
    BY <1>1, <1>2, <1>3, <1>4, <1>5 DEF AccumulatorTypes, Packet, AccBounds

LEMMA AccumulatorBounded == AccInv /\ AccBounds /\ [AccumulatorNext]_accumulatorVars => AccBounds'
  <1> SUFFICES ASSUME AccInv, AccBounds, [AccumulatorNext]_accumulatorVars PROVE AccBounds'
    OBVIOUS
  <1>1. /\ processed \in Seq(Packet) /\ Len(processed) \in Nat /\ MaxProcessed \in Nat
    BY AccountedHere, AccumulatorAssumption DEF AccInv
  <1>2. \A p \in Packet : Len(Append(processed, p)) = Len(processed) + 1
    BY <1>1, AppendProperties
  <1>3. ASSUME NEW p \in Packet, Accumulate(p) \/ EmitThenAdd(p) \/ AddRaises(p) PROVE AccBounds'
    <2>1. /\ processed' = Append(processed, p) /\ Len(processed) < MaxProcessed
          /\ ticking' = ticking /\ receiving' \in BOOLEAN
      BY <1>3 DEF Accumulate, EmitThenAdd, AddRaises, AccBounds
    <2> QED
      BY <1>1, <1>2, <2>1 DEF AccBounds
  <1>4. CASE TimerEmits \/ TimerRaises
    BY <1>4 DEF TimerEmits, TimerRaises, AccBounds
  <1>5. CASE UNCHANGED accumulatorVars
    BY <1>5 DEF accumulatorVars, AccBounds
  <1> QED
    BY <1>3, <1>4, <1>5 DEF AccumulatorNext, Packet

\* What waits, what was published and what was lost are numbers of packets that came, however
\* an emit() ends (PacketAccumulator.py 39-60).
THEOREM AccumulatorTypeCorrect == AccumulatorSpec => []AccumulatorTypes
  <1>1. AccumulatorInit => AccBounds
    <2>1. Len(<<>>) = 0 /\ MaxProcessed \in Nat
      BY AccumulatorAssumption
    <2> QED
      BY <2>1 DEF AccumulatorInit, AccBounds
  <1> QED
    BY <1>1, AccumulatorStarts, AccumulatorKeeps, AccumulatorBounded, AccumulatorTyped, PTL
    DEF AccumulatorSpec

-----------------------------------------------------------------------------
(* The table of APIDs.                                                     *)

Occurs(row, t) == \E k \in DOMAIN row : row[k] = t
Once(row, t) == \E k \in DOMAIN row : \A j \in DOMAIN row : row[j] = t <=> j = k

LEMMA AppendTopic ==
    ASSUME NEW S, NEW row \in Seq(S), NEW x \in S, NEW t
    PROVE  /\ Append(row, x) \in Seq(S)
           /\ x # t => /\ Occurs(Append(row, x), t) <=> Occurs(row, t)
                       /\ Once(row, t) => Once(Append(row, x), t)
           /\ x = t /\ ~Occurs(row, t) => Once(Append(row, x), t)
  <1> DEFINE n == Len(row)
             more == Append(row, x)
  <1>1. /\ n \in Nat /\ DOMAIN row = 1 .. n /\ more \in Seq(S) /\ Len(more) = n + 1
        /\ DOMAIN more = 1 .. n + 1
        /\ \A i \in 1 .. n : more[i] = row[i]
        /\ more[n + 1] = x
    BY AppendProperties, LenProperties
  <1> HIDE DEF n, more
  <1>2. DOMAIN more = DOMAIN row \cup {n + 1} /\ n + 1 \notin DOMAIN row
    BY <1>1
  <1>3. x # t => (Occurs(more, t) <=> Occurs(row, t))
    BY <1>1, <1>2 DEF Occurs
  <1>4. ASSUME x # t, Once(row, t) PROVE Once(more, t)
    <2>1. PICK k \in DOMAIN row : \A j \in DOMAIN row : row[j] = t <=> j = k
      BY <1>4 DEF Once
    <2>2. \A j \in DOMAIN more : more[j] = t <=> j = k
      BY <1>1, <1>2, <1>4, <2>1
    <2> QED
      BY <1>2, <2>2 DEF Once
  <1>5. ASSUME x = t, ~Occurs(row, t) PROVE Once(more, t)
    <2>1. \A j \in DOMAIN more : more[j] = t <=> j = n + 1
      BY <1>1, <1>2, <1>5 DEF Occurs
    <2> QED
      BY <1>2, <2>1 DEF Once
  <1> QED
    BY <1>1, <1>3, <1>4, <1>5 DEF more

\* What is left of a row when the first x is removed.
LEMMA FirstRemoved ==
    ASSUME NEW S, NEW row \in Seq(S), NEW x, Occurs(row, x)
    PROVE  \E i \in DOMAIN row :
              LET rest == RemoveFirst(row, x) IN
              /\ row[i] = x
              /\ rest \in Seq(S) /\ Len(rest) = Len(row) - 1
              /\ \A k \in 1 .. Len(rest) : rest[k] = IF k < i THEN row[k] ELSE row[k + 1]
  <1> DEFINE n == Len(row)
             I == {k \in 1 .. n : row[k] = x}
  <1>1. n \in Nat /\ DOMAIN row = 1 .. n
    BY LenProperties
  <1>2. I # {} /\ I \subseteq Nat
    BY <1>1 DEF Occurs
  <1>3. \E m \in I : \A k \in I : m <= k
    <2> HIDE DEF I
    <2> QED
      BY <1>2, Least
  <1> DEFINE i == Min(I)
  <1>4. i \in I
    <2> HIDE DEF I
    <2> QED
      BY <1>3 DEF Min
  <1>5. RemoveFirst(row, x) = RemoveAt(row, i)
    BY <1>1, <1>2 DEF RemoveFirst, SelectInSeq
  <1> HIDE DEF i
  <1>6. i \in 1 .. n /\ row[i] = x
    BY <1>4
  <1> DEFINE rest == SubSeq(row, 1, i - 1) \o SubSeq(row, i + 1, n)
  <1>7. RemoveFirst(row, x) = rest
    BY <1>5 DEF RemoveAt
  <1>8. /\ SubSeq(row, 1, i - 1) \in Seq(S) /\ Len(SubSeq(row, 1, i - 1)) = i - 1
        /\ \A k \in 1 .. i - 1 : SubSeq(row, 1, i - 1)[k] = row[k]
    <2>1. 1 \in Int /\ i - 1 \in Int /\ i - 1 <= n /\ 1 - 1 + (i - 1) = i - 1
      BY <1>1, <1>6
    <2>2. \A k \in 1 .. i - 1 : row[k] \in S
      BY <1>1, <1>6, ElementOfSeq
    <2> QED
      BY <1>1, <1>6, <2>1, <2>2, SubSeqProperties
  <1>9. /\ SubSeq(row, i + 1, n) \in Seq(S) /\ Len(SubSeq(row, i + 1, n)) = n - i
        /\ \A k \in 1 .. n - i : SubSeq(row, i + 1, n)[k] = row[i + k]
    <2>1. \A k \in i + 1 .. n : row[k] \in S
      BY <1>1, <1>6, ElementOfSeq
    <2> HIDE DEF n
    <2>2. i \in Int /\ n \in Int /\ i + 1 \in Int /\ n - (i + 1) + 1 = n - i
      BY <1>1, <1>6
    <2>3. /\ SubSeq(row, i + 1, n) \in Seq(S)
          /\ Len(SubSeq(row, i + 1, n)) = IF i + 1 <= n THEN n - i ELSE 0
          /\ \A k \in 1 .. n - i : SubSeq(row, i + 1, n)[k] = row[(i + 1) + k - 1]
      BY <2>1, <2>2, SubSeqProperties
    <2>4. \A k \in 1 .. n - i : (i + 1) + k - 1 = i + k
      BY <2>2
    <2> QED
      BY <1>1, <1>6, <2>3, <2>4
  <1>10. /\ rest \in Seq(S) /\ Len(rest) = n - 1
         /\ \A k \in 1 .. n - 1 : rest[k] = IF k < i THEN row[k] ELSE row[k + 1]
    <2>1. PICK p : p = SubSeq(row, 1, i - 1)
      OBVIOUS
    <2>2. PICK r : r = SubSeq(row, i + 1, n)
      OBVIOUS
    <2>3. /\ p \in Seq(S) /\ Len(p) = i - 1 /\ r \in Seq(S) /\ Len(r) = n - i
          /\ \A k \in 1 .. i - 1 : p[k] = row[k]
          /\ \A k \in 1 .. n - i : r[k] = row[i + k]
      BY <1>8, <1>9, <2>1, <2>2
    <2>4. /\ p \o r \in Seq(S) /\ Len(p \o r) = Len(p) + Len(r)
          /\ \A k \in 1 .. Len(p) + Len(r) : (p \o r)[k] = IF k <= Len(p) THEN p[k] ELSE r[k - Len(p)]
      BY <2>3, ConcatProperties
    <2>5. rest = p \o r
      BY <2>1, <2>2
    <2> HIDE DEF rest
    <2>6. Len(p) + Len(r) = n - 1
      BY <1>1, <1>6, <2>3
    <2>7. ASSUME NEW k \in 1 .. n - 1 PROVE rest[k] = IF k < i THEN row[k] ELSE row[k + 1]
      <3>1. CASE k < i
        <4>1. k \in 1 .. i - 1 /\ k <= Len(p) /\ k \in 1 .. Len(p) + Len(r)
          BY <1>1, <1>6, <2>3, <2>6, <3>1
        <4> QED
          BY <2>3, <2>4, <2>5, <3>1, <4>1
      <3>2. CASE ~(k < i)
        <4>1. /\ k - (i - 1) \in 1 .. n - i /\ ~(k <= Len(p)) /\ k \in 1 .. Len(p) + Len(r)
              /\ i + (k - (i - 1)) = k + 1
          BY <1>1, <1>6, <2>3, <2>6, <3>2
        <4>2. rest[k] = r[k - (i - 1)]
          BY <2>3, <2>4, <2>5, <4>1
        <4> QED
          BY <2>3, <3>2, <4>1, <4>2
      <3> QED
        BY <3>1, <3>2
    <2> QED
      BY <2>4, <2>5, <2>6, <2>7
  <1> HIDE DEF rest
  <1> QED
    BY <1>1, <1>6, <1>7, <1>10

LEMMA RemoveTopicOnce ==
    ASSUME NEW S, NEW row \in Seq(S), NEW x, NEW t
    PROVE  /\ RemoveFirst(row, x) \in Seq(S)
           /\ x # t => /\ Occurs(row, t) <=> Occurs(RemoveFirst(row, x), t)
                       /\ Once(row, t) => Once(RemoveFirst(row, x), t)
           /\ x = t /\ (Once(row, t) \/ ~Occurs(row, t)) => ~Occurs(RemoveFirst(row, x), t)
  <1> DEFINE rest == RemoveFirst(row, x)
             n == Len(row)
  <1>1. n \in Nat /\ DOMAIN row = 1 .. n
    BY LenProperties
  <1>2. CASE ~Occurs(row, x)
    <2>1. rest = row
      BY <1>1, <1>2 DEF RemoveFirst, Occurs
    <2>2. Once(row, x) => Occurs(row, x)
      BY DEF Once, Occurs
    <2> HIDE DEF rest
    <2> QED
      BY <1>2, <2>1, <2>2 DEF rest
  <1>3. CASE Occurs(row, x)
    <2>1. PICK i \in DOMAIN row :
              /\ row[i] = x
              /\ rest \in Seq(S) /\ Len(rest) = n - 1
              /\ \A k \in 1 .. Len(rest) : rest[k] = IF k < i THEN row[k] ELSE row[k + 1]
      BY <1>3, FirstRemoved
    <2> HIDE DEF rest, n
    <2>2. i \in 1 .. n /\ DOMAIN rest = 1 .. n - 1
      BY <1>1, <2>1, LenProperties
    <2>3. \A k \in 1 .. n - 1 : /\ k < i => k \in 1 .. n /\ rest[k] = row[k]
                                /\ ~(k < i) => k + 1 \in 1 .. n /\ rest[k] = row[k + 1]
      BY <1>1, <2>1
    <2>4. ASSUME NEW k \in 1 .. n, k # i
          PROVE  \E h \in 1 .. n - 1 : /\ rest[h] = row[k]
                                       /\ h = IF k < i THEN k ELSE k - 1
      <3>1. CASE k < i
        <4>1. k \in 1 .. n - 1
          BY <1>1, <2>2, <3>1
        <4> QED
          BY <2>3, <3>1, <4>1
      <3>2. CASE ~(k < i)
        <4>1. k - 1 \in 1 .. n - 1 /\ ~(k - 1 < i) /\ (k - 1) + 1 = k
          BY <1>1, <2>2, <2>4, <3>2
        <4> QED
          BY <2>3, <3>2, <4>1
      <3> QED
        BY <3>1, <3>2
    <2>5. ASSUME x # t PROVE Occurs(row, t) <=> Occurs(rest, t)
      <3>1. ASSUME Occurs(row, t) PROVE Occurs(rest, t)
        <4>1. PICK k \in 1 .. n : row[k] = t
          BY <1>1, <3>1 DEF Occurs
        <4>2. k # i
          BY <2>1, <2>5, <4>1
        <4> QED
          BY <2>2, <2>4, <4>1, <4>2 DEF Occurs
      <3>2. ASSUME Occurs(rest, t) PROVE Occurs(row, t)
        <4>1. PICK k \in 1 .. n - 1 : rest[k] = t
          BY <2>2, <3>2 DEF Occurs
        <4> QED
          BY <1>1, <2>3, <4>1 DEF Occurs
      <3> QED
        BY <3>1, <3>2
    <2>6. ASSUME x # t, Once(row, t) PROVE Once(rest, t)
      <3>0. PICK k \in DOMAIN row : \A j \in DOMAIN row : row[j] = t <=> j = k
        BY <2>6 DEF Once
      <3>1. k \in 1 .. n /\ \A j \in 1 .. n : row[j] = t <=> j = k
        BY <1>1, <3>0
      <3>2. k # i
        BY <2>1, <2>2, <2>6, <3>1
      <3>3. PICK h \in 1 .. n - 1 : rest[h] = row[k] /\ h = IF k < i THEN k ELSE k - 1
        <4>1. k \in 1 .. n /\ k # i
          BY <3>1, <3>2
        <4> QED
          BY <2>4, <4>1
      <3>4. ASSUME NEW j \in 1 .. n - 1 PROVE rest[j] = t <=> j = h
        <4>1. CASE j < i
          <5>1. rest[j] = t <=> j = k
            BY <2>3, <3>1, <4>1
          <5>2. j = k <=> j = h
            BY <1>1, <2>2, <3>2, <3>3, <4>1
          <5> QED
            BY <5>1, <5>2
        <4>2. CASE ~(j < i)
          <5>1. rest[j] = t <=> j + 1 = k
            BY <2>3, <3>1, <4>2
          <5>2. j + 1 = k <=> j = h
            BY <1>1, <2>2, <3>2, <3>3, <4>2
          <5> QED
            BY <5>1, <5>2
        <4> QED
          BY <4>1, <4>2
      <3> QED
        BY <2>2, <3>4 DEF Once
    <2>7. ASSUME x = t, Once(row, t) PROVE ~Occurs(rest, t)
      <3> SUFFICES ASSUME NEW j \in 1 .. n - 1, rest[j] = t PROVE FALSE
        BY <2>2 DEF Occurs
      <3>0. PICK k \in DOMAIN row : \A m \in DOMAIN row : row[m] = t <=> m = k
        BY <2>7 DEF Once
      <3>1. k \in 1 .. n /\ \A m \in 1 .. n : row[m] = t <=> m = k
        BY <1>1, <3>0
      <3>2. k = i
        BY <2>1, <2>2, <2>7, <3>1
      <3>3. j < i => FALSE
        BY <2>3, <3>1, <3>2
      <3>4. ~(j < i) => j + 1 = i
        BY <2>3, <3>1, <3>2
      <3> QED
        BY <1>1, <2>2, <3>3, <3>4
    <2> QED
      BY <1>3, <2>1, <2>5, <2>6, <2>7 DEF rest
  <1> QED
    BY <1>2, <1>3

-----------------------------------------------------------------------------
\* An APID is published as the entries so far say, if a topic lists it at most once.
RowInv(a, t) ==
    (\A i, j \in Listings(a, t) : i = j) =>
       IF \E i \in Listings(a, t) : \A j \in i + 1 .. Len(listed) : ~Excludes(listed[j], a, t)
       THEN Once(routing_table[a], t) ELSE ~Occurs(routing_table[a], t)

RouterInv == RouterTypes /\ \A a \in Apids, t \in Topics : RowInv(a, t)

\* What one more entry that was read does to the rows.
LEMMA EntryRead ==
    ASSUME RouterInv, NEW e \in TableEntries, NEW a \in Apids, NEW t \in Topics,
           listed' = Append(listed, e), AddTopic(e) \/ RemoveTopic(e)
    PROVE  RowInv(a, t)'
  <1> DEFINE n == Len(listed)
  <1>1. /\ n \in Nat /\ DOMAIN listed = 1 .. n /\ Len(listed') = n + 1 /\ DOMAIN listed' = 1 .. n + 1
        /\ \A i \in 1 .. n : listed'[i] = listed[i]
        /\ listed'[n + 1] = e
    BY AppendProperties, LenProperties DEF RouterInv, RouterTypes
  <1>2. /\ a \in Nat
        /\ routing_table[a] \in Seq(Topics)
        /\ e.topic \in Topics
        /\ e.apids \in Seq(Nat)
        /\ e.operator = "apid" => Len(e.apids) = 1
        /\ e.operator = "range" => Len(e.apids) = 2
    BY ApidRouterAssumption DEF RouterInv, RouterTypes, Topics
  <1>3. PICK r \in Seq(Topics) : r = routing_table[a]
    BY <1>2
  <1>4. PICK s : s = routing_table'[a]
    OBVIOUS
  <1>5. DOMAIN e.apids = 1 .. Len(e.apids)
    BY <1>2, LenProperties
  <1>6. Lists(e, a, t) <=> e.topic = t /\ e.operator \in {"apid", "range"} /\ a \in Selected(e)
    <2>1. CASE e.operator = "apid"
      <3>1. DOMAIN e.apids = {1}
        <4>1. DOMAIN e.apids = 1 .. 1
          BY <1>2, <1>5, <2>1
        <4>2. 1 .. 1 = {1}
          OBVIOUS
        <4> QED
          BY <4>1, <4>2
      <3>2. Selected(e) = {e.apids[1]}
        BY <2>1, <3>1 DEF Selected
      <3> QED
        BY <2>1, <3>2 DEF Lists
    <2>2. CASE e.operator = "range"
      <3>1. e.apids[1] \in Nat /\ e.apids[2] \in Nat
        BY <1>2, <2>2, ElementOfSeq
      <3>2. Selected(e) = e.apids[1] .. e.apids[2]
        BY <2>2 DEF Selected
      <3> QED
        BY <1>2, <2>2, <3>1, <3>2 DEF Lists
    <2>3. CASE e.operator \notin {"apid", "range"}
      BY <2>3 DEF Lists
    <2> QED
      BY <2>1, <2>2, <2>3
  <1>7. e.operator = "exclude" => (Excludes(e, a, t) <=> e.topic = t /\ a \in Selected(e))
    BY DEF Excludes, Selected, Range
  <1>8. s = IF a \notin Selected(e) THEN r
            ELSE IF e.operator = "exclude" THEN RemoveFirst(r, e.topic) ELSE Append(r, e.topic)
    BY <1>3, <1>4 DEF AddTopic, RemoveTopic
  <1>9. e.operator \in {"apid", "range", "exclude"}
    BY ApidRouterAssumption
  <1>10. \A i \in Listings(a, t) : i \in 0 .. n
    BY <1>1 DEF Listings
  <1>11. Listings(a, t)' = Listings(a, t) \cup (IF Lists(e, a, t) THEN {n + 1} ELSE {})
    BY <1>1 DEF Listings
  <1> DEFINE L == Listings(a, t)
             Barred(q, i) == \E j \in i + 1 .. Len(q) : Excludes(q[j], a, t)
  <1>12. RowInv(a, t)
    BY DEF RouterInv
  <1>13. (\A i, j \in L : i = j) =>
            IF \E i \in L : ~Barred(listed, i) THEN Once(r, t) ELSE ~Occurs(r, t)
    BY <1>3, <1>12 DEF RowInv
  <1>14. SUFFICES ASSUME \A i, j \in L' : i = j
                  PROVE  IF \E i \in L' : ~Barred(listed', i) THEN Once(s, t) ELSE ~Occurs(s, t)
    BY <1>4 DEF RowInv
  <1>15. \A i \in L : i \in 0 .. n
    BY <1>10
  <1>16. L' = L \cup (IF Lists(e, a, t) THEN {n + 1} ELSE {})
    BY <1>11
  <1> HIDE DEF n, L
  <1>17. CASE Lists(e, a, t)
    <2>1. \A i \in L : FALSE
      BY <1>1, <1>14, <1>15, <1>16, <1>17
    <2>2. ~Occurs(r, t)
      BY <1>13, <2>1
    <2>3. s = Append(r, t) /\ t \in Topics
      BY <1>6, <1>8, <1>17
    <2>4. Once(s, t)
      BY <2>2, <2>3, AppendTopic
    <2>5. n + 1 \in L' /\ ~Barred(listed', n + 1)
      <3>1. (n + 1) + 1 .. n + 1 = {}
        BY <1>1
      <3> QED
        BY <1>1, <1>16, <1>17, <3>1
    <2> QED
      BY <2>4, <2>5
  <1>18. CASE ~Lists(e, a, t) /\ Excludes(e, a, t)
    <2>1. L' = L
      BY <1>16, <1>18
    <2>2. Once(r, t) \/ ~Occurs(r, t)
      BY <1>13, <1>14, <2>1
    <2>3. s = RemoveFirst(r, t)
      BY <1>7, <1>8, <1>18 DEF Excludes
    <2>4. ~Occurs(s, t)
      BY <2>2, <2>3, RemoveTopicOnce
    <2>5. ASSUME NEW i \in L PROVE Barred(listed', i)
      <3>1. n + 1 \in i + 1 .. Len(listed')
        BY <1>1, <1>15
      <3> QED
        BY <1>1, <1>18, <3>1
    <2> QED
      BY <2>1, <2>4, <2>5
  <1>19. CASE ~Lists(e, a, t) /\ ~Excludes(e, a, t)
    <2>1. L' = L
      BY <1>16, <1>19
    <2>2. s = r \/ (e.topic # t /\ (s = Append(r, e.topic) \/ s = RemoveFirst(r, e.topic)))
      BY <1>6, <1>7, <1>8, <1>9, <1>19
    <2>3. (Once(r, t) => Once(s, t)) /\ (~Occurs(r, t) => ~Occurs(s, t))
      <3>1. CASE s = r
        BY <3>1
      <3>2. CASE e.topic # t /\ s = Append(r, e.topic)
        BY <1>2, <3>2, AppendTopic
      <3>3. CASE e.topic # t /\ s = RemoveFirst(r, e.topic)
        BY <3>3, RemoveTopicOnce
      <3> QED
        BY <2>2, <3>1, <3>2, <3>3
    <2>4. ASSUME NEW i \in L PROVE Barred(listed', i) <=> Barred(listed, i)
      <3>1. i \in 0 .. n
        BY <1>15
      <3>2. ASSUME NEW j \in i + 1 .. n + 1, Excludes(listed'[j], a, t)
            PROVE  j \in i + 1 .. n /\ Excludes(listed[j], a, t)
        <4>1. j # n + 1
          BY <1>1, <1>19, <3>2
        <4>2. j \in i + 1 .. n /\ j \in 1 .. n
          BY <1>1, <3>1, <4>1
        <4> QED
          BY <1>1, <3>2, <4>2
      <3>3. ASSUME NEW j \in i + 1 .. n, Excludes(listed[j], a, t)
            PROVE  j \in i + 1 .. n + 1 /\ Excludes(listed'[j], a, t)
        <4>1. j \in i + 1 .. n + 1 /\ j \in 1 .. n
          BY <1>1, <3>1
        <4> QED
          BY <1>1, <3>3, <4>1
      <3>4. Len(listed) = n
        BY DEF n
      <3> QED
        BY <1>1, <3>2, <3>3, <3>4
    <2>5. (\E i \in L : ~Barred(listed', i)) <=> (\E i \in L : ~Barred(listed, i))
      BY <2>4
    <2> HIDE DEF Barred
    <2> QED
      BY <1>13, <1>14, <2>1, <2>3, <2>5
  <1> QED
    BY <1>17, <1>18, <1>19

LEMMA EntryType ==
    ASSUME RouterTypes, NEW e \in TableEntries, ReadEntry(e)
    PROVE  RouterTypes'
  <1>1. listed' \in Seq(TableEntries)
    BY AppendProperties DEF RouterTypes, ReadEntry
  <1>2. e.topic \in Topics
    BY DEF Topics
  <1>3. \A a \in Apids : /\ routing_table[a] \in Seq(Topics)
                         /\ Append(routing_table[a], e.topic) \in Seq(Topics)
                         /\ RemoveFirst(routing_table[a], e.topic) \in Seq(Topics)
    BY <1>2, AppendTopic, RemoveTopicOnce DEF RouterTypes
  <1>4. routing_table' \in [Apids -> Seq(Topics)]
    BY <1>3 DEF ReadEntry, AddTopic, RemoveTopic
  <1> QED
    BY <1>1, <1>4 DEF RouterTypes, ReadEntry

\* Whatever a routing table lists, in whatever order numbers, ranges and exclusions come,
\* every APID is published as its entries say (apid_routing.py 114-234).
THEOREM RoutesRight == RouterSpec => []RoutesAsListed
  <1>1. RouterInit => RouterInv
    <2> SUFFICES ASSUME RouterInit PROVE RouterInv
      OBVIOUS
    <2>1. <<DefaultTopic>> \in Seq(Topics) /\ <<>> \in Seq(TableEntries)
      BY DEF Topics
    <2>2. RouterTypes
      BY <2>1 DEF RouterInit, RouterTypes
    <2>3. ASSUME NEW a \in Apids, NEW t \in Topics PROVE RowInv(a, t)
      <3>1. routing_table[a] = <<DefaultTopic>> /\ listed = <<>>
        BY DEF RouterInit
      <3>2. Listings(a, t) = IF t = DefaultTopic THEN {0} ELSE {}
        BY <3>1 DEF Listings
      <3>3. t # DefaultTopic => ~Occurs(routing_table[a], t)
        BY <3>1 DEF Occurs
      <3>4. t = DefaultTopic => Once(routing_table[a], t)
        BY <3>1 DEF Once
      <3>5. t = DefaultTopic =>
              \E i \in Listings(a, t) : \A j \in i + 1 .. Len(listed) : ~Excludes(listed[j], a, t)
        <4>1. Len(listed) = 0 /\ 0 + 1 .. 0 = {}
          BY <3>1
        <4> QED
          BY <3>2, <4>1
      <3> QED
        BY <3>2, <3>3, <3>4, <3>5 DEF RowInv
    <2> QED
      BY <2>2, <2>3 DEF RouterInv
  <1>2. RouterInv /\ [RouterNext]_routerVars => RouterInv'
    <2> SUFFICES ASSUME RouterInv, [RouterNext]_routerVars PROVE RouterInv'
      OBVIOUS
    <2>1. ASSUME NEW e \in TableEntries, ReadEntry(e) PROVE RouterInv'
      <3>1. RouterTypes'
        BY <2>1, EntryType DEF RouterInv
      <3>2. listed' = Append(listed, e) /\ (AddTopic(e) \/ RemoveTopic(e))
        BY <2>1 DEF ReadEntry
      <3>3. \A a \in Apids, t \in Topics : RowInv(a, t)'
        BY <3>2, EntryRead
      <3> QED
        BY <3>1, <3>3 DEF RouterInv
    <2>2. CASE UNCHANGED <<listed, routing_table>> /\ loading' \in {"entries", "loaded", "raised"}
      BY <2>2 DEF RouterInv, RouterTypes, RowInv, Listings
    <2>3. ASSUME NEW e \in TableEntries, UnknownApid(e)
          PROVE UNCHANGED <<listed, routing_table>> /\ loading' \in {"entries", "loaded", "raised"}
      BY <2>3 DEF UnknownApid
    <2>4. TableRead => UNCHANGED <<listed, routing_table>> /\ loading' \in {"entries", "loaded", "raised"}
      BY DEF TableRead
    <2>5. UNCHANGED routerVars => UNCHANGED <<listed, routing_table>>
                                  /\ loading' \in {"entries", "loaded", "raised"}
      BY DEF routerVars, RouterInv, RouterTypes
    <2> QED
      BY <2>1, <2>2, <2>3, <2>4, <2>5 DEF RouterNext
  <1>3. RouterInv => RoutesAsListed
    <2> SUFFICES ASSUME RouterInv, NEW a \in Apids, NEW t \in Topics, \A i, j \in Listings(a, t) : i = j
                 PROVE  LET row == routing_table[a] IN
                        IF \E i \in Listings(a, t) : \A j \in i + 1 .. Len(listed) : ~Excludes(listed[j], a, t)
                        THEN \E k \in DOMAIN row : \A j \in DOMAIN row : row[j] = t <=> j = k
                        ELSE \A j \in DOMAIN row : row[j] # t
      BY DEF RoutesAsListed
    <2>1. RowInv(a, t)
      BY DEF RouterInv
    <2> QED
      BY <2>1 DEF RowInv, Once, Occurs
  <1> QED
    BY <1>1, <1>2, <1>3, PTL DEF RouterSpec

LEMMA RouterTypesStart == RouterInit => RouterTypes
  <1>1. <<DefaultTopic>> \in Seq(Topics) /\ <<>> \in Seq(TableEntries)
    BY DEF Topics
  <1> QED
    BY <1>1 DEF RouterInit, RouterTypes

LEMMA RouterTypesKept == RouterTypes /\ [RouterNext]_routerVars => RouterTypes'
  <1> SUFFICES ASSUME RouterTypes, [RouterNext]_routerVars PROVE RouterTypes'
    OBVIOUS
  <1>1. ASSUME NEW e \in TableEntries, ReadEntry(e) PROVE RouterTypes'
    BY <1>1, EntryType
  <1>2. ASSUME NEW e \in TableEntries, UnknownApid(e) PROVE RouterTypes'
    BY <1>2 DEF RouterTypes, UnknownApid
  <1>3. CASE TableRead
    BY <1>3 DEF RouterTypes, TableRead
  <1>4. CASE UNCHANGED routerVars
    BY <1>4 DEF RouterTypes, routerVars
  <1> QED
    BY <1>1, <1>2, <1>3, <1>4 DEF RouterNext

\* Every APID of the dictionary keeps a row of topics, and of nothing else, whatever a table
\* lists and wherever reading it stops (apid_routing.py 114-234).
THEOREM RouterTypeCorrect == RouterSpec => []RouterTypes
  BY RouterTypesStart, RouterTypesKept, PTL DEF RouterSpec

-----------------------------------------------------------------------------
(* The configuration.                                                      *)

LEMMA MergedIs ==
    ASSUME NEW ls, Len(ls) \in Nat
    PROVE  /\ Merged(ls)[0] = NoLevel
           /\ \A n \in 1 .. Len(ls) : Merged(ls)[n] = merge(Merged(ls)[n - 1], ls[n])
  <1> DEFINE N == Len(ls)
             LevelsTo(g, n) == [i \in 0 .. n |-> IF i = 0 THEN NoLevel ELSE merge(g[i - 1], ls[i])]
             T == {n \in Nat : n <= N => \E g : g = LevelsTo(g, n)}
  <1>1. 0 \in T
    <2>1. [i \in 0 .. 0 |-> NoLevel] = LevelsTo([i \in 0 .. 0 |-> NoLevel], 0)
      OBVIOUS
    <2> QED
      BY <2>1
  <1>2. ASSUME NEW n \in Nat, n \in T PROVE n + 1 \in T
    <2> SUFFICES ASSUME n + 1 <= N PROVE \E g : g = LevelsTo(g, n + 1)
      OBVIOUS
    <2>1. n <= N
      OBVIOUS
    <2>2. PICK g : g = LevelsTo(g, n)
      BY <1>2, <2>1
    <2> DEFINE h == [i \in 0 .. n + 1 |-> IF i = n + 1 THEN merge(g[n], ls[n + 1]) ELSE g[i]]
    <2>3. \A i \in 0 .. n : h[i] = g[i]
      OBVIOUS
    <2>4. ASSUME NEW i \in 0 .. n + 1
          PROVE  h[i] = IF i = 0 THEN NoLevel ELSE merge(h[i - 1], ls[i])
      <3>1. CASE i = n + 1
        <4>1. i # 0 /\ i - 1 = n /\ n \in 0 .. n
          BY <3>1
        <4>2. h[i] = merge(g[n], ls[n + 1]) /\ h[n] = g[n]
          BY <2>3, <3>1, <4>1
        <4> HIDE DEF h
        <4> QED
          BY <3>1, <4>1, <4>2
      <3>2. CASE i # n + 1
        <4>1. i \in 0 .. n /\ (i # 0 => i - 1 \in 0 .. n)
          BY <3>2
        <4>2. h[i] = g[i] /\ (i # 0 => h[i - 1] = g[i - 1])
          BY <2>3, <4>1
        <4> HIDE DEF h
        <4> QED
          BY <2>2, <4>1, <4>2
      <3> QED
        BY <3>1, <3>2
    <2>5. h = [i \in 0 .. n + 1 |-> h[i]]
      OBVIOUS
    <2> HIDE DEF h
    <2>6. h = LevelsTo(h, n + 1)
      BY <2>4, <2>5
    <2> QED
      BY <2>6
  <1> HIDE DEF T
  <1>3. N \in T
    BY <1>1, <1>2, SetInduction
  <1>4. \E g : g = LevelsTo(g, N)
    BY <1>3 DEF T
  <1>5. Merged(ls) = CHOOSE g : g = LevelsTo(g, N)
    BY DEF Merged
  <1>6. Merged(ls) = LevelsTo(Merged(ls), N)
    <2> HIDE DEF LevelsTo
    <2> QED
      BY <1>4, <1>5
  <1>7. PICK g : g = Merged(ls) /\ g = LevelsTo(g, N)
    BY <1>6
  <1>8. g[0] = NoLevel /\ \A n \in 1 .. N : g[n] = merge(g[n - 1], ls[n])
    BY <1>7
  <1> QED
    BY <1>7, <1>8

\* Of the first n levels, the m-th is the last that gives k, or k.j.
LastWith(lv, n, k, m) == /\ m \in 1 .. n /\ k \in DOMAIN lv[m]
                         /\ \A i \in 1 .. n : k \in DOMAIN lv[i] => i <= m
Gives(l, k, j) == k \in DOMAIN l /\ j \in DOMAIN l[k].values
LastWithin(lv, n, k, j, m) == /\ m \in 1 .. n /\ Gives(lv[m], k, j)
                              /\ \A i \in 1 .. n : Gives(lv[i], k, j) => i <= m

\* What the first n levels come to for k.
MergedAs(value, lv, n, k) ==
    /\ \E m \in 1 .. n : /\ LastWith(lv, n, k, m)
                         /\ value.section = lv[m][k].section
                         /\ value.section = FALSE => value = lv[m][k]
    /\ value.section = TRUE =>
          /\ \A i \in 1 .. n : k \in DOMAIN lv[i] => lv[i][k].section = TRUE
          /\ \A j : j \in DOMAIN value.values <=> \E i \in 1 .. n : Gives(lv[i], k, j)
          /\ \A j \in DOMAIN value.values :
                \E i \in 1 .. n : LastWithin(lv, n, k, j, i) /\ value.values[j] = lv[i][k].values[j]

MergesTo(c, lv, n) ==
    /\ \A k : k \in DOMAIN c <=> \E m \in 1 .. n : k \in DOMAIN lv[m]
    /\ \A k \in DOMAIN c : MergedAs(c[k], lv, n, k)

IsMerge(r, d, o) ==
    /\ DOMAIN r = DOMAIN d \cup DOMAIN o
    /\ \A k \in DOMAIN d \ DOMAIN o : r[k] = d[k]
    /\ \A k \in DOMAIN o : k \notin DOMAIN d \/ o[k].section = FALSE => r[k] = o[k]
    /\ \A k \in DOMAIN d \cap DOMAIN o :
          o[k].section = TRUE => r[k] = Section(Over(d[k].values, o[k].values))

LEMMA MergeOf ==
    ASSUME NEW d, NEW o
    PROVE  IsMerge(merge(d, o), d, o)
  <1> DEFINE new == [k \in DOMAIN o |-> IF k \in DOMAIN d /\ o[k].section
                                        THEN Section(Over(d[k].values, o[k].values)) ELSE o[k]]
  <1>1. DOMAIN new = DOMAIN o
    OBVIOUS
  <1>2. \A k \in DOMAIN o : /\ k \notin DOMAIN d \/ o[k].section = FALSE => new[k] = o[k]
                            /\ k \in DOMAIN d /\ o[k].section = TRUE =>
                                  new[k] = Section(Over(d[k].values, o[k].values))
    OBVIOUS
  <1>3. merge(d, o) = Over(d, new)
    BY DEF merge
  <1> HIDE DEF new
  <1>4. /\ DOMAIN Over(d, new) = DOMAIN d \cup DOMAIN o
        /\ \A k \in DOMAIN o : Over(d, new)[k] = new[k]
        /\ \A k \in DOMAIN d \ DOMAIN o : Over(d, new)[k] = d[k]
    BY <1>1 DEF Over
  <1> QED
    BY <1>2, <1>3, <1>4 DEF IsMerge

LEMMA MergeOne ==
    ASSUME NEW n \in Nat, NEW c, NEW lv, MergesTo(c, lv, n),
           \A i \in 1 .. n + 1 : IsLevel(lv[i]),
           ~MergeRaises(c, lv[n + 1])
    PROVE  MergesTo(merge(c, lv[n + 1]), lv, n + 1)
  <1>1. PICK o : o = lv[n + 1]
    OBVIOUS
  <1>2. PICK d : d = merge(c, o)
    OBVIOUS
  <1>3. /\ n + 1 \in 1 .. n + 1
        /\ \A i \in 1 .. n + 1 : i = n + 1 \/ i \in 1 .. n
        /\ \A i \in 1 .. n : i \in 1 .. n + 1 /\ i <= n + 1 /\ i # n + 1
    OBVIOUS
  <1>4. /\ DOMAIN d = DOMAIN c \cup DOMAIN o
        /\ \A k \in DOMAIN c \ DOMAIN o : d[k] = c[k]
        /\ \A k \in DOMAIN o : k \notin DOMAIN c \/ o[k].section = FALSE => d[k] = o[k]
        /\ \A k \in DOMAIN c \cap DOMAIN o :
              o[k].section = TRUE => d[k] = Section(Over(c[k].values, o[k].values))
    <2>1. IsMerge(d, c, o)
      BY <1>2, MergeOf
    <2> QED
      BY <2>1 DEF IsMerge
  <1>5. \A k : k \in DOMAIN d <=> \E m \in 1 .. n + 1 : k \in DOMAIN lv[m]
    BY <1>1, <1>3, <1>4 DEF MergesTo
  <1>6. \A k \in DOMAIN o : o[k].section = TRUE \/ o[k].section = FALSE
    BY <1>1, <1>3 DEF IsLevel, Plain
  <1>7. ASSUME NEW k \in DOMAIN d, k \notin DOMAIN o PROVE MergedAs(d[k], lv, n + 1, k)
    <2>1. k \in DOMAIN c /\ d[k] = c[k] /\ MergedAs(c[k], lv, n, k)
      BY <1>4, <1>7 DEF MergesTo
    <2>2. \A m \in 1 .. n : LastWith(lv, n, k, m) => LastWith(lv, n + 1, k, m)
      BY <1>1, <1>3, <1>7 DEF LastWith
    <2>3. \A j : \A m \in 1 .. n : LastWithin(lv, n, k, j, m) => LastWithin(lv, n + 1, k, j, m)
      BY <1>1, <1>3, <1>7 DEF LastWithin, Gives
    <2>4. \A j : ~Gives(lv[n + 1], k, j)
      BY <1>1, <1>7 DEF Gives
    <2> QED
      BY <1>1, <1>3, <1>7, <2>1, <2>2, <2>3, <2>4 DEF MergedAs
  <1>8. ASSUME NEW k \in DOMAIN o, k \notin DOMAIN c \/ o[k].section = FALSE
        PROVE  MergedAs(d[k], lv, n + 1, k)
    <2>1. d[k] = o[k] /\ d[k] = lv[n + 1][k]
      BY <1>1, <1>4, <1>8
    <2>2. LastWith(lv, n + 1, k, n + 1)
      BY <1>1, <1>3 DEF LastWith
    <2>3. CASE o[k].section = FALSE
      BY <1>3, <2>1, <2>2, <2>3 DEF MergedAs
    <2>4. CASE o[k].section = TRUE
      <3>1. k \notin DOMAIN c
        BY <1>8, <2>4
      <3>2. \A i \in 1 .. n : k \notin DOMAIN lv[i]
        BY <3>1 DEF MergesTo
      <3>3. \A i \in 1 .. n + 1 : k \in DOMAIN lv[i] => i = n + 1
        BY <1>3, <3>2
      <3>4. \A j \in DOMAIN o[k].values : Gives(lv[n + 1], k, j) /\ LastWithin(lv, n + 1, k, j, n + 1)
        BY <1>1, <1>3, <3>3 DEF LastWithin, Gives
      <3>5. \A j : j \in DOMAIN o[k].values <=> \E i \in 1 .. n + 1 : Gives(lv[i], k, j)
        BY <1>1, <1>3, <3>3 DEF Gives
      <3> QED
        BY <1>1, <1>3, <2>1, <2>2, <2>4, <3>3, <3>4, <3>5 DEF MergedAs
    <2> QED
      BY <1>6, <2>3, <2>4
  <1>9. ASSUME NEW k \in DOMAIN o, k \in DOMAIN c, o[k].section = TRUE
        PROVE  MergedAs(d[k], lv, n + 1, k)
    <2>1. c[k].section = TRUE
      <3>1. c[k].section
        BY <1>1, <1>9 DEF MergeRaises
      <3>2. \E m \in 1 .. n : k \in DOMAIN lv[m] /\ c[k].section = lv[m][k].section
        BY <1>9 DEF MergesTo, MergedAs, LastWith
      <3>3. c[k].section = TRUE \/ c[k].section = FALSE
        BY <1>3, <3>2 DEF IsLevel, Plain
      <3> QED
        BY <3>1, <3>3
    <2>2. MergedAs(c[k], lv, n, k)
      BY <1>9 DEF MergesTo
    <2> DEFINE old == c[k].values
               new == o[k].values
    <2>3. d[k] = Section(Over(old, new))
      BY <1>4, <1>9
    <2>4. d[k].section = TRUE /\ d[k].values = Over(old, new)
      BY <2>3 DEF Section
    <2>5. /\ DOMAIN d[k].values = DOMAIN old \cup DOMAIN new
          /\ \A j \in DOMAIN new : d[k].values[j] = new[j]
          /\ \A j \in DOMAIN old \ DOMAIN new : d[k].values[j] = old[j]
      BY <2>4 DEF Over
    <2>6. LastWith(lv, n + 1, k, n + 1)
      BY <1>1, <1>3, <1>9 DEF LastWith
    <2>7. \A i \in 1 .. n + 1 : k \in DOMAIN lv[i] => lv[i][k].section = TRUE
      BY <1>1, <1>3, <1>9, <2>1, <2>2 DEF MergedAs
    <2>8. \A j : j \in DOMAIN old <=> \E i \in 1 .. n : Gives(lv[i], k, j)
      BY <2>1, <2>2 DEF MergedAs
    <2>9. \A j : j \in DOMAIN new <=> Gives(lv[n + 1], k, j)
      BY <1>1, <1>9 DEF Gives
    <2> HIDE DEF old, new
    <2>10. \A j : j \in DOMAIN d[k].values <=> \E i \in 1 .. n + 1 : Gives(lv[i], k, j)
      BY <1>3, <2>5, <2>8, <2>9
    <2>11. ASSUME NEW j \in DOMAIN d[k].values
           PROVE  \E i \in 1 .. n + 1 : LastWithin(lv, n + 1, k, j, i) /\ d[k].values[j] = lv[i][k].values[j]
      <3>1. CASE j \in DOMAIN new
        <4>1. LastWithin(lv, n + 1, k, j, n + 1)
          BY <1>3, <2>9, <3>1 DEF LastWithin
        <4>2. d[k].values[j] = lv[n + 1][k].values[j]
          BY <1>1, <2>5, <3>1 DEF new
        <4> QED
          BY <1>3, <4>1, <4>2
      <3>2. CASE j \notin DOMAIN new
        <4>1. j \in DOMAIN old /\ d[k].values[j] = old[j]
          BY <2>5, <3>2
        <4>2. PICK i \in 1 .. n : LastWithin(lv, n, k, j, i) /\ old[j] = lv[i][k].values[j]
          BY <2>1, <2>2, <4>1 DEF MergedAs, old
        <4>3. LastWithin(lv, n + 1, k, j, i)
          BY <1>3, <2>9, <3>2, <4>2 DEF LastWithin
        <4> QED
          BY <1>3, <4>1, <4>2, <4>3
      <3> QED
        BY <3>1, <3>2
    <2> QED
      BY <1>1, <1>3, <2>4, <2>6, <2>7, <2>10, <2>11 DEF MergedAs
  <1>10. \A k \in DOMAIN d : MergedAs(d[k], lv, n + 1, k)
    BY <1>4, <1>6, <1>7, <1>8, <1>9
  <1> QED
    BY <1>1, <1>2, <1>5, <1>10 DEF MergesTo

LEMMA MergedRight ==
    ASSUME NEW ls, NEW lv, Len(ls) \in Nat, DOMAIN ls = 1 .. Len(ls),
           \A i \in 1 .. Len(ls) : ls[i] = lv[i] /\ IsLevel(lv[i]),
           ~FlattenRaises(ls)
    PROVE  MergesTo(flatten(ls), lv, Len(ls))
  <1> DEFINE N == Len(ls)
             T == {n \in Nat : n <= N => MergesTo(Merged(ls)[n], lv, n)}
  <1>1. Merged(ls)[0] = NoLevel /\ \A n \in 1 .. N : Merged(ls)[n] = merge(Merged(ls)[n - 1], ls[n])
    BY MergedIs
  <1>2. 0 \in T
    <2>1. MergesTo(NoLevel, lv, 0)
      BY DEF MergesTo, NoLevel
    <2> QED
      BY <1>1, <2>1
  <1>3. ASSUME NEW n \in Nat, n \in T PROVE n + 1 \in T
    <2> SUFFICES ASSUME n + 1 <= N PROVE MergesTo(Merged(ls)[n + 1], lv, n + 1)
      OBVIOUS
    <2>1. n <= N /\ n + 1 \in 1 .. N /\ (n + 1) - 1 = n /\ 1 .. n + 1 \subseteq 1 .. N
      OBVIOUS
    <2>2. PICK c : c = Merged(ls)[n]
      OBVIOUS
    <2>3. MergesTo(c, lv, n)
      BY <1>3, <2>1, <2>2
    <2>4. Merged(ls)[n + 1] = merge(c, lv[n + 1])
      BY <1>1, <2>1, <2>2
    <2>5. ~MergeRaises(c, lv[n + 1])
      BY <2>1, <2>2 DEF FlattenRaises
    <2>6. \A i \in 1 .. n + 1 : IsLevel(lv[i])
      BY <2>1
    <2> QED
      BY <2>3, <2>4, <2>5, <2>6, MergeOne
  <1> HIDE DEF T
  <1>4. N \in T
    BY <1>2, <1>3, SetInduction
  <1> QED
    BY <1>4 DEF T, flatten

\* What a successful reload leaves behind.
ReloadedAs(c) ==
    /\ Len(levels) \in Nat /\ DOMAIN levels = 1 .. Len(levels)
    /\ \A n \in DOMAIN levels : IsLevel(levels[n])
    /\ MergesTo(c, levels, Len(levels))
    /\ \A k \in DOMAIN c : ~ExpandRaises(c, k)
    /\ config = [k \in DOMAIN c |-> Expanded(c, k)]

ConfigInv == /\ \A k \in DOMAIN pathvars : Plain(pathvars[k])
             /\ ended = "right" => \E c : ReloadedAs(c)

LEMMA LastIsOne ==
    ASSUME NEW ns, NEW m \in ns, ns \subseteq Nat, \A n \in ns : n <= m
    PROVE  LastOf(ns) = m
  <1>1. \A n \in ns : (\A i \in ns : i <= n) => n = m
    BY SMT
  <1> QED
    BY <1>1 DEF LastOf

LEMMA ReplacedAs ==
    ASSUME NEW c, ReloadedAs(c), NEW name, NEW value, Plain(value), ~ReplaceRaises(name, value, c),
           \A k \in DOMAIN c : c[k].section = TRUE \/ c[k].section = FALSE
    PROVE  /\ IsAs(name, replace_variables(name, value, c), value)
           /\ replace_variables(name, value, c).section = FALSE
  <1>1. DOMAIN config = DOMAIN c /\ \A k \in DOMAIN c : config[k] = Expanded(c, k)
    BY DEF ReloadedAs
  <1>2. CASE Refers(name, value) /\ value.variable \in DOMAIN c
    <2>1. PICK k : k = value.variable /\ k \in DOMAIN c /\ k \notin PathKeys
      BY <1>2 DEF Plain
    <2>2. c[k].section = FALSE
      BY <1>2, <2>1 DEF ReplaceRaises
    <2>3. ~Refers(k, c[k])
      BY <2>1 DEF Refers
    <2>4. replace_variables(k, c[k], c) = c[k]
      BY <2>3 DEF replace_variables
    <2>5. config[k] = c[k]
      BY <1>1, <2>1, <2>2, <2>4 DEF Expanded
    <2>6. replace_variables(name, value, c) = Value(Joined(value.strings, c[k].strings))
      BY <1>2, <2>1 DEF replace_variables
    <2>7. \A s : Value(s).section = FALSE /\ Value(s).variable = NoVariable /\ Value(s).strings = s
      BY DEF Value, PathValue
    <2> QED
      BY <1>1, <1>2, <2>1, <2>5, <2>6, <2>7 DEF IsAs
  <1>3. CASE ~(Refers(name, value) /\ value.variable \in DOMAIN c)
    <2>1. replace_variables(name, value, c) = value
      BY <1>3 DEF replace_variables
    <2> QED
      BY <1>1, <1>3, <2>1 DEF IsAs, Plain
  <1> QED
    BY <1>2, <1>3

LEMMA ReloadedRight ==
    ASSUME NEW c, ReloadedAs(c)
    PROVE  MostSpecificWins
  <1> DEFINE N == Len(levels)
  <1>1. /\ N \in Nat /\ DOMAIN levels = 1 .. N
        /\ \A n \in 1 .. N : IsLevel(levels[n])
        /\ MergesTo(c, levels, N)
        /\ DOMAIN config = DOMAIN c
        /\ \A k \in DOMAIN c : config[k] = Expanded(c, k) /\ ~ExpandRaises(c, k)
    BY DEF ReloadedAs
  <1> HIDE DEF N
  <1>2. \A k \in DOMAIN c : MergedAs(c[k], levels, N, k)
    BY <1>1 DEF MergesTo
  <1>3. ASSUME NEW k \in DOMAIN c
        PROVE  /\ c[k].section = TRUE \/ c[k].section = FALSE
               /\ c[k].section = FALSE => Plain(c[k])
               /\ c[k].section = TRUE => \A j \in DOMAIN c[k].values : Plain(c[k].values[j])
    <2>1. PICK m \in 1 .. N : /\ k \in DOMAIN levels[m]
                              /\ c[k].section = levels[m][k].section
                              /\ c[k].section = FALSE => c[k] = levels[m][k]
      BY <1>2 DEF MergedAs, LastWith
    <2>2. Plain(levels[m][k]) \/ levels[m][k].section = TRUE
      BY <1>1, <2>1 DEF IsLevel
    <2>3. c[k].section = TRUE \/ c[k].section = FALSE
      BY <2>1, <2>2 DEF Plain
    <2>4. c[k].section = FALSE => Plain(c[k])
      BY <2>1, <2>2 DEF Plain
    <2>5. ASSUME c[k].section = TRUE, NEW j \in DOMAIN c[k].values PROVE Plain(c[k].values[j])
      <3>1. PICK i \in 1 .. N : LastWithin(levels, N, k, j, i) /\ c[k].values[j] = levels[i][k].values[j]
        BY <1>2, <2>5 DEF MergedAs
      <3>2. k \in DOMAIN levels[i] /\ j \in DOMAIN levels[i][k].values
        BY <3>1 DEF LastWithin, Gives
      <3>3. levels[i][k].section = TRUE
        BY <1>2, <2>5, <3>2 DEF MergedAs
      <3>4. ~Plain(levels[i][k])
        BY <3>3 DEF Plain
      <3> QED
        BY <1>1, <3>1, <3>2, <3>4 DEF IsLevel
    <2> QED
      BY <2>3, <2>4, <2>5
  <1>4. Names = DOMAIN c
    BY <1>1 DEF Names, MergesTo
  <1>5. ASSUME NEW k \in DOMAIN c, NEW m \in 1 .. N, LastWith(levels, N, k, m)
        PROVE  LastOf(LevelsWith(k)) = m
    <2>1. LevelsWith(k) = {n \in 1 .. N : k \in DOMAIN levels[n]}
      BY <1>1 DEF LevelsWith
    <2>2. m \in LevelsWith(k) /\ LevelsWith(k) \subseteq Nat /\ \A n \in LevelsWith(k) : n <= m
      BY <1>1, <1>5, <2>1 DEF LastWith
    <2> QED
      BY <2>2, LastIsOne
  <1>6. ASSUME NEW k \in DOMAIN c, c[k].section = TRUE
        PROVE  /\ config[k].section = TRUE
               /\ DOMAIN config[k].values = UNION {DOMAIN levels[n][k].values : n \in LevelsWith(k)}
               /\ \A j \in DOMAIN config[k].values :
                     IsAs(j, get(config, k, j), get(levels[LastOf(LevelsWithin(k, j))], k, j))
    <2> DEFINE new == [j \in DOMAIN c[k].values |-> replace_variables(j, c[k].values[j], c)]
    <2>1. config[k] = Section(new)
      BY <1>1, <1>6 DEF Expanded
    <2>2. config[k].section = TRUE /\ config[k].values = new
      BY <2>1 DEF Section
    <2>3. DOMAIN new = DOMAIN c[k].values
      OBVIOUS
    <2>4. \A n \in 1 .. N : k \in DOMAIN levels[n] => levels[n][k].section = TRUE
      BY <1>2, <1>6 DEF MergedAs
    <2>5. DOMAIN c[k].values = UNION {DOMAIN levels[n][k].values : n \in LevelsWith(k)}
      <3>1. \A j : j \in DOMAIN c[k].values <=> \E i \in 1 .. N : Gives(levels[i], k, j)
        BY <1>2, <1>6 DEF MergedAs
      <3> QED
        BY <1>1, <3>1 DEF LevelsWith, Gives
    <2>6. ASSUME NEW j \in DOMAIN c[k].values
          PROVE  IsAs(j, get(config, k, j), get(levels[LastOf(LevelsWithin(k, j))], k, j))
      <3>1. PICK i \in 1 .. N : LastWithin(levels, N, k, j, i) /\ c[k].values[j] = levels[i][k].values[j]
        BY <1>2, <1>6 DEF MergedAs
      <3>2. \A n \in 1 .. N : n \in LevelsWithin(k, j) <=> Gives(levels[n], k, j)
        BY <1>1, <2>4 DEF LevelsWithin, LevelsWith, Has, Gives
      <3>3. LevelsWithin(k, j) \subseteq 1 .. N
        BY <1>1 DEF LevelsWithin, LevelsWith
      <3>4. i \in LevelsWithin(k, j) /\ LevelsWithin(k, j) \subseteq Nat
            /\ \A n \in LevelsWithin(k, j) : n <= i
        BY <3>1, <3>2, <3>3 DEF LastWithin
      <3>5. LastOf(LevelsWithin(k, j)) = i
        BY <3>4, LastIsOne
      <3>6. get(levels[i], k, j) = c[k].values[j]
        BY <3>1 DEF get
      <3>7. get(config, k, j) = replace_variables(j, c[k].values[j], c)
        BY <2>2 DEF get
      <3>8. Plain(c[k].values[j]) /\ ~ReplaceRaises(j, c[k].values[j], c)
        BY <1>1, <1>3, <1>6 DEF ExpandRaises
      <3> QED
        BY <1>3, <3>5, <3>6, <3>7, <3>8, ReplacedAs
    <2> HIDE DEF new
    <2> QED
      BY <2>2, <2>3, <2>5, <2>6
  <1>7. ASSUME NEW k \in DOMAIN c, c[k].section = FALSE
        PROVE  config[k].section = FALSE /\ IsAs(k, config[k], c[k])
    <2>1. config[k] = replace_variables(k, c[k], c)
      BY <1>1, <1>7 DEF Expanded
    <2>2. Plain(c[k]) /\ ~ReplaceRaises(k, c[k], c)
      BY <1>1, <1>3, <1>7 DEF ExpandRaises
    <2> QED
      BY <1>3, <2>1, <2>2, ReplacedAs
  <1>8. ASSUME NEW k \in DOMAIN c
        PROVE  LET last == levels[LastOf(LevelsWith(k))][k] IN
               /\ config[k].section = last.section
               /\ last.section =>
                     /\ DOMAIN config[k].values = UNION {DOMAIN levels[n][k].values : n \in LevelsWith(k)}
                     /\ \A j \in DOMAIN config[k].values :
                           IsAs(j, get(config, k, j), get(levels[LastOf(LevelsWithin(k, j))], k, j))
               /\ ~last.section => IsAs(k, config[k], last)
    <2>1. PICK m \in 1 .. N : /\ LastWith(levels, N, k, m)
                              /\ c[k].section = levels[m][k].section
                              /\ c[k].section = FALSE => c[k] = levels[m][k]
      BY <1>2 DEF MergedAs
    <2>2. LastOf(LevelsWith(k)) = m
      BY <1>5, <2>1
    <2>3. CASE c[k].section = TRUE
      BY <1>6, <2>1, <2>2, <2>3
    <2>4. CASE c[k].section = FALSE
      BY <1>7, <2>1, <2>2, <2>4
    <2> QED
      BY <1>3, <2>3, <2>4
  <1> QED
    BY <1>1, <1>4, <1>8 DEF MostSpecificWins

LEMMA ConfigStarts == ConfigInit => ConfigInv
  BY ConfigAssumption DEF ConfigInit, ConfigInv

LEMMA ConfigKeeps == ConfigInv /\ [ConfigNext]_configVars => ConfigInv'
  <1> SUFFICES ASSUME ConfigInv, [ConfigNext]_configVars PROVE ConfigInv'
    OBVIOUS
  <1>1. ASSUME NEW ls \in ConfigFiles, Reload(ls) PROVE ConfigInv'
    <2> DEFINE N == Len(ls)
               S == {ls[n] : n \in DOMAIN ls} \cup {pathvars}
    <2>0. PICK c : c = merge(flatten(ls), pathvars)
      OBVIOUS
    <2>1. /\ ls \in Seq({ls[n] : n \in DOMAIN ls})
          /\ \A n \in DOMAIN ls : IsLevel(ls[n])
      BY ConfigAssumption
    <2>2. ls \in Seq(S) /\ N \in Nat /\ DOMAIN ls = 1 .. N
      BY <2>1, SeqMonotonic, LenProperties
    <2>3. PICK lv : lv = Append(ls, pathvars)
      OBVIOUS
    <2>4. /\ lv \in Seq(S) /\ Len(lv) = N + 1 /\ lv[N + 1] = pathvars
          /\ \A n \in 1 .. N : lv[n] = ls[n]
      <3>1. pathvars \in S
        OBVIOUS
      <3> HIDE DEF S
      <3> QED
        BY <2>2, <2>3, <3>1, AppendProperties
    <2>5. DOMAIN lv = 1 .. N + 1
      BY <2>4, LenProperties
    <2>6. IsLevel(pathvars)
      BY DEF ConfigInv, IsLevel
    <2> HIDE DEF N, S
    <2>7. \A n \in 1 .. N + 1 : n = N + 1 \/ n \in 1 .. N
      BY <2>2
    <2>8. \A n \in 1 .. N + 1 : IsLevel(lv[n])
      BY <2>1, <2>2, <2>4, <2>6, <2>7
    <2>9. \A n \in 1 .. N : ls[n] = lv[n] /\ IsLevel(lv[n])
      BY <2>1, <2>2, <2>4
    <2>10. ~FlattenRaises(ls)
      BY <1>1 DEF Reload
    <2>11. MergesTo(flatten(ls), lv, N)
      BY <2>2, <2>9, <2>10, MergedRight DEF N
    <2>12. ~MergeRaises(flatten(ls), lv[N + 1])
      BY <2>4 DEF MergeRaises, ConfigInv, Plain
    <2>13. MergesTo(c, lv, N + 1)
      BY <2>0, <2>2, <2>4, <2>8, <2>11, <2>12, MergeOne
    <2>14. /\ \A k \in DOMAIN c : ~ExpandRaises(c, k)
           /\ config' = [k \in DOMAIN c |-> Expanded(c, k)]
           /\ levels' = lv /\ pathvars' = pathvars
      BY <1>1, <2>0, <2>3 DEF Reload, Reloading
    <2>15. N + 1 \in Nat
      BY <2>2
    <2>16. ReloadedAs(c)'
      BY <2>4, <2>5, <2>8, <2>13, <2>14, <2>15 DEF ReloadedAs
    <2> QED
      BY <2>14, <2>16 DEF ConfigInv
  <1>2. ASSUME NEW ls \in ConfigFiles, ReloadRaises(ls) PROVE ConfigInv'
    <2>1. ended' = "raised" /\ pathvars' = pathvars
      BY <1>2 DEF ReloadRaises, Reloading
    <2> QED
      BY <2>1 DEF ConfigInv
  <1>3. ASSUME ReloadMissing PROVE ConfigInv'
    <2>1. ended' = "empty" /\ pathvars' = pathvars
      BY <1>3 DEF ReloadMissing, Reloading
    <2> QED
      BY <2>1 DEF ConfigInv
  <1>4. ASSUME NEW v \in VariablesGiven, add_path_variables(v) PROVE ConfigInv'
    <2>1. \A k \in DOMAIN v : Plain(v[k])
      BY ConfigAssumption
    <2>2. IsMerge(pathvars', pathvars, v)
      BY <1>4, MergeOf DEF add_path_variables
    <2>3. \A k \in DOMAIN pathvars' : Plain(pathvars'[k])
      <3>1. \A k \in DOMAIN v : pathvars'[k] = v[k]
        BY <2>1, <2>2 DEF IsMerge, Plain
      <3>2. \A k \in DOMAIN pathvars \ DOMAIN v : pathvars'[k] = pathvars[k]
        BY <2>2 DEF IsMerge
      <3> QED
        BY <2>1, <2>2, <3>1, <3>2 DEF IsMerge, ConfigInv
    <2>4. config' = config /\ ended' = ended /\ levels' = levels
      BY <1>4 DEF add_path_variables
    <2>5. \A c : ReloadedAs(c) => ReloadedAs(c)'
      BY <2>4 DEF ReloadedAs
    <2> QED
      BY <2>3, <2>4, <2>5 DEF ConfigInv, Plain
  <1>5. CASE UNCHANGED configVars
    <2>1. config' = config /\ ended' = ended /\ levels' = levels /\ pathvars' = pathvars
      BY <1>5 DEF configVars
    <2>2. \A c : ReloadedAs(c) => ReloadedAs(c)'
      BY <2>1 DEF ReloadedAs
    <2> QED
      BY <2>1, <2>2 DEF ConfigInv
  <1> QED
    BY <1>1, <1>2, <1>3, <1>4, <1>5 DEF ConfigNext

\* For every file and all the path variables a project adds, a reload leaves each parameter
\* as the most specific level gives it (AitConfig, merge, reload: cfg.py:191-224, 352-384).
THEOREM SpecificLevelsWin == ConfigSpec => []MostSpecificWins
  <1>1. ConfigInv => MostSpecificWins
    BY ReloadedRight DEF ConfigInv, MostSpecificWins
  <1> QED
    BY <1>1, ConfigStarts, ConfigKeeps, PTL DEF ConfigSpec

ConfigBounds == ended \in {"right", "empty", "raised"} /\ reloads \in 0 .. MaxReloads

LEMMA ConfigTyped == ConfigInv /\ ConfigBounds => ConfigTypes
  BY DEF ConfigInv, ConfigBounds, ConfigTypes, Plain

LEMMA ConfigBounded == ConfigBounds /\ [ConfigNext]_configVars => ConfigBounds'
  <1> SUFFICES ASSUME ConfigBounds, [ConfigNext]_configVars PROVE ConfigBounds'
    OBVIOUS
  <1>1. ASSUME NEW ls, Reloading(ls) PROVE reloads' \in 0 .. MaxReloads
    BY <1>1, ConfigAssumption DEF Reloading, ConfigBounds
  <1>2. ASSUME NEW ls, Reload(ls) \/ ReloadRaises(ls) PROVE ConfigBounds'
    BY <1>1, <1>2 DEF Reload, ReloadRaises, ConfigBounds
  <1>3. CASE ReloadMissing
    BY <1>1, <1>3 DEF ReloadMissing, ConfigBounds
  <1>4. ASSUME NEW v, add_path_variables(v) PROVE ConfigBounds'
    BY <1>4 DEF add_path_variables, ConfigBounds
  <1>5. CASE UNCHANGED configVars
    BY <1>5 DEF configVars, ConfigBounds
  <1> QED
    BY <1>2, <1>3, <1>4, <1>5 DEF ConfigNext

\* The variables of paths are never sections, whichever a project adds, so a reload that puts
\* them above the levels of the file replaces and never merges
\* (add_path_variables, _pathvars: cfg.py:352-384).
THEOREM ConfigTypeCorrect == ConfigSpec => []ConfigTypes
  <1>1. ConfigInit => ConfigBounds
    BY ConfigAssumption DEF ConfigInit, ConfigBounds
  <1> QED
    BY <1>1, ConfigStarts, ConfigKeeps, ConfigBounded, ConfigTyped, PTL DEF ConfigSpec

-----------------------------------------------------------------------------
(* Streams.                                                                *)

\* The recursion of process(): what each handler is given.
Passed(handlers, message, f) ==
    /\ f[0] = message
    /\ \A i \in 1 .. Len(handlers) :
          f[i] = IF Truthy(f[i - 1]) THEN handle(handlers[i], f[i - 1]) ELSE f[i - 1]

LEMMA PassedOn ==
    ASSUME NEW handlers, NEW n \in Nat, n = Len(handlers), NEW message
    PROVE  \E f : Passed(handlers, message, f) /\ process(handlers, message) = f[n]
  <1> DEFINE Step(i, x) == IF Truthy(x) THEN handle(handlers[i], x) ELSE x
             body(f) == [i \in 0 .. n |-> IF i = 0 THEN message
                                          ELSE IF Truthy(f[i - 1]) THEN handle(handlers[i], f[i - 1])
                                                                   ELSE f[i - 1]]
             T == {k \in Nat : \E f : f[0] = message /\ \A i \in 1 .. k : f[i] = Step(i, f[i - 1])}
             input_data == CHOOSE f : f = body(f)
  <1>1. process(handlers, message) = input_data[n]
    BY DEF process
  <1>2. \A f : body(f) = [i \in 0 .. n |-> IF i = 0 THEN message ELSE Step(i, f[i - 1])]
    OBVIOUS
  <1> HIDE DEF Step, body, input_data
  <1>3. 0 \in T
    <2>1. PICK f : f = [k \in 0 .. 0 |-> message]
      OBVIOUS
    <2>2. f[0] = message /\ \A i \in 1 .. 0 : f[i] = Step(i, f[i - 1])
      BY <2>1
    <2> QED
      BY <2>2
  <1>4. ASSUME NEW k \in Nat, k \in T PROVE k + 1 \in T
    <2>1. PICK f : f[0] = message /\ \A i \in 1 .. k : f[i] = Step(i, f[i - 1])
      BY <1>4
    <2> DEFINE g == [i \in 0 .. k + 1 |-> IF i = k + 1 THEN Step(k + 1, f[k]) ELSE f[i]]
    <2>2. /\ g[0] = f[0] /\ g[k + 1] = Step(k + 1, f[k]) /\ g[k] = f[k]
          /\ \A i \in 1 .. k : g[i] = f[i] /\ g[i - 1] = f[i - 1]
      OBVIOUS
    <2> HIDE DEF g
    <2>3. ASSUME NEW i \in 1 .. k + 1 PROVE g[i] = Step(i, g[i - 1])
      <3>1. CASE i = k + 1
        <4>1. i - 1 = k
          BY <3>1
        <4> QED
          BY <2>2, <3>1, <4>1
      <3>2. CASE i # k + 1
        <4>1. i \in 1 .. k
          BY <3>2
        <4> QED
          BY <2>1, <2>2, <4>1
      <3> QED
        BY <3>1, <3>2
    <2> QED
      BY <2>1, <2>2, <2>3
  <1> HIDE DEF T
  <1>5. n \in T
    BY <1>3, <1>4, SetInduction
  <1>6. PICK f : f[0] = message /\ \A i \in 1 .. n : f[i] = Step(i, f[i - 1])
    BY <1>5 DEF T
  <1> DEFINE h == [i \in 0 .. n |-> f[i]]
  <1>7. h = body(h)
    <2>1. \A i \in 0 .. n : h[i] = IF i = 0 THEN message ELSE Step(i, h[i - 1])
      <3> SUFFICES ASSUME NEW i \in 0 .. n, i # 0 PROVE h[i] = Step(i, h[i - 1])
        BY <1>6
      <3>1. i \in 1 .. n /\ i - 1 \in 0 .. n
        OBVIOUS
      <3> QED
        BY <1>6, <3>1
    <2>2. h = [i \in 0 .. n |-> h[i]]
      OBVIOUS
    <2> HIDE DEF h
    <2> QED
      BY <1>2, <2>1, <2>2
  <1> HIDE DEF h
  <1>8. input_data = body(input_data)
    BY <1>7 DEF input_data
  <1>9. input_data = [i \in 0 .. n |-> IF i = 0 THEN message ELSE Step(i, input_data[i - 1])]
    BY <1>2, <1>8
  <1>10. input_data[0] = message
    BY <1>9
  <1>11. ASSUME NEW i \in 1 .. n PROVE input_data[i] = Step(i, input_data[i - 1])
    <2>1. i \in 0 .. n /\ i # 0
      OBVIOUS
    <2> QED
      BY <1>9, <2>1
  <1>12. Passed(handlers, message, input_data)
    BY <1>10, <1>11 DEF Passed, Step
  <1> QED
    BY <1>1, <1>12

\* A single handler is given the message itself.
LEMMA OneHandler ==
    ASSUME NEW handlers, Len(handlers) = 1, NEW message, Truthy(message)
    PROVE  process(handlers, message) = handle(handlers[1], message)
  <1>0. PICK n \in Nat : n = 1
    OBVIOUS
  <1>1. PICK f : Passed(handlers, message, f) /\ process(handlers, message) = f[n]
    BY <1>0, PassedOn
  <1>2. f[0] = message /\ f[1] = IF Truthy(f[1 - 1]) THEN handle(handlers[1], f[1 - 1]) ELSE f[1 - 1]
    BY <1>1 DEF Passed
  <1>3. 1 - 1 = 0
    OBVIOUS
  <1> QED
    BY <1>0, <1>1, <1>2, <1>3

\* What comes out of a chain, if anything does, its last handler made.
LEMMA LastHandler ==
    ASSUME NEW handlers, NEW n \in Nat \ {0}, n = Len(handlers), NEW message,
           Truthy(process(handlers, message))
    PROVE  \E m : process(handlers, message) = handle(handlers[n], m)
  <1>1. PICK f : Passed(handlers, message, f) /\ process(handlers, message) = f[n]
    BY PassedOn
  <1>2. f[n] = IF Truthy(f[n - 1]) THEN handle(handlers[n], f[n - 1]) ELSE f[n - 1]
    BY <1>1 DEF Passed
  <1> QED
    BY <1>1, <1>2

\* A handler makes what it may declare.
LEMMA MadeAsDeclared ==
    ASSUME NEW h \in HandlerRecord, NEW m, Truthy(handle(h, m))
    PROVE  handle(h, m).type = Made(h)
  <1>1. h.what \in {"ccsds", "packet", "unpack"}
    BY DEF HandlerRecord
  <1>2. CASE h.what = "ccsds"
    <2>1. handle(h, m) = CCSDS_handle(m)
      BY <1>2 DEF handle
    <2>2. CCSDS_handle(m) = NoMessage \/ \E u, x : CCSDS_handle(m) = Pair(u, x)
      BY DEF CCSDS_handle
    <2> QED
      BY <1>2, <2>1, <2>2 DEF Pair, NoMessage, Made, Truthy
  <1>3. CASE h.what = "packet"
    <2>1. handle(h, m) = Pair(h.uid, m)
      BY <1>3 DEF handle
    <2> QED
      BY <1>3, <2>1 DEF Pair, Made
  <1>4. CASE h.what = "unpack"
    <2>1. handle(h, m) = Unpack_handle(m)
      BY <1>4 DEF handle
    <2>2. handle(h, m) = Raised \/ handle(h, m).type = "octets"
      BY <2>1 DEF Unpack_handle
    <2>3. Truthy(handle(h, m)) => handle(h, m) # Raised
      BY DEF Truthy, Raised
    <2> QED
      BY <1>4, <2>2, <2>3 DEF Made
  <1> QED
    BY <1>1, <1>2, <1>3, <1>4

\* Streams are opened with workflows that fit.
FitInv == /\ workflow \in Workflows
          /\ openStreams \subseteq {"inbound", "outbound"}
          /\ \A s \in openStreams : valid_workflow(workflow[s])

LEMMA FitMeansDeclared == FitInv => GivenAsDeclared
  <1> SUFFICES ASSUME FitInv, NEW s \in openStreams, NEW i \in 2 .. Len(workflow[s]), NEW m \in Taken(s),
                      Truthy(process(SubSeq(workflow[s], 1, i - 1), m)),
                      workflow[s][i].input_type # NoType,
                      workflow[s][i - 1].output_type # NoType
               PROVE  process(SubSeq(workflow[s], 1, i - 1), m).type = workflow[s][i].input_type
    BY DEF GivenAsDeclared
  <1>1. PICK w : w = workflow[s]
    OBVIOUS
  <1>2. w \in Seq(HandlerRecord) /\ \A k \in DOMAIN w : w[k].output_type \in {NoType, Made(w[k])}
    BY <1>1, StreamsAssumption DEF FitInv
  <1>3. PICK n \in Nat : n = Len(w)
    BY <1>2, LenProperties
  <1>4. DOMAIN w = 1 .. n /\ i \in 2 .. n /\ i - 1 \in 1 .. n - 1 /\ i - 1 \in 1 .. n
    BY <1>1, <1>2, <1>3, LenProperties
  <1>5. w[i - 1].output_type = w[i].input_type
    <2>1. valid_workflow(w)
      BY <1>1 DEF FitInv
    <2>2. PICK k \in 1 .. n - 1 : k = i - 1 /\ k + 1 = i
      BY <1>4
    <2>3. \/ NoType \in {w[k].output_type, w[k + 1].input_type}
          \/ w[k].output_type = w[k + 1].input_type
      BY <1>3, <2>1, <2>2 DEF valid_workflow
    <2> QED
      BY <1>1, <2>2, <2>3
  <1>6. PICK v : v = SubSeq(w, 1, i - 1)
    OBVIOUS
  <1>7. Len(v) = i - 1 /\ v[i - 1] = w[i - 1] /\ w[i - 1] \in HandlerRecord
    <2>1. PICK k \in 1 .. n : k = i - 1
      BY <1>4
    <2>2. 1 \in 1 .. n + 1 /\ k \in 1 - 1 .. n
      BY <2>1
    <2>3. Len(SubSeq(w, 1, k)) = IF 1 <= k THEN k - 1 + 1 ELSE 0
      BY <1>2, <1>3, <2>1, <2>2, SubSeqProperties
    <2>4. \A j \in 1 .. k - 1 + 1 : SubSeq(w, 1, k)[j] = w[1 + j - 1]
      BY <1>2, <1>3, <2>1, <2>2, SubSeqProperties
    <2>5. k \in 1 .. k - 1 + 1 /\ 1 + k - 1 = k
      BY <2>1
    <2>6. w[k] \in HandlerRecord
      BY <1>2, <1>4
    <2> QED
      BY <1>6, <2>1, <2>3, <2>4, <2>5, <2>6
  <1>8. PICK k \in Nat \ {0} : k = i - 1
    BY <1>4
  <1>9. PICK x : process(v, m) = handle(v[k], x)
    <2>1. Truthy(process(v, m))
      BY <1>1, <1>6
    <2>2. k = Len(v)
      BY <1>7, <1>8
    <2> QED
      BY <2>1, <2>2, LastHandler
  <1>10. process(v, m).type = Made(w[i - 1])
    BY <1>1, <1>6, <1>7, <1>8, <1>9, MadeAsDeclared
  <1>11. Made(w[i - 1]) = w[i - 1].output_type
    BY <1>1, <1>2, <1>4
  <1> QED
    BY <1>1, <1>5, <1>6, <1>10, <1>11

\* The first pattern that agrees is the one that comp_apid() finds.
LEMMA FirstIsFound ==
    ASSUME NEW apid
    PROVE  /\ comp_apid(apid) = 0 <=> ~\E i \in DOMAIN packet_types : AgreesWith(packet_types[i].pattern, apid)
           /\ comp_apid(apid) # 0 => /\ comp_apid(apid) \in DOMAIN packet_types
                                     /\ FirstThatAgrees(comp_apid(apid), apid)
  <1>1. PICK n \in Nat : n = Len(packet_types) /\ DOMAIN packet_types = 1 .. n
    BY StreamsAssumption, LenProperties
  <1> DEFINE S == {i \in 1 .. n : AgreesWith(packet_types[i].pattern, apid)}
  <1>2. ASSUME S # {} PROVE \E i \in DOMAIN packet_types : FirstThatAgrees(i, apid)
    <2>0. S \subseteq 1 .. n /\ S \subseteq Nat
      OBVIOUS
    <2>1. PICK i \in S : \A k \in S : i <= k
      <3> HIDE DEF S
      <3> QED
        BY <1>2, <2>0, Least
    <2>2. \A j \in 1 .. i - 1 : j \in 1 .. n /\ ~(i <= j)
      BY <2>1
    <2> QED
      BY <1>1, <2>1, <2>2 DEF FirstThatAgrees
  <1>3. ASSUME \E i \in DOMAIN packet_types : FirstThatAgrees(i, apid)
        PROVE  comp_apid(apid) \in DOMAIN packet_types /\ FirstThatAgrees(comp_apid(apid), apid)
    BY <1>3 DEF comp_apid
  <1>4. ASSUME ~\E i \in DOMAIN packet_types : FirstThatAgrees(i, apid)
        PROVE  comp_apid(apid) = 0
    BY <1>4 DEF comp_apid
  <1>5. 0 \notin DOMAIN packet_types
    BY <1>1
  <1> QED
    BY <1>1, <1>2, <1>3, <1>4, <1>5 DEF FirstThatAgrees

\* The user data field of a complete packet.
LEMMA UserDataIs ==
    ASSUME NEW d \in Datagrams, Complete(d), NEW uid,
           \E i \in DOMAIN packet_types : packet_types[i].uid = uid /\ FirstThatAgrees(i, d.apid)
    PROVE  IsUserDataOf(UserData(d), uid, d)
  <1>1. PICK h \in Nat : h = SecondaryHeader
    BY StreamsAssumption
  <1>2. PICK st \in Nat : st = d.stated
    BY StreamsAssumption
  <1>3. PICK data \in Seq(Nat) : data = d.data
    BY StreamsAssumption
  <1>4. PICK n \in Nat : n = Len(data) /\ st + 1 <= n
    BY <1>2, <1>3, LenProperties DEF Complete
  <1>5. PICK e \in Nat : e = IF st + 2 < n THEN st + 2 ELSE n
    OBVIOUS
  <1>6. UserData(d) = SubSeq(data, h + 1, e)
    <2>1. h + ((st + 1) - h) + 1 = st + 2
      OBVIOUS
    <2>2. UserData(d) = SliceOf(data, h, h + ((st + 1) - h) + 1)
      BY <1>1, <1>2, <1>3 DEF UserData
    <2>3. UserData(d) = SliceOf(data, h, st + 2)
      BY <2>1, <2>2
    <2> QED
      BY <1>4, <1>5, <2>3 DEF SliceOf
  <1>7. PICK o : o = UserData(d)
    OBVIOUS
  <1>8. PICK m \in Nat : m = IF h + 1 <= e THEN e - h ELSE 0
    <2>1. CASE h + 1 <= e
      <3>1. e - h \in Nat
        BY <2>1
      <3> QED
        BY <2>1, <3>1
    <2> QED
      BY <2>1
  <1>9. o \in Seq(Nat) /\ Len(o) = m /\ \A j \in 1 .. m : o[j] = data[h + j]
    <2>1. CASE h + 1 <= e
      <3>1. PICK a \in 1 .. n + 1 : a = h + 1
        BY <1>4, <1>5, <2>1
      <3>2. e \in a - 1 .. n /\ a <= e
        BY <1>4, <1>5, <2>1, <3>1
      <3>3. \A j \in a .. e : data[j] \in Nat
        <4>1. \A j \in a .. e : j \in 1 .. n
          BY <3>1, <3>2
        <4> QED
          BY <1>4, <4>1, ElementOfSeq
      <3>4. Len(SubSeq(data, a, e)) = IF a <= e THEN e - a + 1 ELSE 0
        BY <1>4, <3>1, <3>2, SubSeqProperties
      <3>5. \A j \in 1 .. e - a + 1 : SubSeq(data, a, e)[j] = data[a + j - 1]
        BY <1>4, <3>1, <3>2, SubSeqProperties
      <3>6. SubSeq(data, a, e) \in Seq(Nat)
        BY <1>4, <3>1, <3>2, SubSeqProperties
      <3>7. e - a + 1 = m /\ \A j \in 1 .. m : a + j - 1 = h + j
        BY <1>8, <2>1, <3>1
      <3> QED
        BY <1>6, <1>7, <3>1, <3>2, <3>4, <3>5, <3>6, <3>7
    <2>2. CASE ~(h + 1 <= e)
      <3>1. SubSeq(data, h + 1, e) = <<>>
        BY <2>2, SubSeqEmpty
      <3> QED
        BY <1>6, <1>7, <1>8, <2>2, <3>1, EmptySeq
    <2> QED
      BY <2>1, <2>2
  <1>10. DOMAIN o = 1 .. m
    BY <1>9, LenProperties
  <1>11. \/ m = 0 /\ h >= st + 1
         \/ m + h = st + 1
         \/ m + h = st + 2 /\ n > st + 1
    BY <1>4, <1>5, <1>8
  <1>12. m = 0 => o = <<>>
    BY <1>9, EmptySeq
  <1> QED
    BY <1>1, <1>2, <1>3, <1>4, <1>7, <1>9, <1>10, <1>11, <1>12 DEF IsUserDataOf

\* What the CCSDS handler publishes.
LEMMA CompleteIsHandled ==
    ASSUME NEW d \in Datagrams, NEW output, output = CCSDS_handle(Frame(d))
    PROVE  /\ Truthy(output) <=> Complete(d)
           /\ Complete(d) => IsUserDataOf(output.message.octets, output.uid, d)
  <1>1. PICK t : t = comp_apid(d.apid)
    OBVIOUS
  <1>2. PICK n \in Nat : n = Len(d.data)
    BY StreamsAssumption, LenProperties
  <1>3. d.stated \in Nat
    BY StreamsAssumption
  <1>4. t = 0 <=> ~\E i \in DOMAIN packet_types : AgreesWith(packet_types[i].pattern, d.apid)
    BY <1>1, FirstIsFound
  <1>5. t # 0 => t \in DOMAIN packet_types /\ FirstThatAgrees(t, d.apid)
    BY <1>1, FirstIsFound
  <1>6. Complete(d) <=> ~(d.data = <<>> \/ t = 0 \/ n < d.stated + 1)
    BY <1>2, <1>3, <1>4 DEF Complete
  <1>7. output = IF d.data = <<>> \/ t = 0 \/ n < d.stated + 1
                 THEN NoMessage ELSE Pair(packet_types[t].uid, Octets(UserData(d)))
    BY <1>1, <1>2 DEF CCSDS_handle, TooShort, PacketOf, Frame
  <1>8. CASE Complete(d)
    <2>1. output = Pair(packet_types[t].uid, Octets(UserData(d)))
      BY <1>6, <1>7, <1>8
    <2>2. /\ output.type = "pair" /\ output.uid = packet_types[t].uid
          /\ output.message.octets = UserData(d)
      BY <2>1 DEF Pair, Octets
    <2>3. Truthy(output)
      <3>1. Octets(<<>>).type = "octets"
        BY DEF Octets
      <3> QED
        BY <2>2, <3>1 DEF Truthy
    <2>4. IsUserDataOf(UserData(d), packet_types[t].uid, d)
      BY <1>5, <1>6, <1>8, UserDataIs
    <2> QED
      BY <1>8, <2>2, <2>3, <2>4
  <1>9. CASE ~Complete(d)
    <2>1. output = NoMessage
      BY <1>6, <1>7, <1>9
    <2> QED
      BY <1>9, <2>1 DEF Truthy, NoMessage
  <1> QED
    BY <1>8, <1>9

\* Positions of packets that are complete, in a sequence as it grows.
CompleteIn(s, k) == {j \in 1 .. k : Complete(s[j])}

LEMMA CompleteCounted ==
    ASSUME NEW s, NEW k \in Nat
    PROVE  /\ IsFiniteSet(CompleteIn(s, k))
           /\ Cardinality(CompleteIn(s, k)) \in Nat
           /\ Cardinality(CompleteIn(s, k + 1)) =
                  Cardinality(CompleteIn(s, k)) + (IF Complete(s[k + 1]) THEN 1 ELSE 0)
  <1>1. IsFiniteSet(CompleteIn(s, k))
    <2>1. IsFiniteSet(1 .. k) /\ CompleteIn(s, k) \subseteq 1 .. k
      BY FS_Interval DEF CompleteIn
    <2> QED
      BY <2>1, FS_Subset
  <1>2. Cardinality(CompleteIn(s, k)) \in Nat
    BY <1>1, FS_CardinalityType
  <1>3. CASE Complete(s[k + 1])
    <2>1. CompleteIn(s, k + 1) = CompleteIn(s, k) \cup {k + 1} /\ k + 1 \notin CompleteIn(s, k)
      BY <1>3 DEF CompleteIn
    <2> QED
      BY <1>1, <1>2, <1>3, <2>1, FS_AddElement
  <1>4. CASE ~Complete(s[k + 1])
    <2>1. CompleteIn(s, k + 1) = CompleteIn(s, k)
      BY <1>4 DEF CompleteIn
    <2> QED
      BY <1>1, <1>2, <1>4, <2>1
  <1> QED
    BY <1>1, <1>2, <1>3, <1>4

\* The number of complete packets up to a position, positive at one of them and growing.
LEMMA CompleteBounded ==
    ASSUME NEW s, NEW n \in Nat, NEW k \in 1 .. n, Complete(s[k])
    PROVE  Cardinality(CompleteIn(s, k)) \in 1 .. Cardinality(CompleteIn(s, n))
  <1>1. /\ IsFiniteSet(CompleteIn(s, k)) /\ Cardinality(CompleteIn(s, k)) \in Nat
        /\ IsFiniteSet(CompleteIn(s, n)) /\ Cardinality(CompleteIn(s, n)) \in Nat
    BY CompleteCounted
  <1>2. CompleteIn(s, k) \subseteq CompleteIn(s, n) /\ k \in CompleteIn(s, k)
    BY DEF CompleteIn
  <1>3. Cardinality(CompleteIn(s, k)) <= Cardinality(CompleteIn(s, n))
    BY <1>1, <1>2, FS_Subset
  <1>4. Cardinality(CompleteIn(s, k)) # 0
    BY <1>1, <1>2, FS_EmptySet
  <1> QED
    BY <1>1, <1>3, <1>4

IsSequence(p) == \E S : p \in Seq(S)

LEMMA OneMoreOf ==
    ASSUME NEW p, IsSequence(p), NEW x, NEW q, q = Append(p, x)
    PROVE  /\ IsSequence(q) /\ Len(p) \in Nat /\ Len(q) = Len(p) + 1
           /\ q[Len(p) + 1] = x
           /\ \A i \in 1 .. Len(p) : q[i] = p[i]
  <1>1. PICK S : p \in Seq(S)
    BY DEF IsSequence
  <1>2. PICK W : W = S \cup {x}
    OBVIOUS
  <1>3. p \in Seq(W) /\ x \in W
    <2>1. DOMAIN p = 1 .. Len(p) /\ Len(p) \in Nat /\ \A i \in 1 .. Len(p) : p[i] \in W
      BY <1>1, <1>2, LenProperties, ElementOfSeq
    <2>2. p = [i \in 1 .. Len(p) |-> p[i]]
      BY <1>1, <2>1, LenProperties
    <2> QED
      BY <1>2, <2>1, <2>2
  <1> QED
    BY <1>3, AppendProperties DEF IsSequence

\* What was published answers what has arrived.
Answers(p, s) ==
    /\ Len(p) = Cardinality(CompleteIn(s, Len(s)))
    /\ \A k \in CompleteIn(s, Len(s)) :
          IsUserDataOf(p[Cardinality(CompleteIn(s, k))].message.octets,
                       p[Cardinality(CompleteIn(s, k))].uid, s[k])

LEMMA OneMoreAnswered ==
    ASSUME NEW s \in Seq(Datagrams), NEW p, IsSequence(p), Answers(p, s),
           NEW d \in Datagrams, NEW t, t = Append(s, d),
           NEW output, output = CCSDS_handle(Frame(d)),
           NEW q, q = IF Truthy(output) THEN Append(p, output) ELSE p
    PROVE  Answers(q, t)
  <1>1. PICK n \in Nat : n = Len(s)
    BY LenProperties
  <1>2. Len(t) = n + 1 /\ t[n + 1] = d /\ \A i \in 1 .. n : t[i] = s[i]
    BY <1>1, AppendProperties
  <1>3. \A k \in 0 .. n : CompleteIn(t, k) = CompleteIn(s, k)
    BY <1>2 DEF CompleteIn
  <1>4. PICK c \in Nat : c = Cardinality(CompleteIn(s, n))
    BY CompleteCounted
  <1>5. Len(p) = c
    BY <1>1, <1>4 DEF Answers
  <1>6. Cardinality(CompleteIn(t, n + 1)) = c + (IF Complete(d) THEN 1 ELSE 0)
    <2>1. Cardinality(CompleteIn(t, n + 1)) =
             Cardinality(CompleteIn(t, n)) + (IF Complete(t[n + 1]) THEN 1 ELSE 0)
      BY CompleteCounted
    <2>2. CompleteIn(t, n) = CompleteIn(s, n)
      BY <1>3
    <2> QED
      BY <1>2, <1>4, <2>1, <2>2
  <1>7. Truthy(output) <=> Complete(d)
    BY CompleteIsHandled
  <1>8. /\ Complete(d) => Len(q) = c + 1 /\ q[c + 1] = output
        /\ ~Complete(d) => Len(q) = c
        /\ \A i \in 1 .. c : q[i] = p[i]
    BY <1>5, <1>7, OneMoreOf
  <1>9. ASSUME NEW k \in CompleteIn(t, n + 1)
        PROVE  IsUserDataOf(q[Cardinality(CompleteIn(t, k))].message.octets,
                            q[Cardinality(CompleteIn(t, k))].uid, t[k])
    <2>1. CASE k = n + 1
      <3>1. Complete(d) /\ t[k] = d
        BY <1>2, <1>9, <2>1 DEF CompleteIn
      <3>2. q[Cardinality(CompleteIn(t, k))] = output
        BY <1>6, <1>8, <2>1, <3>1
      <3> QED
        BY <3>1, <3>2, CompleteIsHandled
    <2>2. CASE k # n + 1
      <3>1. k \in 1 .. n /\ k \in 0 .. n /\ Complete(t[k])
        <4>1. k \in 1 .. n + 1 /\ Complete(t[k])
          BY DEF CompleteIn
        <4> QED
          BY <2>2, <4>1
      <3>2. t[k] = s[k] /\ k \in CompleteIn(s, n) /\ CompleteIn(t, k) = CompleteIn(s, k)
        BY <1>2, <1>3, <3>1 DEF CompleteIn
      <3>3. Cardinality(CompleteIn(s, k)) \in 1 .. c
        BY <1>4, <3>1, <3>2, CompleteBounded
      <3>4. q[Cardinality(CompleteIn(s, k))] = p[Cardinality(CompleteIn(s, k))]
        BY <1>8, <3>3
      <3> QED
        BY <1>1, <3>2, <3>4 DEF Answers
    <2> QED
      BY <2>1, <2>2
  <1>10. Len(q) = Cardinality(CompleteIn(t, n + 1))
    BY <1>6, <1>8
  <1> QED
    BY <1>2, <1>9, <1>10 DEF Answers

DeliverInv == /\ datagramsIn \in Seq(Datagrams)
              /\ IsSequence(published)
              /\ CompleteGoOut

LEMMA StreamsStart == StreamsInit => FitInv /\ DeliverInv
  <1> SUFFICES ASSUME StreamsInit PROVE FitInv /\ DeliverInv
    OBVIOUS
  <1>1. FitInv
    BY DEF StreamsInit, FitInv
  <1>2. datagramsIn \in Seq(Datagrams) /\ IsSequence(published) /\ Len(datagramsIn) = 0 /\ Len(published) = 0
    BY EmptySeq DEF StreamsInit, IsSequence
  <1>3. CompleteUpTo(0) = {}
    BY DEF CompleteUpTo
  <1>4. CompleteGoOut
    BY <1>2, <1>3, FS_EmptySet DEF CompleteGoOut
  <1> QED
    BY <1>1, <1>2, <1>4 DEF DeliverInv

LEMMA StreamsKeep == FitInv /\ DeliverInv /\ [StreamsNext]_streamVars => FitInv' /\ DeliverInv'
  <1> SUFFICES ASSUME FitInv, DeliverInv, [StreamsNext]_streamVars PROVE FitInv' /\ DeliverInv'
    OBVIOUS
  <1>1. ASSUME NEW s \in DOMAIN workflow, Open(s) PROVE FitInv' /\ DeliverInv'
    <2>1. workflow' = workflow /\ openStreams' = openStreams \cup {s} /\ valid_workflow(workflow[s])
      BY <1>1 DEF Open
    <2>2. s \in {"inbound", "outbound"}
      BY StreamsAssumption DEF FitInv
    <2>3. FitInv'
      BY <2>1, <2>2 DEF FitInv
    <2>4. datagramsIn' = datagramsIn /\ published' = published
      BY <1>1 DEF Open
    <2>5. DeliverInv'
      BY <2>1, <2>4 DEF DeliverInv, CompleteGoOut, CompleteUpTo
    <2> QED
      BY <2>3, <2>5
  <1>2. ASSUME NEW d \in Datagrams, Arrive(d) PROVE FitInv' /\ DeliverInv'
    <2>1. workflow' = workflow /\ openStreams' = openStreams
      BY <1>2 DEF Arrive
    <2>2. FitInv'
      BY <2>1 DEF FitInv
    <2>3. PICK output : output = process(workflow["inbound"], Frame(d))
      OBVIOUS
    <2>4. /\ datagramsIn' = Append(datagramsIn, d)
          /\ published' = IF Truthy(output) THEN Append(published, output) ELSE published
      BY <1>2, <2>3 DEF Arrive
    <2>5. datagramsIn' \in Seq(Datagrams)
      BY <2>4, AppendProperties DEF DeliverInv
    <2>6. IsSequence(published')
      BY <2>4, OneMoreOf DEF DeliverInv
    <2>7. ASSUME Len(workflow["inbound"]) = 1, workflow["inbound"][1].what = "ccsds"
          PROVE  Answers(published', datagramsIn')
      <3>1. Truthy(Frame(d))
        BY DEF Truthy, Frame, Octets
      <3>2. output = CCSDS_handle(Frame(d))
        BY <2>3, <2>7, <3>1, OneHandler DEF handle
      <3>3. Answers(published, datagramsIn)
        BY <2>7 DEF DeliverInv, CompleteGoOut, CompleteUpTo, Answers, CompleteIn
      <3>4. PICK s \in Seq(Datagrams) : s = datagramsIn
        BY DEF DeliverInv
      <3>5. PICK p : p = published /\ IsSequence(p)
        BY DEF DeliverInv
      <3>6. PICK t, q : t = datagramsIn' /\ q = published'
        OBVIOUS
      <3>7. Answers(p, s) /\ t = Append(s, d) /\ q = IF Truthy(output) THEN Append(p, output) ELSE p
        BY <2>4, <3>3, <3>4, <3>6, <3>5
      <3>8. Answers(q, t)
        BY <3>2, <3>7, <3>5, OneMoreAnswered
      <3> QED
        BY <3>6, <3>8
    <2>8. CompleteGoOut'
      BY <2>1, <2>7 DEF CompleteGoOut, CompleteUpTo, Answers, CompleteIn
    <2> QED
      BY <2>2, <2>5, <2>6, <2>8 DEF DeliverInv
  <1>3. ASSUME Forward \/ UNCHANGED streamVars PROVE FitInv' /\ DeliverInv'
    <2>1. /\ workflow' = workflow /\ openStreams' = openStreams
          /\ datagramsIn' = datagramsIn /\ published' = published
      BY <1>3 DEF Forward, streamVars
    <2> QED
      BY <2>1 DEF FitInv, DeliverInv, CompleteGoOut, CompleteUpTo
  <1> QED
    BY <1>1, <1>2, <1>3 DEF StreamsNext

\* Whatever workflows the streams have and whatever arrives: behind a CCSDS handler exactly the
\* packets that are complete go out, once each and in their order, with the UID of the first
\* pattern that fits and their user data (ccsds_packet_handler.py:50-115), and no handler is
\* given a type that it does not declare (stream.py:61-101).
THEOREM CompletePacketsGoOut == StreamsSpec => []StreamsDeliver
  <1>1. StreamsSpec => [](FitInv /\ DeliverInv)
    BY StreamsStart, StreamsKeep, PTL DEF StreamsSpec
  <1>2. FitInv /\ DeliverInv => StreamsDeliver
    BY FitMeansDeclared DEF DeliverInv, StreamsDeliver
  <1> QED
    BY <1>1, <1>2, PTL

StreamsTypesInv == StreamsTypes /\ IsSequence(published) /\ IsSequence(sentOut)

LEMMA StreamsTypesKept == StreamsTypesInv /\ [StreamsNext]_streamVars => StreamsTypesInv'
  <1> SUFFICES ASSUME StreamsTypes, IsSequence(published), IsSequence(sentOut), [StreamsNext]_streamVars
               PROVE  StreamsTypes' /\ IsSequence(published') /\ IsSequence(sentOut')
    BY DEF StreamsTypesInv
  <1>1. /\ Len(published) \in Nat /\ Len(sentOut) \in Nat /\ Len(datagramsIn) \in Nat
        /\ handled \in Nat
    <2>1. \A p : IsSequence(p) => Len(p) \in Nat
      BY LenProperties DEF IsSequence
    <2> QED
      BY <2>1, LenProperties DEF StreamsTypes
  <1>2. ASSUME NEW s \in DOMAIN workflow, Open(s)
        PROVE  StreamsTypes' /\ IsSequence(published') /\ IsSequence(sentOut')
    <2>1. /\ workflow' = workflow /\ datagramsIn' = datagramsIn /\ published' = published
          /\ handled' = handled /\ sentOut' = sentOut
      BY <1>2 DEF Open
    <2>2. s \in {"inbound", "outbound"}
      BY StreamsAssumption DEF StreamsTypes
    <2> QED
      BY <1>2, <2>1, <2>2 DEF Open, StreamsTypes
  <1>3. ASSUME NEW d \in Datagrams, Arrive(d)
        PROVE  StreamsTypes' /\ IsSequence(published') /\ IsSequence(sentOut')
    <2>1. /\ workflow' = workflow /\ openStreams' = openStreams /\ forwarding' = forwarding
          /\ handled' = handled /\ sentOut' = sentOut
      BY <1>3 DEF Arrive
    <2>2. /\ datagramsIn' \in Seq(Datagrams) /\ Len(datagramsIn') = Len(datagramsIn) + 1
          /\ Len(datagramsIn') <= MaxArrived
      <3>1. datagramsIn' = Append(datagramsIn, d) /\ Len(datagramsIn) < MaxArrived
        BY <1>3 DEF Arrive
      <3>2. datagramsIn' \in Seq(Datagrams) /\ Len(datagramsIn') = Len(datagramsIn) + 1
        BY <3>1, AppendProperties DEF StreamsTypes
      <3> QED
        BY <1>1, <3>1, <3>2, StreamsAssumption
    <2>3. IsSequence(published') /\ Len(published') \in {Len(published), Len(published) + 1}
      <3>1. published' = published \/ \E output : published' = Append(published, output)
        BY <1>3 DEF Arrive
      <3> QED
        BY <3>1, OneMoreOf
    <2>4. Len(published') <= Len(datagramsIn') /\ handled' \in 0 .. Len(published')
      <3>1. PICK p \in Nat : p = Len(published) /\ Len(published') \in {p, p + 1}
        BY <1>1, <2>3
      <3>2. p <= Len(datagramsIn) /\ handled \in 0 .. p
        BY <3>1 DEF StreamsTypes
      <3> QED
        BY <1>1, <2>1, <2>2, <3>1, <3>2
    <2> QED
      BY <2>1, <2>2, <2>3, <2>4 DEF StreamsTypes
  <1>4. CASE Forward
    <2>1. /\ workflow' = workflow /\ openStreams' = openStreams
          /\ datagramsIn' = datagramsIn /\ published' = published
      BY <1>4 DEF Forward
    <2>2. handled' = handled + 1 /\ handled < Len(published)
      BY <1>4 DEF Forward
    <2>3. /\ forwarding' \in BOOLEAN
          /\ sentOut' = sentOut \/ \E output : sentOut' = Append(sentOut, output)
      BY <1>4 DEF Forward, StreamsTypes
    <2>4. IsSequence(sentOut') /\ Len(sentOut') \in {Len(sentOut), Len(sentOut) + 1}
      BY <2>3, OneMoreOf
    <2>5. handled' \in 0 .. Len(published') /\ Len(sentOut') <= handled'
      BY <1>1, <2>1, <2>2, <2>4 DEF StreamsTypes
    <2> QED
      BY <2>1, <2>3, <2>4, <2>5 DEF StreamsTypes
  <1>5. CASE UNCHANGED streamVars
    BY <1>5 DEF streamVars, StreamsTypes
  <1> QED
    BY <1>2, <1>3, <1>4, <1>5 DEF StreamsNext

\* Nothing is published without a datagram, and nothing sent without something published
\* (stream.py:61-85, client.py:100-177).
THEOREM StreamsTypeCorrect == StreamsSpec => []StreamsTypes
  <1>1. StreamsInit => StreamsTypesInv
    <2> SUFFICES ASSUME StreamsInit PROVE StreamsTypesInv
      OBVIOUS
    <2>1. Len(<<>>) = 0 /\ IsSequence(<<>>) /\ <<>> \in Seq(Datagrams)
      BY EmptySeq DEF IsSequence
    <2>2. MaxArrived \in Nat
      BY StreamsAssumption
    <2>3. 0 <= MaxArrived /\ 0 <= 0 /\ 0 \in 0 .. 0
      BY <2>2
    <2>4. StreamsTypes
      BY <2>1, <2>3 DEF StreamsInit, StreamsTypes
    <2> QED
      BY <2>1, <2>4 DEF StreamsInit, StreamsTypesInv
  <1>2. StreamsTypesInv => StreamsTypes
    BY DEF StreamsTypesInv
  <1> QED
    BY <1>1, <1>2, StreamsTypesKept, PTL DEF StreamsSpec

-----------------------------------------------------------------------------
(* Scripts of the ground API.                                              *)

USE GroundApiAssumption

WaitRecord == [packet : PacketNames, mode : Modes, timeout : Nat \cup {Forever}, elapsed : Nat]

\* A call that is being recorded is the last of the answers, and there are no more
\* answers than calls.
AnswersCounted == /\ Len(answers) <= MaxCommands
                  /\ script \in {"recording", "recorded"} => Len(answers) > 0

TypeInv == GroundTypes /\ AnswersCounted

-----------------------------------------------------------------------------
(* Types.                                                                  *)

LEMMA NotWaitingType == NotWaiting \in WaitRecord
BY DEF NotWaiting, WaitRecord

\* A packet that comes to a buffer leaves no more than its capacity in it.
LEMMA BufferType ==
    ASSUME NEW buf \in Seq(Modes), NEW m \in Modes, NEW newest, newest = <<m>> \o buf
    PROVE  LET kept == SubSeq(newest, 1, IF Len(newest) <= Capacity THEN Len(newest) ELSE Capacity)
           IN kept \in Seq(Modes) /\ Len(kept) <= Capacity
<1> DEFINE n == IF Len(newest) <= Capacity THEN Len(newest) ELSE Capacity
<1>1. newest \in Seq(Modes)
  BY ConcatProperties
<1>2. Len(newest) \in Nat /\ Capacity \in Nat \ {0}
  BY <1>1, LenProperties
<1>3. n \in Nat /\ n <= Capacity /\ n <= Len(newest)
  BY <1>2
<1> HIDE DEF n
<1>4. \A i \in 1 .. n : newest[i] \in Modes
  BY <1>1, <1>2, <1>3, ElementOfSeq
<1>5. SubSeq(newest, 1, n) \in Seq(Modes) /\ Len(SubSeq(newest, 1, n)) <= Capacity
  BY <1>3, <1>4, SubSeqProperties
<1> QED  BY <1>5 DEF n

LEMMA EvaluateType ==
    ASSUME TypeInv, NEW w \in WaitRecord, Evaluate(w)
    PROVE  TypeInv'
<1>1. waiting' \in WaitRecord
  BY DEF Evaluate
<1>2. trueSince' \in Nat \cup {Forever}
  BY DEF Evaluate, TypeInv, GroundTypes
<1>3. /\ script' \in {"idle", "waiting"}
      /\ waited' \in {"timeout", "raised", "True", "nothing"}
  BY DEF Evaluate
<1>4. UNCHANGED <<answers, sent, history, pktbufs, received, watching>>
  BY DEF Evaluate
<1> QED  BY <1>1, <1>2, <1>3, <1>4 DEF TypeInv, GroundTypes, AnswersCounted, WaitRecord

Answer == {"True", "False", "raised", "none yet"}

\* A call of send() that ends without leaving anything adds its answer.
LEMMA AnswerType ==
    ASSUME TypeInv, Calling, NEW a \in Answer, answers' = Append(answers, a)
    PROVE  /\ answers' \in Seq(Answer)
           /\ Len(answers') <= MaxCommands /\ Len(answers') > 0
           /\ Len(answers') \in Calls
<1>1. answers \in Seq(Answer)
  BY DEF TypeInv, GroundTypes, Answer
<1>2. answers' \in Seq(Answer) /\ Len(answers') = Len(answers) + 1
  BY <1>1, AppendProperties
<1>3. Len(answers) \in Nat /\ MaxCommands \in Nat /\ Len(answers) < MaxCommands
  BY <1>1, LenProperties DEF Calling
<1>4. /\ Len(answers) + 1 <= MaxCommands /\ Len(answers) + 1 > 0
      /\ Len(answers) + 1 \in Calls
  BY <1>3 DEF Calls
<1> QED  BY <1>2, <1>4

LEMMA TypeNext == TypeInv /\ [GroundNext]_groundVars => TypeInv'
<1> SUFFICES ASSUME TypeInv, [GroundNext]_groundVars PROVE TypeInv'
  OBVIOUS
<1>0. /\ answers \in Seq(Answer) /\ sent \in Seq(Calls) /\ history \in Seq(Calls)
      /\ pktbufs \in [PacketNames -> Seq(Modes)]
      /\ Len(answers) \in Nat
  BY LenProperties DEF TypeInv, GroundTypes, Answer
<1>a. received \in 0 .. MaxReceived /\ MaxReceived \in Nat
  <2>1. received \in 0 .. MaxReceived
    BY DEF TypeInv, GroundTypes
  <2>2. MaxReceived \in Nat
    OBVIOUS
  <2> QED  BY <2>1, <2>2
<1>1. CASE SendRefused \/ SendFails
  <2>1. PICK a \in Answer : answers' = Append(answers, a)
    BY <1>1 DEF SendRefused, SendFails, Answer
  <2>2. Calling
    BY <1>1 DEF SendRefused, SendFails
  <2>3. answers' \in Seq(Answer) /\ Len(answers') <= MaxCommands /\ Len(answers') > 0
    BY <2>1, <2>2, AnswerType
  <2>4. UNCHANGED <<script, sent, history, pktbufs, received, watching, waiting,
                    trueSince, waited>>
    BY <1>1 DEF SendRefused, SendFails
  <2> QED  BY <2>3, <2>4 DEF TypeInv, GroundTypes, AnswersCounted, Answer
<1>2. CASE SendLeaves
  <2>1. Calling /\ answers' = Append(answers, "none yet")
    BY <1>2 DEF SendLeaves
  <2>2. /\ answers' \in Seq(Answer) /\ Len(answers') <= MaxCommands /\ Len(answers') > 0
        /\ Len(answers') \in Calls
    BY <2>1, AnswerType DEF Answer
  <2>3. sent' = Append(sent, Len(answers'))
    BY <1>2 DEF SendLeaves
  <2>4. sent' \in Seq(Calls)
    BY <1>0, <2>2, <2>3, AppendProperties
  <2> QED  BY <1>2, <2>2, <2>4 DEF SendLeaves, TypeInv, GroundTypes, AnswersCounted, Answer
<1>3. CASE Record \/ RecordFails \/ SendReturns
  <2>1. Len(answers) \in 1 .. Len(answers) /\ Len(answers) \in Calls
    <3>1. /\ Len(answers) \in Nat /\ Len(answers) > 0 /\ Len(answers) <= MaxCommands
          /\ MaxCommands \in Nat
      BY <1>0, <1>3 DEF Record, RecordFails, SendReturns, TypeInv, AnswersCounted
    <3> QED  BY <3>1 DEF Calls
  <2>2. \A a \in Answer : /\ [answers EXCEPT ![Len(answers)] = a] \in Seq(Answer)
                          /\ Len([answers EXCEPT ![Len(answers)] = a]) = Len(answers)
    <3> SUFFICES ASSUME NEW a \in Answer
                 PROVE  /\ [answers EXCEPT ![Len(answers)] = a] \in Seq(Answer)
                        /\ Len([answers EXCEPT ![Len(answers)] = a]) = Len(answers)
      OBVIOUS
    <3>1. answers \in Seq(Answer)
      BY <1>0
    <3> QED  BY <2>1, <3>1, ExceptSeq
  <2>3. answers' \in Seq(Answer) /\ Len(answers') = Len(answers)
    BY <1>0, <1>3, <2>2 DEF Record, RecordFails, SendReturns, Answer
  <2>4. history' \in Seq(Calls)
    <3>1. Append(history, Len(answers)) \in Seq(Calls)
      BY <1>0, <2>1, AppendProperties, Zenon
    <3> QED  BY <1>0, <1>3, <3>1 DEF Record, RecordFails, SendReturns
  <2>5. /\ script' \in {"idle", "recorded"}
        /\ UNCHANGED <<sent, pktbufs, received, watching, waiting, trueSince, waited>>
    BY <1>3 DEF Record, RecordFails, SendReturns
  <2>6. GroundTypes
    BY DEF TypeInv
  <2>7. GroundTypes'
    BY <2>3, <2>4, <2>5, <2>6 DEF GroundTypes, Answer
  <2>8. Len(answers') <= MaxCommands /\ Len(answers') > 0
    BY <2>1, <2>3 DEF TypeInv, AnswersCounted
  <2> QED  BY <2>7, <2>8 DEF TypeInv, AnswersCounted
<1>4. CASE ScriptKilled
  BY <1>4 DEF ScriptKilled, TypeInv, GroundTypes, AnswersCounted
<1>5. CASE ScriptRestarts
  <2>1. <<>> \in Seq(Modes) /\ Len(<<>>) = 0
    BY EmptySeq
  <2>2. pktbufs' \in [PacketNames -> Seq(Modes)] /\ \A p \in PacketNames : Len(pktbufs'[p]) <= Capacity
    BY <1>5, <2>1 DEF ScriptRestarts
  <2> QED  BY <1>5, <2>2, NotWaitingType
           DEF ScriptRestarts, TypeInv, GroundTypes, AnswersCounted, WaitRecord
<1>6. ASSUME NEW p \in PacketNames, NEW m \in Modes, Monitor(p, m)
      PROVE  TypeInv'
  <2> DEFINE newest == <<m>> \o pktbufs[p]
             kept == SubSeq(newest, 1, IF Len(newest) <= Capacity THEN Len(newest) ELSE Capacity)
  <2>1. pktbufs' = [pktbufs EXCEPT ![p] = kept]
    BY <1>6 DEF Monitor
  <2>2. kept \in Seq(Modes) /\ Len(kept) <= Capacity
    <3>1. pktbufs[p] \in Seq(Modes)
      BY <1>0
    <3> HIDE DEF newest
    <3>2. newest = <<m>> \o pktbufs[p]
      BY DEF newest
    <3> QED  BY <3>1, <3>2, BufferType
  <2> HIDE DEF kept
  <2>3. /\ pktbufs' \in [PacketNames -> Seq(Modes)]
        /\ \A q \in PacketNames : Len(pktbufs'[q]) <= Capacity
    BY <1>0, <2>1, <2>2 DEF TypeInv, GroundTypes
  <2>4. trueSince' \in Nat \cup {Forever}
    BY <1>6 DEF Monitor, StillTrue, TypeInv, GroundTypes
  <2>5. received' \in 0 .. MaxReceived
    <3>1. received < MaxReceived /\ received' = received + 1
      BY <1>6 DEF Monitor
    <3> QED  BY <1>a, <3>1
  <2>6. UNCHANGED <<script, answers, sent, history, watching, waiting, waited>>
    BY <1>6 DEF Monitor
  <2> QED  BY <2>3, <2>4, <2>5, <2>6 DEF TypeInv, GroundTypes, AnswersCounted
<1>7. CASE MonitorDies
  <2>1. received < MaxReceived /\ received' = received + 1
    BY <1>7 DEF MonitorDies
  <2>2. received' \in 0 .. MaxReceived
    BY <1>a, <2>1
  <2> QED  BY <1>7, <2>2 DEF MonitorDies, TypeInv, GroundTypes, AnswersCounted
<1>8. ASSUME NEW p \in PacketNames, NEW m \in Modes, NEW t \in Timeouts, Wait(p, m, t)
      PROVE  TypeInv'
  <2>1. [packet |-> p, mode |-> m, timeout |-> t, elapsed |-> 0] \in WaitRecord
    BY DEF WaitRecord
  <2> QED  BY <1>8, <2>1, EvaluateType DEF Wait
<1>9. CASE WakeUp
  <2>1. waiting \in WaitRecord
    BY DEF TypeInv, GroundTypes, WaitRecord
  <2>2. [waiting EXCEPT !.elapsed = IF waiting.timeout = Forever THEN 1 ELSE @ + 1] \in WaitRecord
    BY <2>1 DEF WaitRecord
  <2> QED  BY <1>9, <2>2, EvaluateType DEF WakeUp
<1>10. CASE WaitForValue \/ Confirm
  BY <1>10, NotWaitingType
     DEF WaitForValue, Confirm, TypeInv, GroundTypes, AnswersCounted, WaitRecord
<1>11. CASE UNCHANGED groundVars
  BY <1>11 DEF groundVars, TypeInv, GroundTypes, AnswersCounted
<1> QED  BY <1>1, <1>2, <1>3, <1>4, <1>5, <1>6, <1>7, <1>8, <1>9, <1>10, <1>11 DEF GroundNext

LEMMA TypeInit == GroundInit => TypeInv
<1> SUFFICES ASSUME GroundInit PROVE TypeInv
  OBVIOUS
<1>1. /\ <<>> \in Seq({"True", "False", "raised", "none yet"})
      /\ <<>> \in Seq(Calls) /\ <<>> \in Seq(Modes) /\ Len(<<>>) = 0
  BY EmptySeq
<1>2. GroundTypes
  BY <1>1, NotWaitingType DEF GroundInit, GroundTypes, WaitRecord
<1> QED  BY <1>1, <1>2 DEF GroundInit, TypeInv, AnswersCounted

\* Every variable of the script, the history file and the monitor keeps its type,
\* and every buffer its capacity, across failures and restarts (api.py 482-746).
THEOREM ScriptTypeCorrect == GroundSpec => []GroundTypes
<1>1. TypeInv => GroundTypes
  BY DEF TypeInv
<1> QED  BY <1>1, TypeInit, TypeNext, PTL DEF GroundSpec

-----------------------------------------------------------------------------
(* wait().  Between two looks of wait() the condition has come to hold, if *)
(* it holds, since the look before the sleep: that is why giving up is     *)
(* just, and it is not said by TimeoutIsJust.                              *)

Asleep == script = "waiting" =>
              /\ waited = "nothing"
              /\ trueSince = Forever \/ trueSince = waiting.elapsed
              /\ ~Expired(waiting)

WaitInv == TypeInv /\ Asleep /\ TimeoutIsJust

\* What one look leaves, if it is the first or what was true before came to be true
\* during the last sleep.
LEMMA EvaluateJust ==
    ASSUME TypeInv, NEW w \in WaitRecord, Evaluate(w),
           \/ w.elapsed = 0
           \/ /\ w.timeout # Forever => w.elapsed <= w.timeout
              /\ trueSince = Forever \/ w.timeout = Forever \/ trueSince + 1 = w.elapsed
    PROVE  Asleep' /\ TimeoutIsJust'
<1>1. /\ waiting' = w /\ w.elapsed \in Nat /\ w.timeout \in Nat \cup {Forever}
      /\ trueSince \in Nat \cup {Forever}
      /\ Forever \notin Nat
  BY DEF Evaluate, WaitRecord, TypeInv, GroundTypes
<1>2. CASE Expired(w)
  <2>1. waited' = "timeout" /\ script' = "idle"
    BY <1>2 DEF Evaluate
  <2>2. w.timeout > 0 => w.elapsed # 0 /\ w.elapsed = w.timeout
                         /\ (trueSince = Forever \/ trueSince + 1 = w.elapsed)
    BY <1>1, <1>2 DEF Expired
  <2>3. w.timeout > 0 => trueSince' = Forever \/ trueSince' + 1 >= w.timeout
    BY <1>1, <2>2 DEF Evaluate
  <2> QED  BY <1>1, <2>1, <2>3 DEF Asleep, TimeoutIsJust
<1>3. CASE ~Expired(w)
  <2>1. waited' # "timeout"
    BY <1>3 DEF Evaluate
  <2>2. script' = "waiting" => waited' = "nothing" /\ trueSince' = Forever
    BY <1>3 DEF Evaluate
  <2>3. ~Expired(waiting)'
    BY <1>1, <1>3 DEF Expired
  <2> QED  BY <2>1, <2>2, <2>3 DEF Asleep, TimeoutIsJust
<1> QED  BY <1>2, <1>3

LEMMA WaitNext == WaitInv /\ [GroundNext]_groundVars => Asleep' /\ TimeoutIsJust'
<1> SUFFICES ASSUME WaitInv, [GroundNext]_groundVars PROVE Asleep' /\ TimeoutIsJust'
  OBVIOUS
<1>0. TypeInv /\ Asleep /\ TimeoutIsJust
  BY DEF WaitInv
<1>1. CASE \/ SendRefused \/ SendFails \/ SendLeaves \/ Record \/ SendReturns \/ RecordFails
           \/ ScriptKilled
  <2>1. script' # "waiting" /\ UNCHANGED <<waiting, trueSince, waited>>
    BY <1>1 DEF SendRefused, SendFails, SendLeaves, Record, SendReturns, RecordFails, ScriptKilled, Calling
  <2> QED  BY <1>0, <2>1 DEF Asleep, TimeoutIsJust
<1>2. CASE ScriptRestarts \/ WaitForValue \/ Confirm
  <2>1. script' = "idle" /\ trueSince' = Forever
    BY <1>2 DEF ScriptRestarts, WaitForValue, Confirm
  <2> QED  BY <2>1 DEF Asleep, TimeoutIsJust
<1>3. ASSUME NEW p \in PacketNames, NEW m \in Modes, Monitor(p, m)
      PROVE  Asleep' /\ TimeoutIsJust'
  <2>1. UNCHANGED <<script, waiting, waited>>
    BY <1>3 DEF Monitor
  <2>2. CASE script = "waiting"
    <3>1. /\ waited = "nothing" /\ ~Expired(waiting)
          /\ trueSince = Forever \/ trueSince = waiting.elapsed
      BY <1>0, <2>2 DEF Asleep
    <3>2. trueSince' = Forever \/ trueSince' = waiting.elapsed
      BY <1>3, <2>2, <3>1 DEF Monitor, StillTrue
    <3>3. ~Expired(waiting)'
      BY <2>1, <3>1 DEF Expired
    <3> QED  BY <2>1, <3>1, <3>2, <3>3 DEF Asleep, TimeoutIsJust
  <2>3. CASE script # "waiting"
    <3>1. trueSince' = trueSince
      BY <1>3, <2>3 DEF Monitor
    <3> QED  BY <1>0, <2>1, <2>3, <3>1 DEF Asleep, TimeoutIsJust
  <2> QED  BY <2>2, <2>3
<1>4. CASE UNCHANGED <<script, waiting, trueSince, waited>>
  BY <1>0, <1>4 DEF Asleep, TimeoutIsJust, Expired
<1>5. CASE MonitorDies \/ UNCHANGED groundVars
  BY <1>4, <1>5 DEF MonitorDies, groundVars
<1>6. ASSUME NEW p \in PacketNames, NEW m \in Modes, NEW t \in Timeouts, Wait(p, m, t)
      PROVE  Asleep' /\ TimeoutIsJust'
  <2>1. [packet |-> p, mode |-> m, timeout |-> t, elapsed |-> 0] \in WaitRecord
    BY DEF WaitRecord
  <2> QED  BY <1>0, <1>6, <2>1, EvaluateJust DEF Wait
<1>7. CASE WakeUp
  <2> DEFINE w == [waiting EXCEPT !.elapsed = IF waiting.timeout = Forever THEN 1 ELSE @ + 1]
  <2>1. waiting \in WaitRecord
    BY <1>0 DEF TypeInv, GroundTypes, WaitRecord
  <2>2. /\ w \in WaitRecord /\ w.timeout = waiting.timeout
        /\ waiting.timeout # Forever => w.elapsed = waiting.elapsed + 1
    BY <2>1 DEF WaitRecord
  <2>3. /\ waiting.elapsed \in Nat /\ waiting.timeout \in Nat \cup {Forever}
        /\ Evaluate(w) /\ script = "waiting"
    BY <1>7, <2>1 DEF WakeUp, WaitRecord
  <2>4. /\ trueSince = Forever \/ trueSince = waiting.elapsed
        /\ ~Expired(waiting)
    BY <1>0, <2>3 DEF Asleep
  <2> HIDE DEF w
  <2>5. /\ w.timeout # Forever => w.elapsed <= w.timeout
        /\ trueSince = Forever \/ w.timeout = Forever \/ trueSince + 1 = w.elapsed
    BY <2>2, <2>3, <2>4 DEF Expired
  <2> QED  BY <1>0, <2>2, <2>3, <2>5, EvaluateJust
<1> QED  BY <1>1, <1>2, <1>3, <1>5, <1>6, <1>7 DEF GroundNext

\* A wait() that gives up has missed nothing but its last step, whatever the
\* timeout is and however packets arrive between its looks (api.py 724-744).
THEOREM GivingUpIsJust == GroundSpec => []TimeoutIsJust
<1>1. GroundInit => WaitInv
  BY TypeInit DEF GroundInit, WaitInv, Asleep, TimeoutIsJust
<1>2. WaitInv /\ [GroundNext]_groundVars => WaitInv'
  BY TypeNext, WaitNext DEF WaitInv
<1>3. WaitInv => TimeoutIsJust
  BY DEF WaitInv
<1> QED  BY <1>1, <1>2, <1>3, PTL DEF GroundSpec

-----------------------------------------------------------------------------
(* The history.  A command that left is of a call that was made, and the   *)
(* one that is being recorded left in the last call, whose answer is open; *)
(* what the history had before that is then of earlier calls.              *)

SentInv == /\ \A c \in Range(sent) : c \in DOMAIN answers
           /\ script \in {"recording", "recorded"} => /\ Len(answers) \in Range(sent)
                                                    /\ answers[Len(answers)] = "none yet"
           /\ script = "recording" => Len(answers) \notin Range(history)
           /\ script = "recorded" => Len(answers) \in Range(history)

HistoryInv == TypeInv /\ SentInv /\ HistoryTellsSent

LEMMA AppendHas ==
    ASSUME NEW S, NEW q \in Seq(S), NEW x \in S
    PROVE  /\ DOMAIN Append(q, x) = DOMAIN q \cup {Len(q) + 1}
           /\ Len(q) + 1 \notin DOMAIN q
           /\ \A i \in DOMAIN q : Append(q, x)[i] = q[i]
           /\ Append(q, x)[Len(q) + 1] = x
           /\ Len(Append(q, x)) = Len(q) + 1
<1>1. /\ DOMAIN q = 1 .. Len(q) /\ Len(q) \in Nat
      /\ DOMAIN Append(q, x) = 1 .. Len(q) + 1
      /\ \A i \in 1 .. Len(q) : Append(q, x)[i] = q[i]
      /\ Append(q, x)[Len(q) + 1] = x
      /\ Len(Append(q, x)) = Len(q) + 1
  BY AppendProperties, LenProperties
<1>2. DOMAIN Append(q, x) = DOMAIN q \cup {Len(q) + 1} /\ Len(q) + 1 \notin DOMAIN q
  BY <1>1
<1> QED  BY <1>1, <1>2

LEMMA RangeOfAppend ==
    ASSUME NEW S, NEW q \in Seq(S), NEW x \in S
    PROVE  Range(Append(q, x)) = Range(q) \cup {x}
<1>1. /\ DOMAIN Append(q, x) = DOMAIN q \cup {Len(q) + 1}
      /\ Len(q) + 1 \notin DOMAIN q
      /\ \A i \in DOMAIN q : Append(q, x)[i] = q[i]
      /\ Append(q, x)[Len(q) + 1] = x
  BY AppendHas
<1> QED  BY <1>1 DEF Range

LEMMA NextCallLeft ==
    ASSUME TypeInv
    PROVE  Range(Append(sent, Len(answers) + 1)) = Range(sent) \cup {Len(answers) + 1}
<1>1. sent \in Seq(Calls) /\ answers \in Seq(Answer)
  BY DEF TypeInv, GroundTypes, Answer
<1>2. Len(sent) \in Nat /\ Len(answers) \in Nat /\ sent \in [1 .. Len(sent) -> Calls]
  BY <1>1, LenProperties
<1> DEFINE new == Len(answers) + 1
<1>3. \A i \in 1 .. Len(sent) : sent[i] \in Calls \cup {new}
  BY <1>2
<1>4. sent = [i \in 1 .. Len(sent) |-> sent[i]]
  BY <1>2
<1> HIDE DEF new
<1>5. sent \in Seq(Calls \cup {new})
  <2>1. [i \in 1 .. Len(sent) |-> sent[i]] \in Seq(Calls \cup {new})
    BY <1>2, <1>3, IsASeq
  <2> QED  BY <1>4, <2>1
<1> QED  BY <1>5, RangeOfAppend DEF new

\* A call of send() that is over, or not, as it is made.
LEMMA AnotherCall ==
    ASSUME HistoryInv, NEW a \in Answer, a # "True", answers' = Append(answers, a),
           history' = history,
           \/ sent' = sent
           \/ sent' = Append(sent, Len(answers')) /\ a = "none yet"
    PROVE  /\ HistoryTellsSent'
           /\ \A c \in Range(sent') : c \in DOMAIN answers'
           /\ Len(answers') \in DOMAIN answers' /\ answers'[Len(answers')] = a
           /\ Len(answers') \notin Range(history')
<1> DEFINE new == Len(answers) + 1
<1>1. /\ answers \in Seq(Answer) /\ sent \in Seq(Calls)
      /\ \A c \in Range(sent) : c \in DOMAIN answers
  BY DEF HistoryInv, TypeInv, GroundTypes, SentInv, Answer
<1>2. /\ DOMAIN answers' = DOMAIN answers \cup {new} /\ new \notin DOMAIN answers
      /\ \A c \in DOMAIN answers : answers'[c] = answers[c]
      /\ answers'[new] = a /\ Len(answers') = new
  <2>1. answers \in Seq(Answer) /\ a \in Answer
    BY <1>1
  <2>2. /\ DOMAIN Append(answers, a) = DOMAIN answers \cup {new}
        /\ new \notin DOMAIN answers
        /\ \A c \in DOMAIN answers : Append(answers, a)[c] = answers[c]
        /\ Append(answers, a)[new] = a
        /\ Len(Append(answers, a)) = new
    BY <2>1, AppendHas
  <2> QED  BY <2>2
<1>3. Range(sent') = Range(sent) \/ (Range(sent') = Range(sent) \cup {new} /\ a = "none yet")
  <2>1. CASE sent' = sent
    BY <2>1
  <2>2. CASE sent' = Append(sent, new) /\ a = "none yet"
    <3>1. Range(Append(sent, new)) = Range(sent) \cup {new}
      BY NextCallLeft DEF HistoryInv
    <3> QED  BY <2>2, <3>1
  <2> QED  BY <1>2, <2>1, <2>2
<1> HIDE DEF new
<1>4. /\ \A i, j \in DOMAIN history : i < j => history[i] < history[j]
      /\ Range(history) \subseteq Range(sent)
      /\ \A c \in DOMAIN answers : /\ answers[c] = "True" => c \in Range(history)
                                   /\ answers[c] = "False" => c \notin Range(sent)
  BY DEF HistoryInv, HistoryTellsSent
<1>5. Range(history) \subseteq Range(sent')
  BY <1>3, <1>4
<1>6. \A c \in DOMAIN answers' : /\ answers'[c] = "True" => c \in Range(history)
                                 /\ answers'[c] = "False" => c \notin Range(sent')
  BY <1>1, <1>2, <1>3, <1>4
<1>7. HistoryTellsSent'
  BY <1>4, <1>5, <1>6 DEF HistoryTellsSent
<1>8. new \notin Range(history')
  BY <1>1, <1>2, <1>4
<1> QED  BY <1>1, <1>2, <1>3, <1>7, <1>8

\* The record of the last call at the end of the history.
LEMMA AnotherRecord ==
    ASSUME HistoryInv, script = "recording", history' = Append(history, Len(answers))
    PROVE  /\ \A i, j \in DOMAIN history' : i < j => history'[i] < history'[j]
           /\ Range(history') = Range(history) \cup {Len(answers)}
           /\ Range(history') \subseteq Range(sent)
<1> DEFINE last == Len(answers)
<1>0. /\ TypeInv /\ SentInv /\ HistoryTellsSent
      /\ answers \in Seq(Answer) /\ sent \in Seq(Calls) /\ history \in Seq(Calls)
      /\ Len(answers) \in Nat /\ DOMAIN answers = 1 .. Len(answers)
  BY LenProperties DEF HistoryInv, TypeInv, GroundTypes, Answer
<1>1. last \in Range(sent) /\ last \notin Range(history)
  BY <1>0 DEF SentInv
<1>2. last \in DOMAIN answers /\ last \in Calls
  <2>1. last \in DOMAIN answers
    BY <1>0, <1>1 DEF SentInv
  <2>2. Len(answers) <= MaxCommands
    BY <1>0 DEF TypeInv, AnswersCounted
  <2> QED  BY <1>0, <2>1, <2>2 DEF Calls
<1>3. \A i \in DOMAIN history : history[i] < last
  <2> SUFFICES ASSUME NEW i \in DOMAIN history PROVE history[i] < last
    OBVIOUS
  <2>1. history[i] \in Range(history)
    BY DEF Range
  <2>2. history[i] \in Range(sent)
    BY <1>0, <2>1 DEF HistoryTellsSent
  <2>3. history[i] \in 1 .. Len(answers) /\ history[i] # last
    BY <1>0, <1>1, <2>1, <2>2 DEF SentInv
  <2> QED  BY <1>0, <2>3
<1>4. /\ Range(history') = Range(history) \cup {last}
      /\ DOMAIN history' = DOMAIN history \cup {Len(history) + 1}
      /\ \A i \in DOMAIN history : history'[i] = history[i]
      /\ history'[Len(history) + 1] = last
  <2>1. history \in Seq(Calls) /\ last \in Calls /\ history' = Append(history, last)
    BY <1>0, <1>2
  <2> HIDE DEF last
  <2>2. Range(Append(history, last)) = Range(history) \cup {last}
    BY <2>1, RangeOfAppend
  <2>3. /\ DOMAIN Append(history, last) = DOMAIN history \cup {Len(history) + 1}
        /\ \A i \in DOMAIN history : Append(history, last)[i] = history[i]
        /\ Append(history, last)[Len(history) + 1] = last
    BY <2>1, AppendHas
  <2> QED  BY <2>1, <2>2, <2>3
<1> HIDE DEF last
<1>5. ASSUME NEW i \in DOMAIN history', NEW j \in DOMAIN history', i < j
      PROVE  history'[i] < history'[j]
  <2>1. DOMAIN history = 1 .. Len(history) /\ Len(history) \in Nat
    BY <1>0, LenProperties
  <2>2. i \in DOMAIN history
    BY <1>4, <1>5, <2>1
  <2>3. CASE j \in DOMAIN history
    BY <1>0, <1>4, <1>5, <2>2, <2>3 DEF HistoryTellsSent
  <2>4. CASE j = Len(history) + 1
    BY <1>3, <1>4, <2>2, <2>4
  <2> QED  BY <1>4, <2>3, <2>4
<1>6. Range(history') \subseteq Range(sent)
  BY <1>0, <1>1, <1>4 DEF HistoryTellsSent
<1> QED  BY <1>4, <1>5, <1>6 DEF last

LEMMA HistoryNext == HistoryInv /\ [GroundNext]_groundVars => SentInv' /\ HistoryTellsSent'
<1> SUFFICES ASSUME HistoryInv, [GroundNext]_groundVars PROVE SentInv' /\ HistoryTellsSent'
  OBVIOUS
<1>0. /\ TypeInv /\ SentInv /\ HistoryTellsSent
      /\ answers \in Seq(Answer) /\ sent \in Seq(Calls) /\ history \in Seq(Calls)
      /\ Len(answers) \in Nat /\ DOMAIN answers = 1 .. Len(answers)
  BY LenProperties DEF HistoryInv, TypeInv, GroundTypes, Answer
<1>1. CASE SendRefused \/ SendFails
  <2>1. PICK a \in Answer : a # "True" /\ answers' = Append(answers, a)
    BY <1>1 DEF SendRefused, SendFails, Answer
  <2>2. UNCHANGED <<script, sent, history>> /\ script = "idle"
    BY <1>1 DEF SendRefused, SendFails, Calling
  <2> QED  BY <2>1, <2>2, AnotherCall DEF SentInv
<1>2. CASE SendLeaves
  <2>1. answers' = Append(answers, "none yet") /\ sent' = Append(sent, Len(answers'))
        /\ UNCHANGED history /\ "none yet" \in Answer /\ script' = "recording"
    BY <1>2 DEF SendLeaves, Answer
  <2>2. HistoryTellsSent' /\ (\A c \in Range(sent') : c \in DOMAIN answers')
        /\ answers'[Len(answers')] = "none yet" /\ Len(answers') \notin Range(history')
    BY <2>1, AnotherCall
  <2>3. Len(answers') \in Range(sent')
    <3>1. Calling
      BY <1>2 DEF SendLeaves
    <3>2. Len(answers') \in Calls
      BY <1>0, <2>1, <3>1, AnswerType
    <3>3. Range(Append(sent, Len(answers'))) = Range(sent) \cup {Len(answers')}
      <4>1. sent \in Seq(Calls)
        BY <1>0
      <4> QED  BY <3>2, <4>1, RangeOfAppend
    <3> QED  BY <2>1, <3>3
  <2> QED  BY <2>1, <2>2, <2>3 DEF SentInv
<1>3. CASE Record
  <2>1. /\ script = "recording" /\ history' = Append(history, Len(answers))
        /\ UNCHANGED <<answers, sent>> /\ script' = "recorded"
    BY <1>3 DEF Record
  <2>2. /\ \A i, j \in DOMAIN history' : i < j => history'[i] < history'[j]
        /\ Range(history') = Range(history) \cup {Len(answers)}
        /\ Range(history') \subseteq Range(sent)
    BY <2>1, AnotherRecord
  <2>3. HistoryTellsSent'
    BY <1>0, <2>1, <2>2 DEF HistoryTellsSent
  <2> QED  BY <1>0, <2>1, <2>2, <2>3 DEF SentInv
<1>4. CASE RecordFails \/ SendReturns
  <2> DEFINE last == Len(answers)
  <2>1. PICK a \in {"True", "raised"} :
           /\ answers' = [answers EXCEPT ![last] = a]
           /\ UNCHANGED sent /\ script' = "idle"
           /\ last \in Range(sent)
           /\ a = "True" => last \in Range(history) /\ UNCHANGED history
    BY <1>0, <1>4 DEF RecordFails, SendReturns, SentInv
  <2>2. /\ \A i, j \in DOMAIN history' : i < j => history'[i] < history'[j]
        /\ Range(history) \subseteq Range(history')
        /\ Range(history') \subseteq Range(sent)
    <3>1. CASE history' = history
      BY <1>0, <3>1 DEF HistoryTellsSent
    <3>2. CASE RecordFails /\ history' = Append(history, last)
      BY <3>2, AnotherRecord DEF RecordFails
    <3> QED  BY <1>4, <3>1, <3>2 DEF RecordFails, SendReturns
  <2> HIDE DEF last
  <2>3. DOMAIN answers' = DOMAIN answers
    BY <2>1
  <2>4. \A c \in DOMAIN answers : answers'[c] = IF c = last THEN a ELSE answers[c]
    BY <2>1
  <2>5. \A c \in DOMAIN answers' : /\ answers'[c] = "True" => c \in Range(history')
                                   /\ answers'[c] = "False" => c \notin Range(sent)
    BY <1>0, <2>1, <2>2, <2>3, <2>4 DEF HistoryTellsSent
  <2>6. HistoryTellsSent'
    BY <2>1, <2>2, <2>5 DEF HistoryTellsSent
  <2> QED  BY <1>0, <2>1, <2>3, <2>6 DEF SentInv
<1>5. CASE /\ UNCHANGED <<answers, sent, history>>
           /\ script' \in {"recording", "recorded"} => script' = script
  BY <1>0, <1>5 DEF SentInv, HistoryTellsSent
<1>6. ASSUME NEW w, Evaluate(w)
      PROVE  UNCHANGED <<answers, sent, history>> /\ script' \notin {"recording", "recorded"}
  BY <1>6 DEF Evaluate
<1>7. CASE WakeUp \/ (\E p \in PacketNames, m \in Modes, t \in Timeouts : Wait(p, m, t))
  BY <1>5, <1>6, <1>7 DEF WakeUp, Wait
<1>8. CASE \/ ScriptKilled \/ ScriptRestarts \/ MonitorDies \/ WaitForValue \/ Confirm
           \/ (\E p \in PacketNames, m \in Modes : Monitor(p, m)) \/ UNCHANGED groundVars
  <2>1. /\ UNCHANGED <<answers, sent, history>>
        /\ script' \in {"recording", "recorded"} => script' = script
    BY <1>8 DEF ScriptKilled, ScriptRestarts, MonitorDies, WaitForValue, Confirm, Monitor, groundVars
  <2> QED  BY <1>5, <2>1
<1> QED  BY <1>1, <1>2, <1>3, <1>4, <1>7, <1>8 DEF GroundNext

\* However sending, recording and the script itself fail, the history file has commands
\* that were sent and no others, in their order: those of every call of send() that came
\* back with True, none of a call that came back with False, which had left nothing, and
\* perhaps some of calls that raised or were killed (api.py 189-237).
THEOREM HistoryIsTrue == GroundSpec => []HistoryTellsSent
<1>1. GroundInit => HistoryInv
  <2> SUFFICES ASSUME GroundInit PROVE HistoryInv
    OBVIOUS
  <2>1. answers = <<>> /\ sent = <<>> /\ history = <<>> /\ script = "idle"
    BY DEF GroundInit
  <2>2. DOMAIN <<>> = {}
    OBVIOUS
  <2>3. Range(sent) = {} /\ Range(history) = {}
    BY <2>1, <2>2 DEF Range
  <2> QED  BY <2>1, <2>2, <2>3, TypeInit DEF HistoryInv, SentInv, HistoryTellsSent
<1>2. HistoryInv /\ [GroundNext]_groundVars => HistoryInv'
  BY TypeNext, HistoryNext DEF HistoryInv
<1>3. HistoryInv => HistoryTellsSent
  BY DEF HistoryInv
<1> QED  BY <1>1, <1>2, <1>3, PTL DEF GroundSpec

-----------------------------------------------------------------------------
(* Commands.                                                               *)

\* What a definition is.
LEMMA DefinitionIs ==
    ASSUME NEW d \in CommandDefinitions
    PROVE  /\ d.opcode \in Nat
           /\ Len(d.arguments) \in Nat
           /\ DOMAIN d.arguments = 1 .. Len(d.arguments)
           /\ \A i \in 1 .. Len(d.arguments) :
                 /\ IsArgument(d.arguments[i])
                 /\ d.arguments[i].type.nbytes \in Nat \ {0}
  <1> DEFINE S == {d.arguments[i] : i \in DOMAIN d.arguments}
  <1>1. d.opcode \in Nat /\ d.arguments \in Seq(S) /\ \A i \in DOMAIN d.arguments : IsArgument(d.arguments[i])
    BY CommandsAssumption
  <1> HIDE DEF S
  <1>2. Len(d.arguments) \in Nat /\ DOMAIN d.arguments = 1 .. Len(d.arguments)
    BY <1>1, LenProperties
  <1>3. ASSUME NEW i \in 1 .. Len(d.arguments) PROVE d.arguments[i].type.nbytes \in Nat \ {0}
    <2>1. d.arguments[i].type \in PrimitiveTypes
      BY <1>1, <1>2 DEF IsArgument
    <2> QED
      BY <2>1 DEF PrimitiveTypes
  <1> QED
    BY <1>1, <1>2, <1>3

LEMMA ArgumentsEnd ==
    ASSUME NEW d \in CommandDefinitions, NEW n, n = Len(d.arguments)
    PROVE  /\ FieldsEnd(d.arguments, 0) = 0
           /\ argsize(d) = FieldsEnd(d.arguments, n)
           /\ \A i \in 0 .. n : FieldsEnd(d.arguments, i) \in Nat
           /\ \A i \in 1 .. n : FieldsEnd(d.arguments, i) = FieldsEnd(d.arguments, i - 1) + d.arguments[i].type.nbytes
           /\ \A i \in 0 .. n : \A j \in i .. n : FieldsEnd(d.arguments, i) <= FieldsEnd(d.arguments, j)
  <1>1. n \in Nat /\ \A i \in 1 .. n : d.arguments[i].type.nbytes \in Nat
    BY DefinitionIs
  <1> QED
    BY <1>1, FieldsEndIs, FieldsEndGrows DEF argsize

-----------------------------------------------------------------------------
\* The arguments that are given, by their numbers.
Givens(d) == {i \in 1 .. Len(d.arguments) : ~d.arguments[i].fixed}

LEMMA CountedIs ==
    ASSUME NEW d \in CommandDefinitions, NEW i \in 0 .. Len(d.arguments)
    PROVE  Counted(d, i) = CountTo(Givens(d), i)
  <1>1. Len(d.arguments) \in Nat
    BY DefinitionIs
  <1>2. {j \in 1 .. i : ~d.arguments[j].fixed} = UpTo(Givens(d), i)
    BY <1>1 DEF UpTo, Givens
  <1> QED
    BY <1>2 DEF Counted, CountTo

\* The n-th that is given is found, and is the one that counts n.
LEMMA GivenIs ==
    ASSUME NEW d \in CommandDefinitions, NEW n, n = Len(d.arguments)
    PROVE  /\ Counted(d, n) \in Nat
           /\ DOMAIN Given(d) = 1 .. Counted(d, n)
           /\ Len(Given(d)) = Counted(d, n)
           /\ \A k \in 1 .. Counted(d, n) : /\ GivenAt(d, k) \in Givens(d)
                                            /\ Counted(d, GivenAt(d, k)) = k
                                            /\ Given(d)[k] = d.arguments[GivenAt(d, k)]
           /\ \A i \in Givens(d) : /\ Counted(d, i) \in 1 .. Counted(d, n)
                                   /\ GivenAt(d, Counted(d, i)) = i
  <1>1. n \in Nat /\ DOMAIN d.arguments = 1 .. n
    BY DefinitionIs
  <1>2. \A i \in 0 .. n : Counted(d, i) = CountTo(Givens(d), i)
    BY CountedIs
  <1>3. Givens(d) = {i \in 1 .. n : ~d.arguments[i].fixed}
    BY DEF Givens
  <1>4. n \in 0 .. n
    BY <1>1
  <1>5. Counted(d, n) \in Nat
    BY <1>1, <1>2, <1>4, CountGrows
  <1>6. /\ DOMAIN Given(d) = 1 .. Counted(d, n)
        /\ Len(Given(d)) = Counted(d, n)
        /\ \A k \in 1 .. Counted(d, n) : Given(d)[k] = d.arguments[GivenAt(d, k)]
    BY <1>5 DEF Given
  <1>7. ASSUME NEW k \in 1 .. Counted(d, n)
        PROVE  GivenAt(d, k) \in Givens(d) /\ Counted(d, GivenAt(d, k)) = k
    <2>1. PICK i \in Givens(d) \cap (1 .. n) : CountTo(Givens(d), i) = k
      BY <1>1, <1>2, <1>4, CountReaches
    <2>2. i \in DOMAIN d.arguments /\ ~d.arguments[i].fixed /\ Counted(d, i) = k
      BY <1>1, <1>2, <1>3, <2>1
    <2>3. GivenAt(d, k) \in DOMAIN d.arguments /\ ~d.arguments[GivenAt(d, k)].fixed /\ Counted(d, GivenAt(d, k)) = k
      BY <2>2 DEF GivenAt
    <2> QED
      BY <1>1, <1>3, <2>3
  <1>8. ASSUME NEW i \in Givens(d)
        PROVE  Counted(d, i) \in 1 .. Counted(d, n) /\ GivenAt(d, Counted(d, i)) = i
    <2>1. i \in 1 .. n /\ i \in 0 .. n
      BY <1>3
    <2>2. Counted(d, i) \in 1 .. Counted(d, n)
      BY <1>1, <1>2, <1>4, <2>1, CountBounded
    <2>3. PICK j \in Givens(d) : j = GivenAt(d, Counted(d, i)) /\ Counted(d, j) = Counted(d, i)
      BY <1>7, <2>2
    <2>4. j \in 1 .. n /\ j \in 0 .. n
      BY <1>3
    <2>5. CountTo(Givens(d), i) = CountTo(Givens(d), j)
      BY <1>2, <2>1, <2>3, <2>4
    <2>6. CountTo(Givens(d), i) \in Nat
      BY <2>1, CountGrows
    <2>7. ~(i < j) /\ ~(j < i)
      BY <2>1, <2>4, <2>5, <2>6, CountTells
    <2> QED
      BY <2>1, <2>2, <2>3, <2>4, <2>7
  <1> QED
    BY <1>5, <1>6, <1>7, <1>8

-----------------------------------------------------------------------------
(* A command that is valid.                                                *)

ValidFor(d, args) == /\ Len(Given(d)) = Len(args)
                     /\ \A i \in 1 .. Len(Given(d)) : args[i] # Missing /\ ArgumentValid(Given(d)[i], args[i])

LEMMA ValidIs ==
    ASSUME command.defn \in CommandDefinitions, Valid
    PROVE  ValidFor(command.defn, command.args)
  <1>1. Len(Given(command.defn)) \in Nat
    BY GivenIs
  <1>2. Pairs = 1 .. Len(Given(command.defn))
    BY <1>1 DEF Valid, Pairs, Upto
  <1> QED
    BY <1>2 DEF Valid, ValidFor

\* What is packed for an argument is a number, and its name is what was given.
LEMMA ValuesAre ==
    ASSUME NEW d \in CommandDefinitions, NEW args, ValidFor(d, args)
    PROVE  /\ \A i \in 1 .. Len(d.arguments) : ValueAt(d, args, i) \in Int
           /\ \A k \in 1 .. Len(Given(d)) : /\ ValueAt(d, args, GivenAt(d, k)) \in Int
                                            /\ NameOf(Given(d)[k], ValueAt(d, args, GivenAt(d, k))) = args[k]
  <1> DEFINE n == Len(d.arguments)
  <1>1. n \in Nat /\ \A i \in 1 .. n : IsArgument(d.arguments[i])
    BY DefinitionIs
  <1>2. Givens(d) = {i \in 1 .. n : ~d.arguments[i].fixed}
    BY DEF Givens
  <1>3. ASSUME NEW i \in Givens(d)
        PROVE  /\ ValueAt(d, args, i) = Primitive(d.arguments[i], args[Counted(d, i)])
               /\ Counted(d, i) \in 1 .. Len(Given(d))
               /\ ArgumentValid(d.arguments[i], args[Counted(d, i)])
    <2>1. /\ Counted(d, i) \in 1 .. Counted(d, n)
          /\ GivenAt(d, Counted(d, i)) = i /\ Len(Given(d)) = Counted(d, n)
      BY GivenIs
    <2>2. Given(d)[Counted(d, i)] = d.arguments[GivenAt(d, Counted(d, i))]
      BY <2>1, GivenIs
    <2>3. Counted(d, i) \in 1 .. Len(Given(d)) /\ Given(d)[Counted(d, i)] = d.arguments[i]
      BY <2>1, <2>2
    <2>4. ArgumentValid(d.arguments[i], args[Counted(d, i)])
      BY <2>3 DEF ValidFor
    <2> QED
      BY <1>2, <2>3, <2>4 DEF ValueAt
  <1>4. ASSUME NEW i \in 1 .. n PROVE ValueAt(d, args, i) \in Int
    <2>1. CASE d.arguments[i].fixed
      BY <1>1, <2>1 DEF IsArgument, ValueAt
    <2>2. CASE ~d.arguments[i].fixed
      <3>1. i \in Givens(d)
        BY <1>2, <2>2
      <3> QED
        BY <1>3, <3>1 DEF ArgumentValid, IsNumber
    <2> QED
      BY <2>1, <2>2
  <1>5. ASSUME NEW k \in 1 .. Len(Given(d))
        PROVE  NameOf(Given(d)[k], ValueAt(d, args, GivenAt(d, k))) = args[k]
    <2>1. PICK i \in Givens(d) : i = GivenAt(d, k) /\ Counted(d, i) = k /\ Given(d)[k] = d.arguments[i]
      BY GivenIs
    <2>2. PICK a : a = d.arguments[i] /\ IsArgument(a)
      BY <1>1, <1>2
    <2>3. ValueAt(d, args, i) = Primitive(a, args[k]) /\ ArgumentValid(a, args[k])
      BY <1>3, <2>1, <2>2
    <2>4. CASE a.enum = NoEnum
      BY <2>1, <2>2, <2>3, <2>4 DEF Primitive, Named, NameOf
    <2>5. CASE a.enum # NoEnum
      <3>1. args[k] \in DOMAIN a.enum /\ Primitive(a, args[k]) = a.enum[args[k]]
        BY <2>3, <2>5 DEF ArgumentValid, Primitive, Named
      <3>2. \A m \in DOMAIN a.enum : a.enum[m] = a.enum[args[k]] => m = args[k]
        BY <2>2, <2>5, <3>1 DEF IsArgument, IsInjective
      <3>3. NameOf(a, a.enum[args[k]]) = args[k]
        BY <2>5, <3>1, <3>2 DEF NameOf
      <3> QED
        BY <2>1, <2>2, <2>3, <3>1, <3>3
    <2> QED
      BY <2>4, <2>5
  <1>6. \A k \in 1 .. Len(Given(d)) : GivenAt(d, k) \in 1 .. n
    BY <1>2, GivenIs
  <1> HIDE DEF n
  <1> QED
    BY <1>4, <1>5, <1>6 DEF n

-----------------------------------------------------------------------------
(* The bytes of a command.                                                 *)

EncodedSize(d) == IF 2 + argsize(d) > Pad THEN 2 + argsize(d) ELSE Pad
FirstBytes(d) == SetSlice([b \in 1 .. EncodedSize(d) |-> 0], 0, 3,
                          encode(MSB_U16, d.opcode) \o <<argsize(d)>>)
ArgumentEncoded(d, args, i) == encode(d.arguments[i].type, ValueAt(d, args, i))
WithArgument(d, args, i, bytes) ==
    SetSlice(bytes, 3 + d.arguments[i].bytes[1], 3 + d.arguments[i].bytes[2] + 1, ArgumentEncoded(d, args, i))

\* f has the bytes of a command with its first arguments.
Writes(d, args, f) ==
    /\ f \in [0 .. Len(d.arguments) -> Seq(Byte)]
    /\ f[0] = FirstBytes(d)
    /\ \A i \in 1 .. Len(d.arguments) : f[i] = WithArgument(d, args, i, f[i - 1])

\* What is packed for each argument is a number.
HasNumbers(d, args) == \A i \in 1 .. Len(d.arguments) : ValueAt(d, args, i) \in Int

\* The opcode, in two bytes, and the size.
OpcodeBytes(d) == encode(MSB_U16, d.opcode)

LEMMA OpcodeIs ==
    ASSUME NEW d \in CommandDefinitions, d.opcode <= 65535
    PROVE  /\ MSB_U16 \in PrimitiveTypes
           /\ OpcodeBytes(d) \in Seq(Byte) /\ Len(OpcodeBytes(d)) = 2
           /\ decode(MSB_U16, OpcodeBytes(d)) = d.opcode
  <1>1. MSB_U16 \in PrimitiveTypes /\ MSB_U16.nbytes = 2 /\ MSB_U16.signed = FALSE
    BY DEF MSB_U16, PrimitiveType, PrimitiveTypes
  <1>2. d.opcode \in Nat
    BY DefinitionIs
  <1>3. Patterns[2] = 65536
    <2>1. Patterns[0 + 1] = 256 * Patterns[0] /\ Patterns[1 + 1] = 256 * Patterns[1]
      BY PatternsGrow
    <2> QED
      BY <2>1, PatternsGrow
  <1>4. Packs(MSB_U16, d.opcode)
    BY <1>1, <1>2, <1>3 DEF Packs
  <1>5. PICK t \in PrimitiveTypes, o \in Nat : t = MSB_U16 /\ o = d.opcode
    BY <1>1, <1>2
  <1>6. encode(t, o) \in Seq(Byte) /\ Len(encode(t, o)) = t.nbytes
    BY EncodedBytes
  <1>7. Packs(t, o)
    BY <1>4, <1>5
  <1>8. decode(t, encode(t, o)) = o
    BY <1>7, DecodesEncoded
  <1>9. OpcodeBytes(d) = encode(t, o)
    BY <1>5 DEF OpcodeBytes
  <1>10. t.nbytes = 2
    BY <1>1, <1>5
  <1>11. decode(MSB_U16, OpcodeBytes(d)) = d.opcode
    BY <1>5, <1>8, <1>9, SMT
  <1>12. OpcodeBytes(d) \in Seq(Byte) /\ Len(OpcodeBytes(d)) = 2
    BY <1>6, <1>9, <1>10, SMT
  <1> QED
    BY <1>1, <1>11, <1>12

LEMMA ThreeBytes ==
    ASSUME NEW o \in Seq(Byte), NEW s \in Seq(Byte), Len(o) = 2, Len(s) = 1
    PROVE  /\ o \o s \in Seq(Byte) /\ Len(o \o s) = 3
           /\ \A k \in 1 .. 2 : (o \o s)[k] = o[k]
  <1>1. o \o s \in Seq(Byte) /\ Len(o \o s) = Len(o) + Len(s)
    BY ConcatProperties
  <1>2. \A k \in 1 .. Len(o) + Len(s) :
             (o \o s)[k] = IF k <= Len(o) THEN o[k] ELSE s[k - Len(o)]
    BY ConcatProperties
  <1>3. \A k \in 1 .. 2 : k \in 1 .. Len(o) + Len(s) /\ k <= Len(o)
    OBVIOUS
  <1> QED
    BY <1>1, <1>2, <1>3

LEMMA SetSliceStart ==
    ASSUME NEW data \in Seq(Byte), NEW value \in Seq(Byte), Len(value) = 3
    PROVE  Replaces(data, SetSlice(data, 0, 3, value), 0, value)
  <1>1. PICK from \in Nat, to \in Nat : from = 0 /\ to = 3
    OBVIOUS
  <1>2. to = from + Len(value) /\ from <= Len(data)
    BY <1>1, LenProperties
  <1>3. Replaces(data, SetSlice(data, from, to, value), from, value)
    BY <1>2, SetSliceIs
  <1> QED
    BY <1>1, <1>3

LEMMA FirstBytesAre ==
    ASSUME NEW d \in CommandDefinitions, d.opcode <= 65535, argsize(d) <= 255
    PROVE  /\ FirstBytes(d) \in Seq(Byte)
           /\ Len(FirstBytes(d)) \in Nat
           /\ Len(FirstBytes(d)) >= 3 /\ Len(FirstBytes(d)) >= 2 + argsize(d)
           /\ \A k \in 1 .. 2 : FirstBytes(d)[k] = OpcodeBytes(d)[k]
  <1>1. argsize(d) \in Nat
    BY DefinitionIs, ArgumentsEnd
  <1>2. EncodedSize(d) \in Nat /\ EncodedSize(d) >= 2 + argsize(d)
    BY <1>1, CommandsAssumption DEF EncodedSize
  <1> DEFINE zeros == [b \in 1 .. EncodedSize(d) |-> 0]
             size == <<argsize(d)>>
             start == OpcodeBytes(d) \o size
  <1>3. zeros \in Seq(Byte) /\ Len(zeros) = EncodedSize(d)
    BY <1>2 DEF Byte
  <1>4. size \in Seq(Byte) /\ Len(size) = 1
    BY <1>1 DEF Byte
  <1>5. FirstBytes(d) = SetSlice(zeros, 0, 3, start)
    BY DEF FirstBytes, OpcodeBytes
  <1> HIDE DEF zeros, size
  <1>6. start \in Seq(Byte) /\ Len(start) = 3 /\ \A k \in 1 .. 2 : start[k] = OpcodeBytes(d)[k]
    <2>1. OpcodeBytes(d) \in Seq(Byte) /\ Len(OpcodeBytes(d)) = 2
      BY OpcodeIs
    <2> QED
      BY <1>4, <2>1, ThreeBytes
  <1> HIDE DEF start
  <1>7. Replaces(zeros, FirstBytes(d), 0, start)
    BY <1>3, <1>5, <1>6, SetSliceStart
  <1>8. Len(FirstBytes(d)) = IF 0 + Len(start) > Len(zeros) THEN 0 + Len(start) ELSE Len(zeros)
    BY <1>7 DEF Replaces
  <1>9. \A k \in 1 .. 2 : FirstBytes(d)[k] = start[k]
    <2>1. \A k \in 1 .. Len(start) : FirstBytes(d)[0 + k] = start[k]
      BY <1>7 DEF Replaces
    <2>2. \A k \in 1 .. 2 : k \in 1 .. Len(start) /\ 0 + k = k
      BY <1>6
    <2> QED
      BY <2>1, <2>2
  <1>10. FirstBytes(d) \in Seq(Byte)
    BY <1>7 DEF Replaces
  <1>11. Len(FirstBytes(d)) \in Nat /\ Len(FirstBytes(d)) >= 3 /\ Len(FirstBytes(d)) >= 2 + argsize(d)
    BY <1>1, <1>2, <1>3, <1>6, <1>8
  <1> QED
    BY <1>6, <1>9, <1>10, <1>11

LEMMA ArgumentIs ==
    ASSUME NEW d \in CommandDefinitions, NEW args, NEW i \in 1 .. Len(d.arguments),
           ValueAt(d, args, i) \in Int
    PROVE  /\ ArgumentEncoded(d, args, i) \in Seq(Byte)
           /\ Len(ArgumentEncoded(d, args, i)) = d.arguments[i].type.nbytes
           /\ 3 + d.arguments[i].bytes[1] \in Nat
           /\ 3 + d.arguments[i].bytes[2] + 1 \in Nat
           /\ \A bytes \in Seq(Byte) : WithArgument(d, args, i, bytes) \in Seq(Byte)
  <1>1. IsArgument(d.arguments[i])
    BY DefinitionIs
  <1>2. d.arguments[i].type \in PrimitiveTypes /\ d.arguments[i].bytes \in Nat \X Nat
    BY <1>1 DEF IsArgument
  <1>3. /\ ArgumentEncoded(d, args, i) \in Seq(Byte)
        /\ Len(ArgumentEncoded(d, args, i)) = d.arguments[i].type.nbytes
    BY <1>2, EncodedBytes DEF ArgumentEncoded
  <1>4. 3 + d.arguments[i].bytes[1] \in Nat /\ 3 + d.arguments[i].bytes[2] + 1 \in Nat
    <2>1. PICK first \in Nat, last \in Nat : d.arguments[i].bytes = <<first, last>>
      BY <1>2
    <2>2. 3 + first \in Nat /\ 3 + last + 1 \in Nat
      OBVIOUS
    <2> QED
      BY <2>1, <2>2
  <1> QED
    BY <1>3, <1>4, SetSliceOfBytes DEF WithArgument

\* The bytes are written argument after argument.
KeepsBytes(d, args, n) ==
    \A i \in 1 .. n : \A b \in Seq(Byte) : WithArgument(d, args, i, b) \in Seq(Byte)

LEMMA BytesWritten ==
    ASSUME NEW d \in CommandDefinitions, NEW args, NEW n \in Nat, n = Len(d.arguments),
           FirstBytes(d) \in Seq(Byte),
           KeepsBytes(d, args, n)
    PROVE  \E f : Writes(d, args, f)
  <1> DEFINE step == [x \in Nat \X Seq(Byte) |->
                         IF x[1] + 1 \in 1 .. n THEN WithArgument(d, args, x[1] + 1, x[2]) ELSE x[2]]
  <1>1. step \in [Nat \X Seq(Byte) -> Seq(Byte)]
    BY DEF KeepsBytes
  <1>2. \A i \in Nat, b \in Seq(Byte) : i + 1 \in 1 .. n => step[<<i, b>>] = WithArgument(d, args, i + 1, b)
    OBVIOUS
  <1> HIDE DEF step
  <1>3. PICK g \in [Nat -> Seq(Byte)] : Follows(g, FirstBytes(d), step)
    BY <1>1, Recursion
  <1> DEFINE f == [i \in 0 .. n |-> g[i]]
  <1>4. f \in [0 .. n -> Seq(Byte)] /\ f[0] = FirstBytes(d)
    BY <1>3 DEF Follows
  <1>5. ASSUME NEW i \in 1 .. n PROVE f[i] = WithArgument(d, args, i, f[i - 1])
    <2>1. i - 1 \in Nat /\ (i - 1) + 1 = i /\ i \in 0 .. n /\ i - 1 \in 0 .. n
      OBVIOUS
    <2>2. g[(i - 1) + 1] = step[<<i - 1, g[i - 1]>>]
      BY <1>3, <2>1 DEF Follows
    <2>3. g[i - 1] \in Seq(Byte)
      BY <1>3, <2>1
    <2>4. g[i] = WithArgument(d, args, i, g[i - 1])
      BY <1>2, <2>1, <2>2, <2>3
    <2> QED
      BY <2>1, <2>4
  <1> HIDE DEF f
  <1> QED
    BY <1>4, <1>5 DEF Writes

LEMMA EncodingIs ==
    ASSUME NEW d, NEW args, NEW n \in Nat, n = Len(d.arguments), NEW f, Writes(d, args, f)
    PROVE  Encoding(d, args) = f[n]
  <1> DEFINE body(t) == [i \in 0 .. n |-> IF i = 0 THEN FirstBytes(d) ELSE WithArgument(d, args, i, t[i - 1])]
             after == CHOOSE t : t = body(t)
  <1>1. Encoding(d, args) = after[n]
    BY DEF Encoding, FirstBytes, EncodedSize, WithArgument, ArgumentEncoded
  <1>2. f = [i \in 0 .. n |-> f[i]] /\ f[0] = FirstBytes(d)
    BY DEF Writes
  <1>3. \A i \in 1 .. n : f[i] = WithArgument(d, args, i, f[i - 1])
    BY DEF Writes
  <1>4. ASSUME NEW i \in 0 .. n
        PROVE  f[i] = IF i = 0 THEN FirstBytes(d) ELSE WithArgument(d, args, i, f[i - 1])
    <2>1. CASE i = 0
      BY <1>2, <2>1
    <2>2. CASE i # 0
      <3>1. i \in 1 .. n
        BY <2>2
      <3> QED
        BY <1>3, <2>2, <3>1
    <2> QED
      BY <2>1, <2>2
  <1>5. f = body(f)
    BY <1>2, <1>4
  <1>6. after = body(after)
    <2> HIDE DEF body
    <2> QED
      BY <1>5
  <1> HIDE DEF after
  <1>7. after[0] = FirstBytes(d)
    BY <1>6
  <1>8. \A i \in Nat : i + 1 <= n => after[i + 1] = WithArgument(d, args, i + 1, after[i])
    <2> TAKE i \in Nat
    <2> HAVE i + 1 <= n
    <2>1. i + 1 \in 0 .. n /\ (i + 1) - 1 = i /\ i + 1 # 0
      OBVIOUS
    <2> QED
      BY <1>6, <2>1
  <1> HIDE DEF body
  <1> DEFINE T == {i \in Nat : i <= n => after[i] = f[i]}
  <1>9. 0 \in T
    BY <1>2, <1>7
  <1>10. ASSUME NEW i \in Nat, i \in T PROVE i + 1 \in T
    <2>1. CASE i + 1 <= n
      <3>1. i + 1 \in 1 .. n /\ (i + 1) - 1 = i /\ i <= n
        BY <2>1
      <3>2. f[i + 1] = WithArgument(d, args, i + 1, f[i])
        BY <1>3, <3>1
      <3> QED
        BY <1>8, <1>10, <2>1, <3>1, <3>2
    <2>2. CASE ~(i + 1 <= n)
      BY <2>2
    <2> QED
      BY <2>1, <2>2
  <1> HIDE DEF T
  <1>11. \A i \in Nat : i \in T
    BY <1>9, <1>10, SetInduction
  <1>12. after[n] = f[n]
    BY <1>11 DEF T
  <1> QED
    BY <1>1, <1>12

LEMMA EncodingWrites ==
    ASSUME NEW d \in CommandDefinitions, NEW args,
           d.opcode <= 65535, argsize(d) <= 255,
           HasNumbers(d, args)
    PROVE  \E f : Writes(d, args, f) /\ Encoding(d, args) = f[Len(d.arguments)]
  <1>1. PICK n \in Nat : n = Len(d.arguments)
    BY DefinitionIs
  <1>2. KeepsBytes(d, args, n)
    BY <1>1, ArgumentIs DEF KeepsBytes, HasNumbers
  <1>3. FirstBytes(d) \in Seq(Byte)
    BY FirstBytesAre
  <1>4. PICK f : Writes(d, args, f)
    BY <1>1, <1>2, <1>3, BytesWritten
  <1> QED
    BY <1>1, <1>4, EncodingIs

-----------------------------------------------------------------------------
(* Arguments that follow each other stay where they were written.          *)

At(d, i, bytes) == Slice(bytes, 3 + FieldsEnd(d.arguments, i - 1), 3 + FieldsEnd(d.arguments, i))

HasWritten(d, args, bytes, i) ==
    /\ bytes \in Seq(Byte)
    /\ Len(bytes) >= 2 + argsize(d)
    /\ Len(bytes) >= 3 + FieldsEnd(d.arguments, i)
    /\ \A k \in 1 .. 2 : bytes[k] = OpcodeBytes(d)[k]
    /\ \A j \in 1 .. i : At(d, j, bytes) = ArgumentEncoded(d, args, j)

LEMMA WrittenMore ==
    ASSUME NEW d \in CommandDefinitions, NEW args, Contiguous(d),
           NEW i \in 1 .. Len(d.arguments), ValueAt(d, args, i) \in Int,
           NEW bytes, HasWritten(d, args, bytes, i - 1)
    PROVE  HasWritten(d, args, WithArgument(d, args, i, bytes), i)
  <1> DEFINE end(j) == FieldsEnd(d.arguments, j)
             value == ArgumentEncoded(d, args, i)
             new == WithArgument(d, args, i, bytes)
             n == Len(d.arguments)
  <1>1. n \in Nat /\ DOMAIN d.arguments = 1 .. n /\ d.arguments[i].type.nbytes \in Nat \ {0}
    BY DefinitionIs
  <1>2. /\ argsize(d) = end(n)
        /\ \A j \in 0 .. n : end(j) \in Nat
        /\ end(i) = end(i - 1) + d.arguments[i].type.nbytes
        /\ \A j \in 0 .. n : \A k \in j .. n : end(j) <= end(k)
    BY ArgumentsEnd
  <1>3. i \in 0 .. n /\ i - 1 \in 0 .. n /\ n \in i .. n
    BY <1>1
  <1> HIDE DEF end
  <1>4. PICK from \in Nat, to \in Nat : from = end(i - 1) /\ to = end(i)
    BY <1>2, <1>3
  <1>5. to <= argsize(d) /\ argsize(d) \in Nat /\ from < to /\ to = from + d.arguments[i].type.nbytes
    <2>1. n \in 0 .. n
      BY <1>1
    <2>2. end(i) <= end(n) /\ end(n) \in Nat
      BY <1>2, <1>3, <2>1
    <2> QED
      BY <1>1, <1>2, <1>4, <2>2
  <1>6. /\ value \in Seq(Byte) /\ Len(value) = d.arguments[i].type.nbytes
        /\ Len(value) \in Nat /\ (3 + from) + Len(value) = 3 + to
    <2>1. value \in Seq(Byte) /\ Len(value) = d.arguments[i].type.nbytes
      BY ArgumentIs
    <2> HIDE DEF value
    <2>2. Len(value) \in Nat
      BY <2>1, LenProperties
    <2>3. to = from + Len(value)
      BY <1>5, <2>1
    <2>4. (3 + from) + Len(value) = 3 + to
      BY <2>2, <2>3
    <2> QED
      BY <2>1, <2>2, <2>4
  <1>7. 3 + d.arguments[i].bytes[1] = 3 + from /\ 3 + d.arguments[i].bytes[2] + 1 = 3 + to
    <2>1. /\ d.arguments[i].bytes[1] = end(i - 1)
          /\ d.arguments[i].bytes[2] + 1 = d.arguments[i].bytes[1] + d.arguments[i].type.nbytes
      BY <1>1 DEF Contiguous, end
    <2>2. d.arguments[i].bytes \in Nat \X Nat
      BY DefinitionIs DEF IsArgument
    <2>3. PICK b \in Nat, e \in Nat : b = d.arguments[i].bytes[1] /\ e = d.arguments[i].bytes[2]
      BY <2>2
    <2>4. b = from /\ e + 1 = to
      BY <1>4, <1>5, <2>1, <2>3
    <2>5. 3 + b = 3 + from /\ 3 + e + 1 = 3 + to
      BY <2>4
    <2> QED
      BY <2>3, <2>5, Zenon
  <1>8. /\ bytes \in Seq(Byte) /\ Len(bytes) >= 2 + argsize(d) /\ Len(bytes) >= 3 + from
        /\ \A k \in 1 .. 2 : bytes[k] = OpcodeBytes(d)[k]
        /\ \A j \in 1 .. i - 1 : At(d, j, bytes) = ArgumentEncoded(d, args, j)
    BY <1>4 DEF HasWritten, end
  <1>9. Len(bytes) \in Nat
    BY <1>8, LenProperties
  <1>10. new = SetSlice(bytes, 3 + from, 3 + to, value)
    BY <1>7 DEF WithArgument
  <1> HIDE DEF new, value
  <1>11. Replaces(bytes, new, 3 + from, value)
    <2>1. 3 + from \in Nat /\ 3 + to \in Nat /\ 3 + to = (3 + from) + Len(value) /\ 3 + from <= Len(bytes)
      BY <1>6, <1>8
    <2> QED
      BY <1>6, <1>8, <1>10, <2>1, SetSliceIs
  <1>12. new \in Seq(Byte) /\ Len(new) >= Len(bytes) /\ Len(new) >= 3 + to
    <2>1. Len(new) = IF (3 + from) + Len(value) > Len(bytes) THEN (3 + from) + Len(value) ELSE Len(bytes)
      BY <1>11 DEF Replaces
    <2>2. (3 + from) + Len(value) = 3 + to
      BY <1>6
    <2>3. new \in Seq(Byte)
      BY <1>11 DEF Replaces
    <2> QED
      BY <1>9, <2>1, <2>2, <2>3
  <1>13. Len(new) \in Nat
    BY <1>12, LenProperties
  <1>14. ASSUME NEW k \in 1 .. 2 PROVE new[k] = OpcodeBytes(d)[k]
    <2>1. k \in 1 .. Len(bytes) /\ k <= 3 + from
      BY <1>8, <1>9
    <2>2. new[k] = bytes[k]
      BY <1>11, <2>1 DEF Replaces
    <2> QED
      BY <1>8, <2>2
  <1>15. ASSUME NEW j \in 1 .. i PROVE At(d, j, new) = ArgumentEncoded(d, args, j)
    <2>1. CASE j = i
      <3>1. At(d, i, new) = Slice(new, 3 + from, (3 + from) + Len(value))
        <4>1. (3 + from) + Len(value) = 3 + to
          BY <1>6
        <4> QED
          BY <1>4, <4>1 DEF At, end
      <3>2. Slice(new, 3 + from, (3 + from) + Len(value)) = value
        <4>1. 3 + from \in Nat
          OBVIOUS
        <4> QED
          BY <1>6, <1>8, <1>11, <4>1, SliceOfReplaced
      <3> QED
        BY <2>1, <3>1, <3>2 DEF value
    <2>2. CASE j # i
      <3>1. j \in 1 .. i - 1 /\ j \in 0 .. n /\ j - 1 \in 0 .. n /\ j \in j - 1 .. n /\ i - 1 \in j .. n
        BY <1>1, <2>2
      <3>2. PICK first \in Nat, last \in Nat : first = end(j - 1) /\ last = end(j)
        BY <1>2, <3>1
      <3>3. first <= last /\ last <= from
        BY <1>2, <1>3, <1>4, <3>1, <3>2
      <3>4. At(d, j, new) = Slice(new, 3 + first, 3 + last) /\ At(d, j, bytes) = Slice(bytes, 3 + first, 3 + last)
        BY <3>2 DEF At, end
      <3>5. Slice(new, 3 + first, 3 + last) = Slice(bytes, 3 + first, 3 + last)
        <4>1. /\ 3 + first \in Nat /\ 3 + last \in Nat /\ 3 + first <= 3 + last /\ 3 + from \in Nat
              /\ 3 + last <= Len(bytes) /\ 3 + last <= 3 + from
          BY <1>8, <1>9, <3>3
        <4> QED
          BY <1>6, <1>8, <1>11, <4>1, SliceBesideReplaced
      <3> QED
        BY <1>8, <3>1, <3>4, <3>5
    <2> QED
      BY <2>1, <2>2
  <1>16. Len(new) >= 2 + argsize(d)
    BY <1>5, <1>8, <1>9, <1>12, <1>13
  <1> QED
    BY <1>4, <1>12, <1>14, <1>15, <1>16 DEF HasWritten, end, new

LEMMA EncodingWritten ==
    ASSUME NEW d \in CommandDefinitions, NEW args, Contiguous(d),
           d.opcode <= 65535, argsize(d) <= 255,
           HasNumbers(d, args)
    PROVE  HasWritten(d, args, Encoding(d, args), Len(d.arguments))
  <1>2. PICK n \in Nat : n = Len(d.arguments)
    BY DefinitionIs
  <1>1. PICK f : Writes(d, args, f) /\ Encoding(d, args) = f[n]
    BY <1>2, EncodingWrites
  <1> DEFINE T == {i \in 0 .. n : HasWritten(d, args, f[i], i)}
  <1>3. 0 \in T
    <2>1. f[0] = FirstBytes(d)
      BY <1>1 DEF Writes
    <2>2. FieldsEnd(d.arguments, 0) = 0
      BY <1>2, ArgumentsEnd, SMT
    <2>3. HasWritten(d, args, FirstBytes(d), 0)
      BY <2>2, FirstBytesAre DEF HasWritten
    <2> QED
      BY <1>2, <2>1, <2>3
  <1>4. ASSUME NEW i \in 0 .. n - 1, i \in T PROVE i + 1 \in T
    <2>1. i + 1 \in 1 .. n /\ (i + 1) - 1 = i
      BY <1>2
    <2>2. f[i + 1] = WithArgument(d, args, i + 1, f[i])
      <3>1. \A k \in 1 .. n : f[k] = WithArgument(d, args, k, f[k - 1])
        BY <1>1, <1>2, SMT DEF Writes
      <3> QED
        BY <2>1, <3>1, SMT
    <2>3. ValueAt(d, args, i + 1) \in Int
      BY <1>2, <2>1 DEF HasNumbers
    <2>4. HasWritten(d, args, f[i], i)
      BY <1>4
    <2>5. PICK k \in 1 .. n : k = i + 1 /\ k - 1 = i
      BY <2>1
    <2> HIDE DEF T
    <2>6. HasWritten(d, args, WithArgument(d, args, k, f[i]), k)
      BY <1>2, <2>3, <2>4, <2>5, WrittenMore
    <2> QED
      BY <2>1, <2>2, <2>5, <2>6 DEF T
  <1> HIDE DEF T
  <1>5. \A i \in 0 .. n : i \in T
    BY <1>3, <1>4, BoundedInduction, SMT
  <1>6. n \in 0 .. n
    BY <1>2, SMT
  <1> QED
    BY <1>1, <1>2, <1>5, <1>6, SMT DEF T

\* A command whose arguments follow each other is decoded as it was encoded.
LEMMA OpcodeArrives ==
    ASSUME NEW d \in CommandDefinitions, NEW args, Contiguous(d), ValidFor(d, args),
           ~EncodeRaises(d, args)
    PROVE  /\ HasWritten(d, args, Encoding(d, args), Len(d.arguments))
           /\ decode(MSB_U16, SubSeq(Encoding(d, args), 1, 2)) = d.opcode
  <1>1. PICK n \in Nat : n = Len(d.arguments)
    BY DefinitionIs
  <1>2. d.opcode <= 65535 /\ argsize(d) <= 255
    <2>1. d.opcode \in Nat /\ argsize(d) \in Nat
      BY <1>1, DefinitionIs, ArgumentsEnd
    <2>2. ~(d.opcode > 65535) /\ ~(argsize(d) > 255)
      BY DEF EncodeRaises
    <2> QED
      BY <2>1, <2>2
  <1>3. HasNumbers(d, args)
    BY ValuesAre DEF HasNumbers
  <1>4. PICK e : e = Encoding(d, args) /\ HasWritten(d, args, e, n)
    BY <1>1, <1>2, <1>3, EncodingWritten
  <1>5. /\ e \in Seq(Byte) /\ Len(e) >= 3
        /\ \A k \in 1 .. 2 : e[k] = OpcodeBytes(d)[k]
    <2>1. e \in Seq(Byte) /\ Len(e) >= 3 + FieldsEnd(d.arguments, n) /\ \A k \in 1 .. 2 : e[k] = OpcodeBytes(d)[k]
      BY <1>4 DEF HasWritten
    <2>2. FieldsEnd(d.arguments, n) \in Nat /\ Len(e) \in Nat
      BY <1>1, <2>1, ArgumentsEnd, LenProperties
    <2> QED
      BY <2>1, <2>2
  <1>6. PICK one \in Nat, two \in Nat : one = 1 /\ two = 2
    OBVIOUS
  <1>7. /\ SubSeq(e, one, two) \in Seq(Byte)
        /\ Len(SubSeq(e, one, two)) = 2
        /\ \A k \in 1 .. 2 : SubSeq(e, one, two)[k] = e[k]
    <2>1. Len(e) \in Nat /\ two <= Len(e) /\ two \in Int /\ 1 <= one
      BY <1>5, <1>6, LenProperties
    <2>2. /\ SubSeq(e, one, two) \in Seq(Byte)
          /\ Len(SubSeq(e, one, two)) = IF one <= two THEN two - one + 1 ELSE 0
          /\ \A k \in 1 .. two - one + 1 : SubSeq(e, one, two)[k] = e[one + k - 1]
      BY <1>5, <2>1, PartOf
    <2>3. two - one + 1 = 2 /\ one <= two /\ \A k \in 1 .. 2 : one + k - 1 = k
      BY <1>6
    <2> QED
      BY <2>2, <2>3
  <1>8. OpcodeBytes(d) \in Seq(Byte) /\ Len(OpcodeBytes(d)) = 2 /\ decode(MSB_U16, OpcodeBytes(d)) = d.opcode
    BY <1>2, OpcodeIs
  <1>9. SubSeq(e, one, two) = OpcodeBytes(d)
    <2>1. \A k \in 1 .. 2 : SubSeq(e, one, two)[k] = OpcodeBytes(d)[k]
      BY <1>5, <1>7
    <2> QED
      BY <1>7, <1>8, <2>1, SeqEqual
  <1> QED
    BY <1>1, <1>4, <1>6, <1>8, <1>9

LEMMA ArgumentsArrive ==
    ASSUME NEW d \in CommandDefinitions, NEW V, NEW args \in Seq(V), ValidFor(d, args),
           ~EncodeRaises(d, args),
           NEW bytes, HasWritten(d, args, bytes, Len(d.arguments))
    PROVE  DecodedArguments(d, bytes) = args
  <1>1. PICK n \in Nat : n = Len(d.arguments) /\ DOMAIN d.arguments = 1 .. n
    BY DefinitionIs
  <1>2. PICK m \in Nat : /\ m = Len(Given(d)) /\ DOMAIN Given(d) = 1 .. m
                         /\ \A k \in 1 .. m : /\ GivenAt(d, k) \in Givens(d)
                                              /\ Given(d)[k] = d.arguments[GivenAt(d, k)]
    BY <1>1, GivenIs
  <1>3. args = [k \in 1 .. m |-> args[k]]
    <2>1. Len(args) = m
      BY <1>2 DEF ValidFor
    <2> QED
      BY <2>1, LenProperties
  <1>4. ASSUME NEW k \in 1 .. m
        PROVE  NameOf(Given(d)[k], decode(Given(d)[k].type, ArgumentBytes(d, GivenAt(d, k), bytes))) = args[k]
    <2>1. PICK i \in 1 .. n : i = GivenAt(d, k)
      BY <1>1, <1>2 DEF Givens
    <2>2. ValueAt(d, args, i) \in Int /\ NameOf(Given(d)[k], ValueAt(d, args, i)) = args[k]
      BY <1>2, <2>1, ValuesAre
    <2>3. d.arguments[i].type \in PrimitiveTypes /\ Packs(d.arguments[i].type, ValueAt(d, args, i))
      BY <1>1, DefinitionIs DEF IsArgument, EncodeRaises
    <2>4. decode(d.arguments[i].type, encode(d.arguments[i].type, ValueAt(d, args, i))) = ValueAt(d, args, i)
      BY <2>2, <2>3, DecodesEncoded
    <2>5. At(d, i, bytes) = encode(d.arguments[i].type, ValueAt(d, args, i))
      BY <1>1 DEF HasWritten, ArgumentEncoded
    <2>6. ArgumentBytes(d, i, bytes) = At(d, i, bytes)
      <3>1. /\ FieldsEnd(d.arguments, i) = FieldsEnd(d.arguments, i - 1) + d.arguments[i].type.nbytes
            /\ FieldsEnd(d.arguments, i - 1) \in Nat /\ d.arguments[i].type.nbytes \in Nat
        <4>1. i - 1 \in 0 .. n
          OBVIOUS
        <4> QED
          BY <1>1, <4>1, ArgumentsEnd, DefinitionIs
      <3>2. 3 + FieldsEnd(d.arguments, i) = Begins(d, i) + d.arguments[i].type.nbytes
        BY <3>1 DEF Begins
      <3> QED
        BY <3>2 DEF ArgumentBytes, At, Begins
    <2>7. Given(d)[k] = d.arguments[i]
      BY <1>2, <2>1
    <2> QED
      BY <2>1, <2>2, <2>4, <2>5, <2>6, <2>7
  <1>5. DecodedArguments(d, bytes) = [k \in 1 .. m |-> args[k]]
    BY <1>2, <1>4 DEF DecodedArguments
  <1> QED
    BY <1>3, <1>5

-----------------------------------------------------------------------------
(* The dictionary and the command on its way.                              *)

\* The definitions are known by name, by opcode, and by both as long as none was refused.
DictionarySound ==
    /\ \A n \in DOMAIN cmddict : cmddict[n] \in CommandDefinitions /\ cmddict[n].name = n
    /\ \A o \in DOMAIN opcodes : opcodes[o] \in CommandDefinitions /\ opcodes[o].opcode = o
    /\ refused \in BOOLEAN
    /\ ~refused => \A n \in DOMAIN cmddict : /\ cmddict[n].opcode \in DOMAIN opcodes
                                             /\ opcodes[cmddict[n].opcode] = cmddict[n]

\* A command has a definition of the dictionary, was found valid before it is encoded,
\* and is encoded as what it is.
CommandSound ==
    /\ command.defn \in CommandDefinitions
    /\ command.args \in Seq(ArgumentValues \cup {Missing})
    /\ stage # "none" => \E n \in DOMAIN cmddict : command.defn = cmddict[n]
    /\ stage \in {"valid", "encoded"} => ValidFor(command.defn, command.args)
    /\ stage = "encoded" => /\ ~EncodeRaises(command.defn, command.args)
                            /\ encoded = Encoding(command.defn, command.args)

CommandsBounded == /\ added \in 0 .. MaxDefined /\ created \in 0 .. MaxCreated
                   /\ stage \in {"none", "created", "valid", "invalid", "encoded", "raised", "decoded"}
                   /\ encoded \in Seq(Byte)

CommandsInv == DictionarySound /\ CommandSound /\ CommandsBounded /\ CommandsArrive

LEMMA CommandsStart == CommandsInit => CommandsInv
  <1> SUFFICES ASSUME CommandsInit PROVE CommandsInv
    OBVIOUS
  <1> USE DEF CommandsInit
  <1>1. DictionarySound
    <2>1. \A n : n \notin DOMAIN cmddict /\ n \notin DOMAIN opcodes
      <3>1. DOMAIN << >> = 1 .. 0 /\ 1 .. 0 = {}
        OBVIOUS
      <3> QED
        BY <3>1
    <2> QED
      BY <2>1 DEF DictionarySound
  <1>2. CommandSound
    <2>1. NoCommand.defn \in CommandDefinitions
      BY CommandsAssumption DEF NoCommand
    <2> QED
      BY <2>1 DEF CommandSound, NoCommand
  <1>3. CommandsBounded
    BY CommandsAssumption DEF CommandsBounded
  <1>4. CommandsArrive
    BY DEF CommandsArrive
  <1> QED
    BY <1>1, <1>2, <1>3, <1>4 DEF CommandsInv

LEMMA DefineStep ==
    ASSUME CommandsInv, NEW d \in CommandDefinitions, Define(d)
    PROVE  CommandsInv'
  <1> USE DEF CommandsInv
  <1>1. /\ cmddict' = With(cmddict, d.name, d) /\ d.name \notin DOMAIN cmddict
        /\ DOMAIN cmddict' = DOMAIN cmddict \cup {d.name}
        /\ cmddict'[d.name] = d
        /\ \A n \in DOMAIN cmddict : cmddict'[n] = cmddict[n]
    BY DEF Define, With
  <1>2. UNCHANGED <<created, command, stage, encoded, arrived>> /\ stage \in {"none", "decoded"}
    BY DEF Define
  <1>3. \/ refused' = TRUE /\ opcodes' = opcodes
        \/ /\ refused' = refused /\ d.opcode \notin DOMAIN opcodes
           /\ DOMAIN opcodes' = DOMAIN opcodes \cup {d.opcode}
           /\ opcodes'[d.opcode] = d
           /\ \A o \in DOMAIN opcodes : opcodes'[o] = opcodes[o]
    BY DEF Define, With
  <1>4. DictionarySound'
    <2>1. CASE refused' = TRUE /\ opcodes' = opcodes
      BY <1>1, <2>1 DEF DictionarySound
    <2>2. CASE /\ refused' = refused /\ d.opcode \notin DOMAIN opcodes
               /\ DOMAIN opcodes' = DOMAIN opcodes \cup {d.opcode}
               /\ opcodes'[d.opcode] = d
               /\ \A o \in DOMAIN opcodes : opcodes'[o] = opcodes[o]
      BY <1>1, <2>2 DEF DictionarySound
    <2> QED
      BY <1>3, <2>1, <2>2
  <1>5. CommandSound'
    BY <1>1, <1>2 DEF CommandSound
  <1>6. CommandsBounded'
    <2>1. added' \in 0 .. MaxDefined
      BY CommandsAssumption DEF Define, CommandsBounded
    <2> QED
      BY <1>2, <2>1 DEF CommandsBounded
  <1>7. CommandsArrive'
    <2>1. ~refused' => ~refused
      BY <1>3
    <2> QED
      BY <1>2, <2>1 DEF CommandsArrive
  <1> QED
    BY <1>4, <1>5, <1>6, <1>7

LEMMA DefineAgainStep ==
    ASSUME CommandsInv, NEW d \in CommandDefinitions, DefineAgain(d)
    PROVE  CommandsInv'
  <1> USE DEF CommandsInv
  <1>1. /\ refused' = TRUE /\ stage \in {"none", "decoded"}
        /\ UNCHANGED <<cmddict, opcodes, created, command, stage, encoded, arrived>>
    BY DEF DefineAgain
  <1>2. added' \in 0 .. MaxDefined
    BY CommandsAssumption DEF DefineAgain, CommandsBounded
  <1>3. DictionarySound' /\ CommandSound' /\ CommandsBounded' /\ CommandsArrive'
    BY <1>1, <1>2 DEF DictionarySound, CommandSound, CommandsBounded, CommandsArrive
  <1> QED
    BY <1>3

LEMMA CreateStep ==
    ASSUME CommandsInv, NEW n \in DOMAIN cmddict, NEW args \in Seq(ArgumentValues \cup {Missing}),
           NEW unrecognized, Create(n, args, unrecognized)
    PROVE  CommandsInv'
  <1> USE DEF CommandsInv
  <1>1. /\ command'.defn = cmddict[n] /\ command'.args = args /\ stage' = "created" /\ encoded' = <<>>
        /\ UNCHANGED <<cmddict, opcodes, refused, added>>
    BY DEF Create
  <1>2. created' \in 0 .. MaxCreated
    BY CommandsAssumption DEF Create, CommandsBounded
  <1>3. cmddict[n] \in CommandDefinitions
    BY DEF DictionarySound
  <1>4. DictionarySound'
    BY <1>1 DEF DictionarySound
  <1>5. CommandSound'
    BY <1>1, <1>3 DEF CommandSound
  <1>6. CommandsBounded'
    BY <1>1, <1>2 DEF CommandsBounded
  <1>7. CommandsArrive'
    BY <1>1 DEF CommandsArrive
  <1> QED
    BY <1>4, <1>5, <1>6, <1>7

LEMMA ValidateStep ==
    ASSUME CommandsInv, Validate
    PROVE  CommandsInv'
  <1> USE DEF CommandsInv
  <1>1. /\ UNCHANGED <<cmddict, opcodes, refused, added, created, command, encoded, arrived>>
        /\ stage = "created" /\ stage' \in {"raised", "valid", "invalid"}
        /\ stage' = "valid" => Valid
    BY DEF Validate
  <1>2. stage' = "valid" => ValidFor(command.defn, command.args)
    BY <1>1, ValidIs DEF CommandSound
  <1>3. DictionarySound'
    BY <1>1 DEF DictionarySound
  <1>4. CommandSound'
    BY <1>1, <1>2 DEF CommandSound
  <1>5. CommandsBounded' /\ CommandsArrive'
    BY <1>1 DEF CommandsBounded, CommandsArrive
  <1> QED
    BY <1>3, <1>4, <1>5

LEMMA EncodeStep ==
    ASSUME CommandsInv, Encode
    PROVE  CommandsInv'
  <1> USE DEF CommandsInv
  <1> DEFINE d == command.defn
             args == command.args
  <1>1. /\ UNCHANGED <<cmddict, opcodes, refused, added, created, command, arrived>>
        /\ stage = "valid"
        /\ \/ EncodeRaises(d, args) /\ stage' = "raised" /\ encoded' = encoded
           \/ ~EncodeRaises(d, args) /\ stage' = "encoded" /\ encoded' = Encoding(d, args)
    BY DEF Encode
  <1>2. d \in CommandDefinitions /\ ValidFor(d, args)
    BY <1>1 DEF CommandSound
  <1>3. encoded' \in Seq(Byte)
    <2>1. CASE encoded' = encoded
      BY <2>1 DEF CommandsBounded
    <2>2. CASE ~EncodeRaises(d, args) /\ encoded' = Encoding(d, args)
      <3>1. d.opcode <= 65535 /\ argsize(d) <= 255
        <4>1. d.opcode \in Nat /\ argsize(d) \in Nat
          BY <1>2, DefinitionIs, ArgumentsEnd
        <4>2. ~(d.opcode > 65535) /\ ~(argsize(d) > 255)
          BY <2>2 DEF EncodeRaises
        <4> QED
          BY <4>1, <4>2
      <3>2. HasNumbers(d, args)
        BY <1>2, ValuesAre DEF HasNumbers
      <3>3. PICK f : Writes(d, args, f) /\ Encoding(d, args) = f[Len(d.arguments)]
        BY <1>2, <3>1, <3>2, EncodingWrites
      <3>4. Len(d.arguments) \in 0 .. Len(d.arguments)
        BY <1>2, DefinitionIs
      <3> QED
        BY <2>2, <3>3, <3>4 DEF Writes
    <2> QED
      BY <1>1, <2>1, <2>2
  <1>4. DictionarySound'
    BY <1>1 DEF DictionarySound
  <1>5. CommandSound'
    BY <1>1 DEF CommandSound
  <1>6. CommandsBounded'
    BY <1>1, <1>3 DEF CommandsBounded
  <1>7. CommandsArrive'
    BY <1>1 DEF CommandsArrive
  <1> QED
    BY <1>4, <1>5, <1>6, <1>7

LEMMA DecodeStep ==
    ASSUME CommandsInv, Decode
    PROVE  CommandsInv'
  <1> USE DEF CommandsInv
  <1> DEFINE opcode == decode(MSB_U16, SubSeq(encoded, 1, 2))
  <1>1. /\ UNCHANGED <<cmddict, opcodes, refused, added, created, command, encoded>>
        /\ stage = "encoded" /\ stage' \in {"decoded", "raised"}
        /\ stage' = "decoded" =>
              arrived' = [name |-> opcodes[opcode].name, args |-> DecodedArguments(opcodes[opcode], encoded)]
    BY DEF Decode
  <1>2. PICK d \in CommandDefinitions, args \in Seq(ArgumentValues \cup {Missing}) :
           d = command.defn /\ args = command.args
    BY DEF CommandSound
  <1>3. /\ ValidFor(d, args) /\ ~EncodeRaises(d, args) /\ encoded = Encoding(d, args)
        /\ \E n \in DOMAIN cmddict : d = cmddict[n]
    BY <1>1, <1>2 DEF CommandSound
  <1>4. ASSUME stage' = "decoded", ~refused, Contiguous(d)
        PROVE  arrived' = [name |-> d.name, args |-> args]
    <2>1. HasWritten(d, args, encoded, Len(d.arguments)) /\ opcode = d.opcode
      BY <1>3, <1>4, OpcodeArrives
    <2>2. opcodes[d.opcode] = d
      BY <1>3, <1>4 DEF DictionarySound
    <2>3. DecodedArguments(d, encoded) = args
      BY <1>3, <2>1, ArgumentsArrive
    <2> QED
      BY <1>1, <1>4, <2>1, <2>2, <2>3
  <1>5. CommandsArrive'
    BY <1>1, <1>2, <1>4 DEF CommandsArrive
  <1>6. DictionarySound' /\ CommandSound' /\ CommandsBounded'
    BY <1>1 DEF DictionarySound, CommandSound, CommandsBounded
  <1> QED
    BY <1>5, <1>6

LEMMA CommandsStep == CommandsInv /\ [CommandsNext]_commandVars => CommandsInv'
  <1> SUFFICES ASSUME CommandsInv, [CommandsNext]_commandVars PROVE CommandsInv'
    OBVIOUS
  <1>1. ASSUME NEW d \in CommandDefinitions, Define(d) \/ DefineAgain(d) PROVE CommandsInv'
    BY <1>1, DefineStep, DefineAgainStep
  <1>2. ASSUME NEW d \in DOMAIN cmddict, NEW n \in {Len(Given(cmddict[d])), Len(Given(cmddict[d])) + 1},
               NEW args \in [1 .. n -> ArgumentValues], CreatePositional(d, args)
        PROVE  CommandsInv'
    <2>1. cmddict[d] \in CommandDefinitions
      BY DEF CommandsInv, DictionarySound
    <2>2. n \in Nat
      BY <2>1, GivenIs
    <2>3. args \in Seq(ArgumentValues \cup {Missing})
      BY <2>2
    <2> QED
      BY <1>2, <2>3, CreateStep DEF CreatePositional
  <1>3. ASSUME NEW d \in DOMAIN cmddict, NEW names, NEW keywords \in [names -> ArgumentValues],
               CreateKeywords(d, keywords)
        PROVE  CommandsInv'
    <2> DEFINE given == Given(cmddict[d])
               args == [i \in DOMAIN given |-> IF given[i].name \in DOMAIN keywords
                                               THEN keywords[given[i].name] ELSE Missing]
    <2>1. cmddict[d] \in CommandDefinitions
      BY DEF CommandsInv, DictionarySound
    <2>2. PICK n \in Nat : DOMAIN given = 1 .. n
      BY <2>1, GivenIs
    <2>3. args \in Seq(ArgumentValues \cup {Missing})
      <3> HIDE DEF given
      <3> QED
        BY <2>2
    <2>4. \E unrecognized : Create(d, args, unrecognized)
      BY <1>3 DEF CreateKeywords
    <2> QED
      BY <2>3, <2>4, CreateStep
  <1>4. ASSUME UNCHANGED commandVars PROVE CommandsInv'
    BY <1>4 DEF commandVars, CommandsInv, DictionarySound, CommandSound, CommandsBounded, CommandsArrive
  <1> QED
    BY <1>1, <1>2, <1>3, <1>4, ValidateStep, EncodeStep, DecodeStep DEF CommandsNext

\* What holds of every command on its way: its dictionary is sound, it is found valid
\* before it is encoded, and it arrives as what was created (cmd.py 240-276, 456-477).
THEOREM CommandsAreSound == CommandsSpec => []CommandsInv
  BY CommandsStart, CommandsStep, PTL DEF CommandsSpec

\* What the ground makes of a command is what the flight software is told: a command that
\* validates decodes, from its bytes and whatever padding follows them, to the name and
\* the arguments it was created with (cmd.py 240-276, 456-477).
THEOREM CommandsArriveAsCreated == CommandsSpec => []CommandsArrive
  <1>1. CommandsInv => CommandsArrive
    BY DEF CommandsInv
  <1> QED
    BY <1>1, CommandsAreSound, PTL

\* What encode() returns is bytes, and the dictionary has its definitions under their own
\* names and opcodes, whatever is defined again (cmd.py 240-276, 399-454).
THEOREM CommandsTypeCorrect == CommandsSpec => []CommandsTypes
  <1>1. CommandsInv => CommandsTypes
    <2> SUFFICES ASSUME CommandsInv PROVE CommandsTypes
      OBVIOUS
    <2>1. DOMAIN cmddict \subseteq {d.name : d \in CommandDefinitions}
      BY DEF CommandsInv, DictionarySound
    <2> QED
      BY <2>1 DEF CommandsInv, DictionarySound, CommandSound, CommandsBounded, CommandsTypes
  <1> QED
    BY <1>1, CommandsAreSound, PTL

-----------------------------------------------------------------------------
(* Packets: fields that share bytes, and the history of fields.            *)

\* Every field is one that a packet can have.
LEMMA FieldIs ==
    /\ FieldDefinitions \in Seq({FieldDefinitions[i] : i \in FieldNumbers})
    /\ Len(FieldDefinitions) \in Nat
    /\ FieldNumbers = 1 .. Len(FieldDefinitions)
    /\ \A i \in FieldNumbers : IsField(i) /\ TypeOf(i) \in PrimitiveTypes /\ TypeOf(i).nbytes \in Nat \ {0}
  <1>1. FieldDefinitions \in Seq({FieldDefinitions[i] : i \in FieldNumbers})
    BY PacketsAssumption
  <1>2. Len(FieldDefinitions) \in Nat /\ FieldNumbers = 1 .. Len(FieldDefinitions)
    BY <1>1, LenProperties DEF FieldNumbers
  <1>3. ASSUME NEW i \in FieldNumbers
        PROVE  IsField(i) /\ TypeOf(i) \in PrimitiveTypes /\ TypeOf(i).nbytes \in Nat \ {0}
    <2>1. IsField(i)
      BY PacketsAssumption
    <2>2. TypeOf(i) \in PrimitiveTypes
      BY <2>1 DEF IsField
    <2> QED
      BY <2>1, <2>2 DEF PrimitiveTypes
  <1> QED
    BY <1>1, <1>2, <1>3

\* Where a field lies that follows another.
LEMMA PlacedIs ==
    ASSUME NEW i \in FieldNumbers, NEW before \in [start : Nat, stop : Nat]
    PROVE  Placed(i, before) \in [start : Nat, stop : Nat]
  <1>1. PICK n \in Nat : n = TypeOf(i).nbytes
    BY FieldIs
  <1>2. FieldDefinitions[i].bytes \in Placements
    BY FieldIs DEF IsField
  <1>3. PICK bytes : bytes = FieldDefinitions[i].bytes /\ bytes \in Placements
    BY <1>2
  <1>4. before.start \in Nat /\ before.stop \in Nat
    OBVIOUS
  <1>5. CASE bytes.how = "next"
    BY <1>1, <1>3, <1>4, <1>5 DEF Placed
  <1>6. CASE bytes.how = "prev"
    BY <1>1, <1>3, <1>4, <1>6 DEF Placed
  <1>7. CASE bytes.how = "byte"
    <2>1. bytes.first \in Nat
      BY <1>3, <1>7 DEF Placements
    <2> QED
      BY <1>1, <1>3, <1>7, <2>1 DEF Placed
  <1>8. CASE bytes.how = "span"
    <2>1. bytes.first \in Nat /\ bytes.last \in Nat
      BY <1>3, <1>8 DEF Placements
    <2> QED
      BY <1>3, <1>8, <2>1 DEF Placed
  <1> QED
    BY <1>3, <1>5, <1>6, <1>7, <1>8 DEF Placements

LEMMA SlicesAre ==
    ASSUME NEW i \in FieldNumbers
    PROVE  slices[i].start \in Nat /\ slices[i].stop \in Nat
  <1> DEFINE S == [start : Nat, stop : Nat]
             n == Len(FieldDefinitions)
             none == [start |-> 0, stop |-> 0]
             body(t) == [j \in 0 .. n |-> IF j = 0 THEN none ELSE Placed(j, t[j - 1])]
             at == CHOOSE t : t = body(t)
             step == [x \in Nat \X S |-> IF x[1] + 1 \in 1 .. n THEN Placed(x[1] + 1, x[2]) ELSE x[2]]
  <1>1. n \in Nat /\ FieldNumbers = 1 .. n
    BY FieldIs
  <1>2. \A j \in 1 .. n, b \in S : Placed(j, b) \in S
    BY <1>1, PlacedIs
  <1>3. none \in S
    OBVIOUS
  <1>4. slices = [j \in FieldNumbers |-> at[j]]
    BY DEF slices
  <1> HIDE DEF S, n, none
  <1>5. step \in [Nat \X S -> S]
    BY <1>2
  <1>6. \A j \in Nat, t \in S : j + 1 \in 1 .. n => step[<<j, t>>] = Placed(j + 1, t)
    OBVIOUS
  <1> HIDE DEF step
  <1>7. PICK g \in [Nat -> S] : Follows(g, none, step)
    BY <1>3, <1>5, Recursion
  <1>8. g[0] = none /\ \A j \in Nat : j + 1 \in 1 .. n => g[j + 1] = Placed(j + 1, g[j])
    BY <1>6, <1>7 DEF Follows
  <1>9. at = body(at)
    <2> DEFINE f == [j \in 0 .. n |-> g[j]]
    <2>1. ASSUME NEW j \in 0 .. n PROVE f[j] = IF j = 0 THEN none ELSE Placed(j, f[j - 1])
      <3>1. CASE j = 0
        BY <1>8, <3>1
      <3>2. CASE j # 0
        <4>1. j - 1 \in Nat /\ (j - 1) + 1 = j /\ j - 1 \in 0 .. n /\ j \in 1 .. n
          BY <1>1, <3>2
        <4> QED
          BY <1>8, <3>2, <4>1
      <3> QED
        BY <3>1, <3>2
    <2>2. f = body(f)
      BY <2>1
    <2> HIDE DEF body, f
    <2> QED
      BY <2>2
  <1> HIDE DEF at
  <1> DEFINE T == {j \in Nat : j <= n => at[j] \in S}
  <1>10. 0 \in T
    BY <1>1, <1>3, <1>9
  <1>11. ASSUME NEW j \in Nat, j \in T PROVE j + 1 \in T
    <2>1. CASE j + 1 <= n
      <3>1. j + 1 \in 1 .. n /\ j + 1 \in 0 .. n /\ (j + 1) - 1 = j /\ j + 1 # 0 /\ j <= n
        BY <1>1, <2>1
      <3>2. at[j + 1] = Placed(j + 1, at[j])
        BY <1>9, <3>1
      <3> QED
        BY <1>2, <1>11, <3>1, <3>2
    <2>2. CASE ~(j + 1 <= n)
      BY <2>2
    <2> QED
      BY <2>1, <2>2
  <1> HIDE DEF T
  <1>12. i \in T /\ i \in 1 .. n
    BY <1>1, <1>10, <1>11, SetInduction
  <1>13. at[i] \in S
    BY <1>1, <1>12 DEF T
  <1> QED
    BY <1>4, <1>13 DEF S

\* The size of a packet is a number.
LEMMA SizeIs ==
    packetSize \in Nat
  <1> DEFINE lasts == {LastByte(i) : i \in FieldNumbers} \cup {-1}
             n == Len(FieldDefinitions)
             Bounds(j, b) == \A i \in 1 .. j : LastByte(i) <= b
             T == {j \in Nat : j <= n => \E b \in Nat : Bounds(j, b)}
  <1>1. n \in Nat /\ FieldNumbers = 1 .. n
    BY FieldIs
  <1>2. ASSUME NEW i \in FieldNumbers PROVE LastByte(i) \in Int /\ LastByte(i) >= -1
    <2>1. slices[i].start \in Nat /\ slices[i].stop \in Nat
      BY SlicesAre
    <2> QED
      BY <2>1 DEF LastByte
  <1> HIDE DEF n
  <1>3. 0 \in T
    OBVIOUS
  <1>4. ASSUME NEW j \in Nat, j \in T PROVE j + 1 \in T
    <2>1. CASE j + 1 <= n
      <3>1. j <= n /\ j + 1 \in 1 .. n
        BY <1>1, <2>1
      <3>2. PICK b \in Nat : Bounds(j, b)
        BY <1>4, <3>1
      <3>3. PICK l \in Int : l = LastByte(j + 1) /\ l >= -1
        BY <1>1, <1>2, <3>1
      <3>4. PICK c \in Nat : c >= b /\ c >= l
        <4>1. b + l + 1 \in Nat /\ b + l + 1 >= b /\ b + l + 1 >= l
          BY <3>3
        <4> QED
          BY <4>1
      <3>5. \A i \in 1 .. j + 1 : LastByte(i) <= c
        <4>1. ASSUME NEW i \in 1 .. j PROVE LastByte(i) <= c
          <5>1. i \in FieldNumbers
            BY <1>1, <3>1
          <5>2. LastByte(i) \in Int /\ LastByte(i) <= b
            BY <1>2, <3>2, <5>1
          <5> QED
            BY <3>4, <5>2
        <4>2. \A i \in 1 .. j + 1 : i \in 1 .. j \/ i = j + 1
          OBVIOUS
        <4> QED
          BY <3>3, <3>4, <4>1, <4>2
      <3> QED
        BY <3>5
    <2>2. CASE ~(j + 1 <= n)
      BY <2>2
    <2> QED
      BY <2>1, <2>2
  <1> HIDE DEF T
  <1>5. n \in T
    BY <1>1, <1>3, <1>4, SetInduction
  <1>6. PICK b \in Nat : \A i \in FieldNumbers : LastByte(i) <= b
    BY <1>1, <1>5 DEF T
  <1> DEFINE R == {k \in Nat : k - 1 \in lasts}
  <1>7. R \subseteq 0 .. b + 1 /\ R # {}
    <2>1. 0 \in Nat /\ 0 - 1 = -1
      OBVIOUS
    <2>2. \A l \in lasts : l \in Int /\ l <= b
      BY <1>2, <1>6
    <2> HIDE DEF lasts
    <2>3. \A k \in Nat : k - 1 \in lasts => k <= b + 1
      BY <2>2
    <2>4. -1 \in lasts
      BY DEF lasts
    <2>5. 0 \in R
      BY <2>1, <2>4
    <2>6. \A k \in R : k \in 0 .. b + 1
      BY <2>3
    <2> HIDE DEF R
    <2> QED
      BY <2>5, <2>6
  <1>8. PICK m \in R : \A k \in R : k <= m
    <2> HIDE DEF R
    <2>1. b + 1 \in Nat
      OBVIOUS
    <2> QED
      BY <1>7, <2>1, Greatest
  <1>9. m \in Nat /\ m - 1 \in lasts
    BY <1>8
  <1>10. \A l \in lasts : l \in Int /\ l + 1 \in Nat /\ (l + 1) - 1 = l
    BY <1>2
  <1>11. \A l \in lasts : l <= m - 1
    <2> HIDE DEF lasts
    <2>1. ASSUME NEW l \in lasts PROVE l <= m - 1
      <3>1. l \in Int /\ l + 1 \in R
        BY <1>10
      <3>2. l + 1 <= m
        BY <1>8, <3>1
      <3> QED
        BY <1>9, <3>1, <3>2
    <2> QED
      BY <2>1
  <1>12. packetSize = 1 + CHOOSE l \in lasts : \A k \in lasts : k <= l
    BY DEF packetSize
  <1> HIDE DEF lasts, R
  <1>13. PICK l \in lasts : l = CHOOSE x \in lasts : \A k \in lasts : k <= x
    BY <1>9, <1>11
  <1>14. l + 1 \in Nat
    BY <1>10
  <1> QED
    BY <1>10, <1>12, <1>13, <1>14

\* The bits of a mask, and the shift that goes with it.
LEMMA ShiftIs ==
    ASSUME NEW i \in FieldNumbers
    PROVE  Powers[shift(i)] \in Nat \ {0} /\ (~IsMasked(i) => Powers[shift(i)] = 1)
  <1>1. MaskOf(i) \subseteq Nat
    BY DEF MaskOf, BitsOf, Bits
  <1>2. CASE ~IsMasked(i) \/ MaskOf(i) = {}
    BY <1>2, PowersGrow DEF shift
  <1>3. CASE IsMasked(i) /\ MaskOf(i) # {}
    <2>1. \E s \in MaskOf(i) : \A k \in MaskOf(i) : s <= k
      BY <1>1, <1>3, Least
    <2>2. shift(i) = CHOOSE s \in MaskOf(i) : \A k \in MaskOf(i) : s <= k
      BY <1>3 DEF shift
    <2>3. shift(i) \in MaskOf(i)
      BY <2>1, <2>2
    <2> QED
      BY <1>1, <1>3, <2>3, PowersAre
  <1> QED
    BY <1>2, <1>3

LEMMA MaskedIs ==
    ASSUME NEW i \in FieldNumbers, NEW v \in Int
    PROVE  Masked(i, v) \in Int
  <1>1. PICK n \in Nat : n = 8 * TypeOf(i).nbytes
    BY FieldIs
  <1>2. BitsOf(i, v) \cap MaskOf(i) \in SUBSET (0 .. n - 1)
    BY <1>1 DEF BitsOf, Bits
  <1>3. OfBits(n, BitsOf(i, v) \cap MaskOf(i)) \in Nat
    BY <1>2, OfBitsAre
  <1> QED
    BY <1>1, <1>3 DEF Masked

LEMMA ValueIs ==
    ASSUME NEW i \in FieldNumbers, NEW v \in Int
    PROVE  FieldValue(i, v) \in Int /\ FieldValue(i, v) \div Powers[shift(i)] \in Int
  <1>1. PICK p \in Nat \ {0} : p = Powers[shift(i)]
    BY ShiftIs
  <1>2. v * p \in Int
    OBVIOUS
  <1>3. FieldValue(i, v) \in Int
    BY <1>1, <1>2, MaskedIs DEF FieldValue
  <1> QED
    BY <1>1, <1>3, Divides

LEMMA FieldBytesAre ==
    ASSUME NEW i \in FieldNumbers, NEW data \in Seq(Byte)
    PROVE  FieldBytes(i, data) \in Seq(Byte)
  BY SlicesAre, SliceOfBytes DEF FieldBytes

LEMMA DecodeFieldIs ==
    ASSUME NEW i \in FieldNumbers, NEW data \in Seq(Byte), Readable(i, data)
    PROVE  DecodeField(i, data) \in Int
  <1>1. TypeOf(i) \in PrimitiveTypes /\ FieldBytes(i, data) \in Seq(Byte) /\ Unpacks(TypeOf(i), FieldBytes(i, data))
    BY FieldIs, FieldBytesAre DEF Readable
  <1>2. PICK v \in Int : v = decode(TypeOf(i), FieldBytes(i, data))
    BY <1>1, DecodedPacks
  <1>3. Masked(i, v) \in Int
    BY MaskedIs
  <1>4. PICK p \in Nat \ {0} : p = Powers[shift(i)]
    BY ShiftIs
  <1> QED
    BY <1>2, <1>3, <1>4, Divides DEF DecodeField

\* The field that a name stands for.
LEMMA NumberOfName ==
    ASSUME NEW name \in FieldNames
    PROVE  Number(name) \in FieldNumbers
  <1> DEFINE S == {i \in FieldNumbers : FieldDefinitions[i].name = name}
  <1>1. PICK n \in Nat : n = Len(FieldDefinitions) /\ FieldNumbers = 1 .. n
    BY FieldIs
  <1>2. S \subseteq 0 .. n /\ S # {}
    BY <1>1 DEF FieldNames
  <1>3. PICK m \in S : \A k \in S : k <= m
    <2> HIDE DEF S
    <2> QED
      BY <1>2, Greatest
  <1>4. m \in FieldNumbers /\ IsNumberOf(name, m)
    BY <1>3 DEF IsNumberOf
  <1> QED
    BY <1>4 DEF Number

\* The history reads the fields it is of until one cannot be read.
LEMMA ReadUntilIs ==
    ASSUME NEW data
    PROVE  /\ ReadUntil(data) \in 0 .. Len(HistoryNames)
           /\ \A n \in 1 .. ReadUntil(data) : Read(data, n)
  <1>1. PICK h \in Nat : h = Len(HistoryNames)
    BY PacketsAssumption, LenProperties
  <1> DEFINE S == {n \in 1 .. h : ~Read(data, n)}
             Ends(k) == (\A n \in 1 .. k : Read(data, n)) /\ (k < h => ~Read(data, k + 1))
  <1>2. \E k \in 0 .. h : Ends(k)
    <2>1. CASE S = {}
      BY <2>1
    <2>2. CASE S # {}
      <3>1. PICK m \in S : \A k \in S : m <= k
        <4>1. S \subseteq Nat
          OBVIOUS
        <4> HIDE DEF S
        <4> QED
          BY <2>2, <4>1, Least
      <3>2. m - 1 \in 0 .. h /\ (m - 1) + 1 = m /\ m \in 1 .. h /\ ~Read(data, m)
        BY <3>1
      <3>3. \A n \in 1 .. m - 1 : Read(data, n)
        BY <3>1, <3>2
      <3> QED
        BY <3>2, <3>3
    <2> QED
      BY <2>1, <2>2
  <1>3. ReadUntil(data) = CHOOSE k \in 0 .. h : Ends(k)
    BY <1>1 DEF ReadUntil
  <1>4. PICK k \in 0 .. h : k = ReadUntil(data) /\ Ends(k)
    <2> HIDE DEF Ends
    <2> QED
      BY <1>2, <1>3
  <1> QED
    BY <1>1, <1>4

LEMMA KeptIs ==
    ASSUME NEW data \in Seq(Byte), NEW name \in Kept(data)
    PROVE  /\ name \in Range(HistoryNames) /\ name \in FieldNames
           /\ DecodeField(Number(name), data) \in Int
  <1>1. PICK h \in Nat : h = Len(HistoryNames) /\ HistoryNames \in [1 .. h -> FieldNames]
    BY PacketsAssumption, LenProperties
  <1>2. PICK m \in 1 .. ReadUntil(data) : name = HistoryNames[m] /\ Present(Number(HistoryNames[m]), data)
    BY DEF Kept
  <1>3. m \in 1 .. h /\ Read(data, m)
    BY <1>1, ReadUntilIs
  <1>4. name \in FieldNames /\ name \in Range(HistoryNames)
    BY <1>1, <1>2, <1>3 DEF Range
  <1>5. Number(name) \in FieldNumbers /\ Readable(Number(name), data)
    BY <1>2, <1>3, <1>4, NumberOfName DEF Read
  <1> QED
    BY <1>4, <1>5, DecodeFieldIs

\* The bytes of a field that is set are as many as those of its type.
LEMMA IntegratedIs ==
    ASSUME NEW i \in FieldNumbers, NEW data \in Seq(Byte), NEW v \in Int
    PROVE  /\ Integrated(i, data, v, MaskBytes(i)) \in Seq(Byte)
           /\ Len(Integrated(i, data, v, MaskBytes(i))) = TypeOf(i).nbytes
           /\ \A b \in 1 .. TypeOf(i).nbytes :
                 LET new == encode(TypeOf(i), FieldValue(i, v))
                     old == FieldBytes(i, data)
                 IN Integrated(i, data, v, MaskBytes(i))[b] =
                       IF IsMasked(i) /\ b <= Len(old)
                       THEN OfBits(8, Bits(8, new[b]) \cup (Bits(8, old[b]) \ Bits(8, MaskBytes(i)[b])))
                       ELSE new[b]
  <1>1. PICK new \in Seq(Byte), n \in Nat : n = TypeOf(i).nbytes /\ new = encode(TypeOf(i), FieldValue(i, v)) /\ Len(new) = n
    BY FieldIs, ValueIs, EncodedBytes
  <1> DEFINE old == FieldBytes(i, data)
             value(b) == IF IsMasked(i) /\ b <= Len(old)
                         THEN OfBits(8, Bits(8, new[b]) \cup (Bits(8, old[b]) \ Bits(8, MaskBytes(i)[b])))
                         ELSE new[b]
  <1>2. Integrated(i, data, v, MaskBytes(i)) = [b \in 1 .. n |-> value(b)]
    BY <1>1 DEF Integrated
  <1>3. ASSUME NEW b \in 1 .. n PROVE value(b) \in Byte
    <2>1. new[b] \in Byte
      BY <1>1, LenProperties
    <2>2. Bits(8, new[b]) \cup (Bits(8, old[b]) \ Bits(8, MaskBytes(i)[b])) \in SUBSET (0 .. 7)
      BY DEF Bits
    <2> HIDE DEF old
    <2> QED
      BY <2>1, <2>2, ByteOfBits
  <1> HIDE DEF value
  <1>4. [b \in 1 .. n |-> value(b)] \in [1 .. n -> Byte]
    BY <1>3
  <1>5. [b \in 1 .. n |-> value(b)] \in Seq(Byte) /\ Len([b \in 1 .. n |-> value(b)]) = n
    BY <1>4
  <1> QED
    BY <1>1, <1>2, <1>5 DEF value

LEMMA SettingIs ==
    ASSUME NEW i \in FieldNumbers, NEW data \in Seq(Byte), NEW v \in Int
    PROVE  Setting(i, data, v) \in Seq(Byte)
  BY SlicesAre, IntegratedIs, SetSliceOfBytes DEF Setting

\* A field that can be read lies within the data.
LEMMA ReadableIs ==
    ASSUME NEW i \in FieldNumbers, NEW data \in Seq(Byte), Readable(i, data)
    PROVE  /\ slices[i].start + TypeOf(i).nbytes <= Len(data)
           /\ slices[i].start + TypeOf(i).nbytes <= slices[i].stop
           /\ Upto(slices[i].stop, Len(data)) = slices[i].start + TypeOf(i).nbytes
           /\ \A x \in 1 .. TypeOf(i).nbytes : FieldBytes(i, data)[x] = data[slices[i].start + x]
  <1>1. PICK s \in Nat, e \in Nat, n \in Nat \ {0} : s = slices[i].start /\ e = slices[i].stop /\ n = TypeOf(i).nbytes
    BY SlicesAre, FieldIs
  <1>2. PICK l \in Nat : l = Len(data)
    BY LenProperties
  <1>3. PICK u \in Nat : u = Upto(e, l) /\ u <= e /\ u <= l
    BY DEF Upto
  <1>4. FieldBytes(i, data) = SubSeq(data, s + 1, u)
    BY <1>1, <1>2, <1>3 DEF FieldBytes, Slice
  <1>5. s + 1 \in Nat /\ 1 <= s + 1 /\ u \in Int /\ u <= Len(data)
    BY <1>2, <1>3
  <1>6. /\ Len(SubSeq(data, s + 1, u)) = IF s + 1 <= u THEN u - (s + 1) + 1 ELSE 0
        /\ \A k \in 1 .. u - (s + 1) + 1 : SubSeq(data, s + 1, u)[k] = data[(s + 1) + k - 1]
    BY <1>5, PartOf
  <1>7. Len(SubSeq(data, s + 1, u)) = n
    BY <1>1, <1>4 DEF Readable, Unpacks
  <1>8. s + 1 <= u /\ u = s + n
    BY <1>6, <1>7
  <1>9. u - (s + 1) + 1 = n /\ \A k \in 1 .. n : (s + 1) + k - 1 = s + k
    BY <1>8
  <1>10. \A k \in 1 .. n : SubSeq(data, s + 1, u)[k] = data[s + k]
    BY <1>6, <1>9
  <1> QED
    BY <1>1, <1>2, <1>3, <1>4, <1>8, <1>10

\* To set a field that can be read replaces its bytes and no others.
LEMMA SettingReplaces ==
    ASSUME NEW i \in FieldNumbers, NEW data \in Seq(Byte), NEW v \in Int, Readable(i, data)
    PROVE  /\ Setting(i, data, v) \in Seq(Byte)
           /\ Len(Setting(i, data, v)) = Len(data)
           /\ \A x \in 1 .. TypeOf(i).nbytes :
                 Setting(i, data, v)[slices[i].start + x] = Integrated(i, data, v, MaskBytes(i))[x]
           /\ \A k \in 1 .. Len(data) :
                 k <= slices[i].start \/ k > slices[i].start + TypeOf(i).nbytes => Setting(i, data, v)[k] = data[k]
  <1>1. PICK s \in Nat, e \in Nat, n \in Nat \ {0} : s = slices[i].start /\ e = slices[i].stop /\ n = TypeOf(i).nbytes
    BY SlicesAre, FieldIs
  <1>2. PICK l \in Nat : l = Len(data)
    BY LenProperties
  <1>3. PICK new \in Seq(Byte) : new = Integrated(i, data, v, MaskBytes(i)) /\ Len(new) = n
    BY <1>1, IntegratedIs
  <1>4. s + n <= l /\ s + n <= e /\ Upto(e, l) = s + n
    BY <1>1, <1>2, ReadableIs
  <1>5. SetSlice(data, s, e, new) = SetSlice(data, s, s + n, new)
    <2>1. e > s /\ s + n > s /\ Upto(s + n, l) = s + n
      BY <1>4 DEF Upto
    <2> QED
      BY <1>2, <1>4, <2>1 DEF SetSlice
  <1>6. PICK m \in Nat : m = s + n
    OBVIOUS
  <1>7. Replaces(data, SetSlice(data, s, m, new), s, new)
    <2>1. m = s + Len(new) /\ s <= Len(data)
      BY <1>2, <1>3, <1>4, <1>6
    <2> QED
      BY <2>1, SetSliceIs
  <1>8. Setting(i, data, v) = SetSlice(data, s, m, new)
    BY <1>1, <1>3, <1>5, <1>6 DEF Setting
  <1>9. Replaces(data, Setting(i, data, v), s, new)
    BY <1>7, <1>8
  <1> QED
    BY <1>1, <1>2, <1>3, <1>4, <1>9 DEF Replaces

LEMMA StaysReadable ==
    ASSUME NEW i \in FieldNumbers, NEW data \in Seq(Byte), NEW new \in Seq(Byte), Len(new) = Len(data),
           Readable(i, data)
    PROVE  Readable(i, new)
  <1>1. PICK s \in Nat, n \in Nat \ {0} : s = slices[i].start /\ n = TypeOf(i).nbytes
    BY SlicesAre, FieldIs
  <1>2. PICK u \in Nat : u = Upto(slices[i].stop, Len(data)) /\ u = s + n /\ u <= Len(data)
    BY <1>1, ReadableIs
  <1>3. s + 1 \in Nat /\ 1 <= s + 1 /\ u <= Len(new) /\ s + 1 <= u /\ u - (s + 1) + 1 = n
    BY <1>2
  <1>4. FieldBytes(i, new) = SubSeq(new, s + 1, u)
    BY <1>1, <1>2 DEF FieldBytes, Slice
  <1>5. Len(SubSeq(new, s + 1, u)) = n
    BY <1>3, PartOf
  <1> QED
    BY <1>1, <1>4, <1>5 DEF Readable, Unpacks

\* What a field's encoded value has is within its mask.
LEMMA ValueUnderMask ==
    ASSUME NEW i \in FieldNumbers, IsMasked(i), NEW v \in Int, NEW j \in 0 .. TypeOf(i).nbytes - 1, NEW r \in 0 .. 7
    PROVE  /\ 8 * j + r \in MaskOf(i) <=> HasBit(MaskBytes(i)[Place(TypeOf(i), j)], r)
           /\ HasBit(encode(TypeOf(i), FieldValue(i, v))[Place(TypeOf(i), j)], r)
                 <=> 8 * j + r \in BitsOf(i, v * Powers[shift(i)]) \cap MaskOf(i)
  <1>1. PICK n \in Nat : n = TypeOf(i).nbytes
    BY FieldIs
  <1>2. FieldDefinitions[i].mask \in Int
    <2>1. FieldDefinitions[i].mask \in 0 .. Patterns[TypeOf(i).nbytes] - 1
      BY FieldIs DEF IsField, IsMasked
    <2> QED
      BY <2>1
  <1>3. TypeOf(i) \in PrimitiveTypes /\ FieldValue(i, v) \in Int
    BY FieldIs, ValueIs
  <1>4. 8 * j + r \in 0 .. 8 * n - 1
    BY <1>1
  <1>5. HasBit(FieldDefinitions[i].mask, 8 * j + r) <=> HasBit(MaskBytes(i)[Place(TypeOf(i), j)], r)
    BY <1>2, <1>3, EncodedBits DEF MaskBytes
  <1>6. HasBit(FieldValue(i, v), 8 * j + r) <=> HasBit(encode(TypeOf(i), FieldValue(i, v))[Place(TypeOf(i), j)], r)
    BY <1>3, EncodedBits
  <1>7. 8 * j + r \in MaskOf(i) <=> HasBit(FieldDefinitions[i].mask, 8 * j + r)
    BY <1>1, <1>4 DEF MaskOf, BitsOf, Bits
  <1> DEFINE M == BitsOf(i, v * Powers[shift(i)]) \cap MaskOf(i)
  <1>8. M \in SUBSET (0 .. 8 * n - 1)
    BY <1>1 DEF MaskOf, BitsOf, Bits
  <1>9. FieldValue(i, v) = OfBits(8 * n, M)
    BY <1>1 DEF FieldValue, Masked
  <1>10. HasBit(FieldValue(i, v), 8 * j + r) <=> 8 * j + r \in M
    <2> HIDE DEF M
    <2>1. PICK w \in Nat : w = 8 * n
      OBVIOUS
    <2>2. Bits(w, OfBits(w, M)) = M
      BY <1>8, <2>1, OfBitsAre
    <2> QED
      BY <1>4, <1>9, <2>1, <2>2 DEF Bits
  <1> QED
    BY <1>5, <1>6, <1>7, <1>10

\* The bits of a byte under a mask that is set.
LEMMA IntegratedBit ==
    ASSUME NEW i \in FieldNumbers, IsMasked(i), NEW data \in Seq(Byte), Readable(i, data), NEW v \in Int,
           NEW j \in 0 .. TypeOf(i).nbytes - 1, NEW r \in 0 .. 7
    PROVE  HasBit(Integrated(i, data, v, MaskBytes(i))[Place(TypeOf(i), j)], r)
              <=> IF 8 * j + r \in MaskOf(i) THEN 8 * j + r \in BitsOf(i, v * Powers[shift(i)])
                  ELSE HasBit(FieldBytes(i, data)[Place(TypeOf(i), j)], r)
  <1>1. PICK b \in 1 .. TypeOf(i).nbytes : b = Place(TypeOf(i), j)
    BY FieldIs, PlaceIs
  <1> DEFINE new == encode(TypeOf(i), FieldValue(i, v))
             old == FieldBytes(i, data)
             S == Bits(8, new[b]) \cup (Bits(8, old[b]) \ Bits(8, MaskBytes(i)[b]))
  <1>2. b <= Len(old)
    BY <1>1 DEF Readable, Unpacks
  <1>3. Integrated(i, data, v, MaskBytes(i))[b] = OfBits(8, S)
    BY <1>2, IntegratedIs
  <1>4. S \in SUBSET (0 .. 7)
    BY DEF Bits
  <1>5. r \in S <=> HasBit(new[b], r) \/ (HasBit(old[b], r) /\ ~HasBit(MaskBytes(i)[b], r))
    BY DEF Bits
  <1>6. HasBit(OfBits(8, S), r) <=> r \in S
    <2> HIDE DEF S
    <2> QED
      BY <1>4, ByteOfBits
  <1>7. /\ 8 * j + r \in MaskOf(i) <=> HasBit(MaskBytes(i)[b], r)
        /\ HasBit(new[b], r) <=> 8 * j + r \in BitsOf(i, v * Powers[shift(i)]) \cap MaskOf(i)
    BY <1>1, ValueUnderMask
  <1> HIDE DEF new, old, S
  <1> QED
    BY <1>1, <1>3, <1>5, <1>6, <1>7 DEF old

\* A field that is set reads back what it was set to.
LEMMA ReadsBack ==
    ASSUME NEW i \in FieldNumbers, NEW data \in Seq(Byte), Readable(i, data), NEW v \in Int, Settable(i, data, v)
    PROVE  DecodeField(i, Setting(i, data, v)) = FieldValue(i, v) \div Powers[shift(i)]
  <1>1. PICK n \in Nat, s \in Nat : n = TypeOf(i).nbytes /\ s = slices[i].start
    BY FieldIs, SlicesAre
  <1>2. PICK new \in Seq(Byte) : new = Setting(i, data, v) /\ Len(new) = Len(data)
    BY SettingReplaces
  <1>3. Readable(i, new)
    BY <1>2, StaysReadable
  <1>4. PICK bytes \in Seq(Byte) : bytes = FieldBytes(i, new) /\ Len(bytes) = n
    BY <1>1, <1>3, FieldBytesAre DEF Readable, Unpacks
  <1>5. \A x \in 1 .. n : bytes[x] = Integrated(i, data, v, MaskBytes(i))[x]
    <2>1. \A x \in 1 .. n : bytes[x] = new[s + x]
      BY <1>1, <1>3, <1>4, ReadableIs
    <2>2. \A x \in 1 .. n : new[s + x] = Integrated(i, data, v, MaskBytes(i))[x]
      BY <1>1, <1>2, SettingReplaces
    <2> QED
      BY <2>1, <2>2
  <1>6. Masked(i, decode(TypeOf(i), bytes)) = FieldValue(i, v)
    <2>1. CASE ~IsMasked(i)
      <3>1. PICK value \in Seq(Byte) : value = encode(TypeOf(i), FieldValue(i, v)) /\ Len(value) = n
        BY <1>1, FieldIs, ValueIs, EncodedBytes
      <3>2. ASSUME NEW x \in 1 .. n PROVE bytes[x] = value[x]
        <4>1. x \in 1 .. TypeOf(i).nbytes
          BY <1>1
        <4>2. Integrated(i, data, v, MaskBytes(i))[x] = encode(TypeOf(i), FieldValue(i, v))[x]
          BY <2>1, <4>1, IntegratedIs
        <4> QED
          BY <1>5, <3>1, <4>2
      <3>3. bytes = value
        BY <1>4, <3>1, <3>2, SeqEqual
      <3>4. Packs(TypeOf(i), FieldValue(i, v))
        BY DEF Settable
      <3>5. decode(TypeOf(i), value) = FieldValue(i, v)
        BY <3>1, <3>4, FieldIs, ValueIs, DecodesEncoded
      <3> QED
        BY <2>1, <3>3, <3>5 DEF Masked
    <2>2. CASE IsMasked(i)
      <3> DEFINE read == decode(TypeOf(i), bytes)
      <3>1. ASSUME NEW k \in 0 .. 8 * n - 1, k \in MaskOf(i)
            PROVE  HasBit(read, k) <=> k \in BitsOf(i, v * Powers[shift(i)])
        <4>1. PICK j \in 0 .. n - 1, r \in 0 .. 7 : k = 8 * j + r
          BY BitOfByte
        <4>2. Place(TypeOf(i), j) \in 1 .. n
          BY <1>1, FieldIs, PlaceIs
        <4>3. HasBit(read, 8 * j + r) <=> HasBit(bytes[Place(TypeOf(i), j)], r)
          BY <1>1, <1>3, <1>4, FieldIs, DecodedBits DEF Readable
        <4>4. bytes[Place(TypeOf(i), j)] = Integrated(i, data, v, MaskBytes(i))[Place(TypeOf(i), j)]
          BY <1>5, <4>2
        <4>5. HasBit(Integrated(i, data, v, MaskBytes(i))[Place(TypeOf(i), j)], r)
                 <=> 8 * j + r \in BitsOf(i, v * Powers[shift(i)])
          BY <1>1, <2>2, <3>1, <4>1, IntegratedBit
        <4> QED
          BY <4>1, <4>3, <4>4, <4>5
      <3>2. BitsOf(i, read) \cap MaskOf(i) = BitsOf(i, v * Powers[shift(i)]) \cap MaskOf(i)
        <4> HIDE DEF read
        <4>1. \A k \in BitsOf(i, read) : k \in 0 .. 8 * n - 1 /\ HasBit(read, k)
          BY <1>1 DEF BitsOf, Bits
        <4>2. \A k \in 0 .. 8 * n - 1 : HasBit(read, k) => k \in BitsOf(i, read)
          BY <1>1 DEF BitsOf, Bits
        <4>3. \A k \in BitsOf(i, v * Powers[shift(i)]) : k \in 0 .. 8 * n - 1
          BY <1>1 DEF BitsOf, Bits
        <4> QED
          BY <3>1, <4>1, <4>2, <4>3
      <3> QED
        BY <2>2, <3>2 DEF Masked, FieldValue
    <2> QED
      BY <2>1, <2>2
  <1> QED
    BY <1>2, <1>4, <1>6 DEF DecodeField

\* And leaves the fields alone that it shares no bit with.
LEMMA NeighbourBit ==
    ASSUME NEW i \in FieldNumbers, NEW j \in FieldNumbers, ~Overlap(i, j), NEW data \in Seq(Byte),
           Readable(i, data), Readable(j, data), NEW v \in Int,
           NEW x \in 1 .. TypeOf(i).nbytes, NEW r \in 0 .. 7, r \in BitsAt(i, slices[i].start + x - 1)
    PROVE  HasBit(Setting(j, data, v)[slices[i].start + x], r) <=> HasBit(data[slices[i].start + x], r)
  <1>1. PICK s \in Nat, n \in Nat \ {0} : s = slices[i].start /\ n = TypeOf(i).nbytes /\ s + n <= slices[i].stop /\ s + n <= Len(data)
    BY SlicesAre, FieldIs, ReadableIs
  <1>2. PICK t \in Nat, m \in Nat \ {0} : t = slices[j].start /\ m = TypeOf(j).nbytes /\ t + m <= slices[j].stop
    BY SlicesAre, FieldIs, ReadableIs
  <1>3. PICK e \in Nat, f \in Nat : e = slices[i].stop /\ f = slices[j].stop /\ s + n <= e /\ t + m <= f
    BY <1>1, <1>2, SlicesAre
  <1>4. CASE s + x <= t \/ s + x > t + m
    <2>1. s + x \in 1 .. Len(data)
      <3>1. PICK l \in Nat : l = Len(data) /\ s + n <= l
        BY <1>1, LenProperties
      <3>2. x \in 1 .. n
        BY <1>1
      <3> QED
        BY <3>1, <3>2
    <2>2. s + x <= slices[j].start \/ s + x > slices[j].start + TypeOf(j).nbytes
      BY <1>2, <1>4
    <2>3. Setting(j, data, v)[s + x] = data[s + x]
      BY <2>1, <2>2, SettingReplaces
    <2> QED
      BY <1>1, <2>3
  <1>5. CASE t < s + x /\ s + x <= t + m
    <2>1. PICK y \in 1 .. m : y = s + x - t /\ t + y = s + x
      BY <1>5
    <2>2. PICK b : b = s + x - 1 /\ b \in BytesWithin(i) \cap BytesWithin(j) /\ b - t + 1 = y
      <3>1. PICK z \in 1 .. n : z = x
        BY <1>1
      <3>2. s + z - 1 \in s .. e - 1
        BY <1>3
      <3>3. s + z - 1 \in t .. f - 1
        BY <1>3, <1>5, <3>1
      <3>4. (s + z - 1) - t + 1 = y
        BY <2>1, <3>1
      <3>5. s + z - 1 \in BytesWithin(i)
        BY <1>1, <1>3, <3>2 DEF BytesWithin
      <3>6. s + z - 1 \in BytesWithin(j)
        BY <1>2, <1>3, <3>3 DEF BytesWithin
      <3>7. s + z - 1 = s + x - 1
        BY <3>1
      <3> QED
        BY <3>4, <3>5, <3>6, <3>7
    <2>3. r \notin BitsAt(j, b)
      BY <1>1, <2>2 DEF Overlap
    <2>4. IsMasked(j) /\ ~HasBit(MaskBytes(j)[y], r)
      BY <1>2, <2>2, <2>3 DEF BitsAt, Bits
    <2>5. PICK q \in 0 .. m - 1 : Place(TypeOf(j), q) = y
      BY <1>2, FieldIs, PlaceIs
    <2>6. 8 * q + r \notin MaskOf(j)
      BY <1>2, <2>4, <2>5, ValueUnderMask
    <2>7. HasBit(Integrated(j, data, v, MaskBytes(j))[y], r) <=> HasBit(FieldBytes(j, data)[y], r)
      BY <1>2, <2>4, <2>5, <2>6, IntegratedBit
    <2>8. Setting(j, data, v)[t + y] = Integrated(j, data, v, MaskBytes(j))[y]
      BY <1>2, SettingReplaces
    <2>9. FieldBytes(j, data)[y] = data[t + y]
      BY <1>2, ReadableIs
    <2> QED
      BY <1>1, <2>1, <2>7, <2>8, <2>9
  <1> QED
    BY <1>4, <1>5

LEMMA NeighbourStays ==
    ASSUME NEW i \in FieldNumbers, NEW j \in FieldNumbers, ~Overlap(i, j), NEW data \in Seq(Byte),
           Readable(i, data), Readable(j, data), NEW v \in Int
    PROVE  DecodeField(i, Setting(j, data, v)) = DecodeField(i, data)
  <1>1. PICK n \in Nat, s \in Nat : n = TypeOf(i).nbytes /\ s = slices[i].start
    BY FieldIs, SlicesAre
  <1>2. PICK set \in Seq(Byte) : set = Setting(j, data, v) /\ Len(set) = Len(data)
    BY SettingReplaces
  <1>3. Readable(i, set)
    BY <1>2, StaysReadable
  <1>4. PICK new \in Seq(Byte) : new = FieldBytes(i, set) /\ Len(new) = n /\ Unpacks(TypeOf(i), new)
                                 /\ \A x \in 1 .. n : new[x] = set[s + x]
    <2>1. FieldBytes(i, set) \in Seq(Byte) /\ Unpacks(TypeOf(i), FieldBytes(i, set))
      BY <1>3, FieldBytesAre DEF Readable
    <2>2. Len(FieldBytes(i, set)) = n
      BY <1>1, <2>1 DEF Unpacks
    <2>3. \A x \in 1 .. n : FieldBytes(i, set)[x] = set[s + x]
      BY <1>1, <1>3, ReadableIs
    <2> QED
      BY <2>1, <2>2, <2>3
  <1>5. PICK old \in Seq(Byte) : old = FieldBytes(i, data) /\ Len(old) = n /\ Unpacks(TypeOf(i), old)
                                 /\ \A x \in 1 .. n : old[x] = data[s + x]
    <2>1. FieldBytes(i, data) \in Seq(Byte) /\ Unpacks(TypeOf(i), FieldBytes(i, data))
      BY FieldBytesAre DEF Readable
    <2>2. Len(FieldBytes(i, data)) = n
      BY <1>1, <2>1 DEF Unpacks
    <2>3. \A x \in 1 .. n : FieldBytes(i, data)[x] = data[s + x]
      BY <1>1, ReadableIs
    <2> QED
      BY <2>1, <2>2, <2>3
  <1>6. ASSUME NEW x \in 1 .. n, NEW r \in 0 .. 7, r \in BitsAt(i, s + x - 1)
        PROVE  HasBit(old[x], r) <=> HasBit(new[x], r)
    <2>1. x \in 1 .. TypeOf(i).nbytes /\ r \in BitsAt(i, slices[i].start + x - 1)
      BY <1>1, <1>6
    <2>2. HasBit(Setting(j, data, v)[slices[i].start + x], r) <=> HasBit(data[slices[i].start + x], r)
      BY <2>1, NeighbourBit
    <2> QED
      BY <1>1, <1>2, <1>4, <1>5, <2>2
  <1>7. Masked(i, decode(TypeOf(i), new)) = Masked(i, decode(TypeOf(i), old))
    <2>1. CASE ~IsMasked(i)
      <3>1. ASSUME NEW x \in 1 .. n PROVE new[x] = old[x]
        <4>1. \A r \in 0 .. 7 : r \in BitsAt(i, s + x - 1)
          BY <2>1 DEF BitsAt
        <4>2. \A r \in 0 .. 7 : HasBit(old[x], r) <=> HasBit(new[x], r)
          BY <1>6, <4>1
        <4>3. new[x] \in Byte /\ old[x] \in Byte
          BY <1>4, <1>5, LenProperties
        <4> QED
          BY <4>2, <4>3, SameByte
      <3>2. new = old
        BY <1>4, <1>5, <3>1, SeqEqual
      <3> QED
        BY <3>2
    <2>2. CASE IsMasked(i)
      <3>1. ASSUME NEW q \in 0 .. n - 1, NEW r \in 0 .. 7, 8 * q + r \in MaskOf(i)
            PROVE  HasBit(old[Place(TypeOf(i), q)], r) <=> HasBit(new[Place(TypeOf(i), q)], r)
        <4>1. PICK x \in 1 .. n : x = Place(TypeOf(i), q)
          BY <1>1, FieldIs, PlaceIs
        <4>2. HasBit(MaskBytes(i)[x], r)
          BY <1>1, <2>2, <3>1, <4>1, ValueUnderMask
        <4>3. (s + x - 1) - s + 1 = x
          BY SMT
        <4>4. r \in BitsAt(i, s + x - 1)
          BY <1>1, <2>2, <4>2, <4>3 DEF BitsAt, Bits
        <4> QED
          BY <1>6, <4>1, <4>4
      <3>2. BitsOf(i, decode(TypeOf(i), new)) \cap MaskOf(i) = BitsOf(i, decode(TypeOf(i), old)) \cap MaskOf(i)
        <4>1. TypeOf(i) \in PrimitiveTypes
          BY FieldIs
        <4>2. AlikeUnder(TypeOf(i), old, new, MaskOf(i))
          BY <1>1, <3>1 DEF AlikeUnder
        <4>3. Bits(8 * TypeOf(i).nbytes, decode(TypeOf(i), new)) \cap MaskOf(i)
                 = Bits(8 * TypeOf(i).nbytes, decode(TypeOf(i), old)) \cap MaskOf(i)
          BY <1>4, <1>5, <4>1, <4>2, DecodedAlike
        <4> QED
          BY <4>3 DEF BitsOf
      <3> QED
        BY <2>2, <3>2 DEF Masked
    <2> QED
      BY <2>1, <2>2
  <1> QED
    BY <1>2, <1>4, <1>5, <1>7 DEF DecodeField

\* What the newest of some readings says of a field that it has.
Readings == UNION {[D -> Int] : D \in SUBSET Range(HistoryNames)}
Having(name, readings) == {k \in DOMAIN readings : name \in DOMAIN readings[k]}
Newest(name, readings) ==
    IF Having(name, readings) = {} THEN 0
    ELSE readings[CHOOSE k \in Having(name, readings) : \A h \in Having(name, readings) : h <= k][name]

LEMMA NewestOfMore ==
    ASSUME NEW name, NEW readings \in Seq(Readings), NEW reading \in Readings
    PROVE  Newest(name, Append(readings, reading)) =
              IF name \in DOMAIN reading THEN reading[name] ELSE Newest(name, readings)
  <1> DEFINE more == Append(readings, reading)
             before == Having(name, readings)
             after == Having(name, more)
  <1>1. PICK n \in Nat : n = Len(readings) /\ DOMAIN readings = 1 .. n
    BY LenProperties
  <1>2. DOMAIN more = 1 .. n + 1 /\ more[n + 1] = reading /\ \A k \in 1 .. n : more[k] = readings[k]
    <2>1. Append(readings, reading) \in Seq(Readings) /\ Len(Append(readings, reading)) = n + 1
      BY <1>1, AppendProperties
    <2> QED
      BY <1>1, <2>1, AppendProperties, LenProperties
  <1> HIDE DEF more
  <1>3. before \subseteq 1 .. n
    BY <1>1 DEF Having
  <1>4. after = before \cup (IF name \in DOMAIN reading THEN {n + 1} ELSE {})
    BY <1>1, <1>2 DEF Having
  <1>5. Newest(name, more) = IF after = {} THEN 0 ELSE more[CHOOSE k \in after : \A h \in after : h <= k][name]
    BY DEF Newest
  <1>6. Newest(name, readings) = IF before = {} THEN 0 ELSE readings[CHOOSE k \in before : \A h \in before : h <= k][name]
    BY DEF Newest
  <1> HIDE DEF before, after
  <1>7. CASE name \in DOMAIN reading
    <2>1. n + 1 \in after /\ \A h \in after : h <= n + 1 /\ h \in Nat
      BY <1>3, <1>4, <1>7
    <2>2. PICK k \in after : k = (CHOOSE x \in after : \A h \in after : h <= x) /\ \A h \in after : h <= k
      BY <2>1
    <2>3. k = n + 1
      BY <2>1, <2>2
    <2> QED
      BY <1>2, <1>5, <1>7, <2>1, <2>2, <2>3 DEF more
  <1>8. CASE name \notin DOMAIN reading
    <2>1. after = before
      BY <1>4, <1>8
    <2>2. CASE before = {}
      BY <1>5, <1>6, <1>8, <2>1, <2>2 DEF more
    <2>3. CASE before # {}
      <3>1. \E k \in before : \A h \in before : h <= k
        <4>1. before \subseteq 0 .. n
          BY <1>3
        <4> QED
          BY <2>3, <4>1, Greatest
      <3>2. PICK k \in before : k = CHOOSE x \in before : \A h \in before : h <= x
        BY <3>1
      <3>3. more[k] = readings[k]
        BY <1>2, <1>3
      <3> QED
        BY <1>5, <1>6, <1>8, <2>1, <2>3, <3>2, <3>3 DEF more
    <2> QED
      BY <2>2, <2>3
  <1> QED
    BY <1>7, <1>8

-----------------------------------------------------------------------------
(* The invariant.                                                          *)

\* What a field was last set to is known of a packet that has all its fields.
Known == [FieldNumbers -> Int] \cup {<<>>}
PacketsWhole == \A p \in DOMAIN packets : \A i \in DOMAIN asSet[p] : Readable(i, packets[p])
PacketsHave == /\ packets \in Seq(Seq(Byte))
               /\ asSet \in Seq(Known) /\ Len(asSet) = Len(packets)
               /\ PacketsWhole /\ FieldsKeepApart
HistoryHas == /\ fieldHistory \in [Range(HistoryNames) -> Int]
              /\ presented \in Seq(Readings) /\ Len(presented) <= MaxPackets
              /\ HistoryIsNewest
PacketsInv == PacketsHave /\ HistoryHas /\ setCount \in 0 .. MaxSets

LEMMA KnownIs ==
    ASSUME NEW known \in Known
    PROVE  /\ DOMAIN known = FieldNumbers \/ DOMAIN known = {}
           /\ \A i \in DOMAIN known : i \in FieldNumbers /\ known[i] \in Int
           /\ known = [i \in DOMAIN known |-> known[i]]
  <1>1. CASE known = <<>>
    <2>1. DOMAIN known = {}
      BY <1>1
    <2> QED
      BY <1>1, <2>1
  <1>2. CASE known \in [FieldNumbers -> Int]
    BY <1>2
  <1> QED
    BY <1>1, <1>2 DEF Known

LEMMA PacketsStart ==
    PacketsInit => PacketsInv
  <1> SUFFICES ASSUME PacketsInit PROVE PacketsInv
    OBVIOUS
  <1>1. packets = <<>> /\ asSet = <<>> /\ presented = <<>> /\ setCount = 0 /\ fieldHistory = [n \in Range(HistoryNames) |-> 0]
    BY DEF PacketsInit
  <1>2. <<>> \in Seq(Seq(Byte)) /\ <<>> \in Seq(Known) /\ <<>> \in Seq(Readings) /\ Len(<<>>) = 0 /\ DOMAIN <<>> = {}
    OBVIOUS
  <1>3. PacketsHave
    BY <1>1, <1>2 DEF PacketsHave, PacketsWhole, FieldsKeepApart
  <1>4. HistoryHas
    <2>1. HistoryIsNewest
      BY <1>1, <1>2 DEF HistoryIsNewest
    <2> QED
      BY <1>1, <1>2, <2>1, PacketsAssumption DEF HistoryHas
  <1>5. setCount \in 0 .. MaxSets
    BY <1>1, PacketsAssumption
  <1> QED
    BY <1>3, <1>4, <1>5 DEF PacketsInv

\* A packet that is made: its data reads as it was read.
LEMMA PacketAdded ==
    ASSUME PacketsHave, NEW data \in Seq(Byte), MakePacket(data)
    PROVE  PacketsHave'
  <1>1. CASE ReadUntil(data) # Len(HistoryNames)
    <2>1. packets' = packets /\ asSet' = asSet
      BY <1>1 DEF MakePacket
    <2> QED
      BY <2>1 DEF PacketsHave, PacketsWhole, FieldsKeepApart
  <1>2. CASE ReadUntil(data) = Len(HistoryNames)
    <2>1. PICK known : /\ known = IF \A i \in FieldNumbers : Readable(i, data)
                                  THEN [i \in FieldNumbers |-> DecodeField(i, data)] ELSE <<>>
                       /\ packets' = Append(packets, data) /\ asSet' = Append(asSet, known)
      BY <1>2 DEF MakePacket
    <2>2. known \in Known /\ \A i \in DOMAIN known : Readable(i, data) /\ known[i] = DecodeField(i, data)
      <3>1. CASE \A i \in FieldNumbers : Readable(i, data)
        <4>1. [i \in FieldNumbers |-> DecodeField(i, data)] \in [FieldNumbers -> Int]
          BY <3>1, DecodeFieldIs
        <4> QED
          BY <2>1, <3>1, <4>1 DEF Known
      <3>2. CASE ~\A i \in FieldNumbers : Readable(i, data)
        <4>1. known = <<>> /\ DOMAIN known = {}
          BY <2>1, <3>2
        <4> QED
          BY <4>1 DEF Known
      <3> QED
        BY <3>1, <3>2
    <2>3. PICK n \in Nat : n = Len(packets) /\ n = Len(asSet) /\ DOMAIN packets = 1 .. n
      BY LenProperties DEF PacketsHave
    <2>4. packets \in Seq(Seq(Byte)) /\ asSet \in Seq(Known)
      BY DEF PacketsHave
    <2>5. /\ packets' \in Seq(Seq(Byte)) /\ DOMAIN packets' = 1 .. n + 1 /\ Len(packets') = n + 1
          /\ packets'[n + 1] = data /\ \A p \in 1 .. n : packets'[p] = packets[p]
      BY <2>1, <2>3, <2>4, AppendProperties, LenProperties
    <2>6. /\ asSet' \in Seq(Known) /\ Len(asSet') = n + 1
          /\ asSet'[n + 1] = known /\ \A p \in 1 .. n : asSet'[p] = asSet[p]
      BY <2>1, <2>2, <2>3, <2>4, AppendProperties, LenProperties
    <2>7. PacketsWhole'
      <3>1. ASSUME NEW p \in 1 .. n + 1, NEW i \in DOMAIN asSet'[p] PROVE Readable(i, packets'[p])
        <4>1. CASE p = n + 1
          BY <2>2, <2>5, <2>6, <4>1
        <4>2. CASE p # n + 1
          <5>1. p \in 1 .. n
            BY <4>2
          <5> QED
            BY <2>3, <2>5, <2>6, <5>1 DEF PacketsHave, PacketsWhole
        <4> QED
          BY <4>1, <4>2
      <3> QED
        BY <2>5, <3>1 DEF PacketsWhole
    <2>8. FieldsKeepApart'
      <3>1. ASSUME NEW p \in 1 .. n + 1, NEW i \in DOMAIN asSet'[p] \cap Separate
            PROVE  Readable(i, packets'[p]) /\ DecodeField(i, packets'[p]) = asSet'[p][i]
        <4>1. CASE p = n + 1
          BY <2>2, <2>5, <2>6, <4>1
        <4>2. CASE p # n + 1
          <5>1. p \in 1 .. n
            BY <4>2
          <5> QED
            BY <2>3, <2>5, <2>6, <5>1 DEF PacketsHave, FieldsKeepApart
        <4> QED
          BY <4>1, <4>2
      <3> QED
        BY <2>5, <3>1 DEF FieldsKeepApart
    <2> QED
      BY <2>5, <2>6, <2>7, <2>8 DEF PacketsHave
  <1> QED
    BY <1>1, <1>2

LEMMA ReadingAdded ==
    ASSUME HistoryHas, NEW data \in Seq(Byte), MakePacket(data)
    PROVE  HistoryHas'
  <1>1. PICK reading : /\ reading = [name \in Kept(data) |-> DecodeField(Number(name), data)]
                       /\ presented' = Append(presented, reading)
                       /\ fieldHistory' = Add(data) /\ Len(presented) < MaxPackets
    BY DEF MakePacket
  <1>2. reading \in Readings
    <2>1. Kept(data) \in SUBSET Range(HistoryNames) /\ \A name \in Kept(data) : DecodeField(Number(name), data) \in Int
      BY KeptIs
    <2>2. reading \in [Kept(data) -> Int]
      BY <1>1, <2>1
    <2> QED
      BY <2>1, <2>2 DEF Readings
  <1>3. presented \in Seq(Readings) /\ fieldHistory \in [Range(HistoryNames) -> Int]
    BY DEF HistoryHas
  <1>4. fieldHistory' = [name \in Range(HistoryNames) |->
                            IF name \in Kept(data) THEN DecodeField(Number(name), data) ELSE fieldHistory[name]]
    BY <1>1, <1>3 DEF Add
  <1>5. fieldHistory' \in [Range(HistoryNames) -> Int]
    BY <1>3, <1>4, KeptIs
  <1>6. presented' \in Seq(Readings) /\ Len(presented') = Len(presented) + 1
    BY <1>1, <1>2, <1>3, AppendProperties
  <1>7. Len(presented') <= MaxPackets
    BY <1>1, <1>3, <1>6, LenProperties, PacketsAssumption
  <1>8. ASSUME NEW name \in Range(HistoryNames) PROVE fieldHistory'[name] = Newest(name, presented')
    <2>1. fieldHistory[name] = Newest(name, presented)
      BY <1>3 DEF HistoryHas, HistoryIsNewest, Newest, Having
    <2>2. Newest(name, presented') = IF name \in DOMAIN reading THEN reading[name] ELSE Newest(name, presented)
      BY <1>1, <1>2, <1>3, NewestOfMore
    <2> QED
      BY <1>1, <1>4, <2>1, <2>2
  <1>9. HistoryIsNewest'
    BY <1>5, <1>8 DEF HistoryIsNewest, Newest, Having
  <1> QED
    BY <1>5, <1>6, <1>7, <1>9 DEF HistoryHas

\* A field that is set: it reads back, and so do those that share no bit with another.
LEMMA FieldIsSet ==
    ASSUME PacketsHave, NEW p \in DOMAIN packets, NEW j \in FieldNumbers, NEW v \in Int, SetField(p, j, v)
    PROVE  PacketsHave'
  <1>1. PICK n \in Nat : n = Len(packets) /\ n = Len(asSet) /\ DOMAIN packets = 1 .. n /\ DOMAIN asSet = 1 .. n
    BY LenProperties DEF PacketsHave
  <1>2. packets \in [1 .. n -> Seq(Byte)] /\ asSet \in [1 .. n -> Known]
    BY <1>1, LenProperties DEF PacketsHave
  <1>3. PICK data \in Seq(Byte), known \in Known : data = packets[p] /\ known = asSet[p]
    BY <1>1, <1>2
  <1>4. PICK new \in Seq(Byte) : new = Setting(j, data, v)
    BY SettingIs
  <1>5. PICK value \in Int : value = FieldValue(j, v) \div Powers[shift(j)]
    BY ValueIs
  <1>6. PICK said : said = [i \in DOMAIN known |-> IF i = j THEN value ELSE known[i]]
    OBVIOUS
  <1>7. Settable(j, data, v)
    BY <1>3 DEF SetField
  <1>8. packets' = [packets EXCEPT ![p] = new] /\ asSet' = [asSet EXCEPT ![p] = said]
    BY <1>3, <1>4, <1>5, <1>6 DEF SetField
  <1>9. said \in Known
    <2>1. CASE DOMAIN known = {}
      <3>1. said = known
        BY <1>6, <2>1, KnownIs
      <3> QED
        BY <3>1
    <2>2. CASE DOMAIN known = FieldNumbers
      <3>1. said \in [FieldNumbers -> Int]
        BY <1>6, <2>2, KnownIs
      <3> QED
        BY <3>1 DEF Known
    <2> QED
      BY <2>1, <2>2, KnownIs
  <1>10. /\ packets' \in [1 .. n -> Seq(Byte)] /\ packets'[p] = new
         /\ \A q \in 1 .. n : q # p => packets'[q] = packets[q]
    BY <1>1, <1>2, <1>8
  <1>11. /\ asSet' \in [1 .. n -> Known] /\ asSet'[p] = said
         /\ \A q \in 1 .. n : q # p => asSet'[q] = asSet[q]
    BY <1>1, <1>2, <1>8, <1>9
  <1>12. packets' \in Seq(Seq(Byte)) /\ asSet' \in Seq(Known) /\ Len(packets') = n /\ Len(asSet') = n
         /\ DOMAIN packets' = 1 .. n
    BY <1>10, <1>11
  <1>13. ASSUME NEW i \in DOMAIN said
         PROVE  /\ Readable(i, new)
                /\ i \in Separate => DecodeField(i, new) = said[i]
    <2>1. i \in DOMAIN known /\ i \in FieldNumbers /\ j \in DOMAIN known
      BY <1>6, KnownIs
    <2>2. Readable(i, data) /\ Readable(j, data)
      BY <1>1, <1>3, <2>1 DEF PacketsHave, PacketsWhole
    <2>3. Len(new) = Len(data)
      BY <1>4, <2>2, SettingReplaces
    <2>4. Readable(i, new)
      BY <2>1, <2>2, <2>3, StaysReadable
    <2>5. CASE i = j
      BY <1>4, <1>5, <1>6, <1>7, <2>1, <2>2, <2>4, <2>5, ReadsBack
    <2>6. ASSUME i # j, i \in Separate PROVE DecodeField(i, new) = said[i]
      <3>1. ~Overlap(i, j)
        BY <2>6 DEF Separate
      <3>2. DecodeField(i, new) = DecodeField(i, data)
        BY <1>4, <2>1, <2>2, <3>1, NeighbourStays
      <3>3. DecodeField(i, data) = known[i]
        BY <1>1, <1>3, <2>1, <2>6 DEF PacketsHave, FieldsKeepApart
      <3> QED
        BY <1>6, <2>1, <2>6, <3>2, <3>3
    <2> QED
      BY <2>4, <2>5, <2>6
  <1>14. PacketsWhole'
    <2>1. ASSUME NEW q \in 1 .. n, NEW i \in DOMAIN asSet'[q] PROVE Readable(i, packets'[q])
      <3>1. CASE q = p
        BY <1>10, <1>11, <1>13, <3>1
      <3>2. CASE q # p
        BY <1>1, <1>10, <1>11, <3>2 DEF PacketsHave, PacketsWhole
      <3> QED
        BY <3>1, <3>2
    <2> QED
      BY <1>12, <2>1 DEF PacketsWhole
  <1>15. FieldsKeepApart'
    <2>1. ASSUME NEW q \in 1 .. n, NEW i \in DOMAIN asSet'[q] \cap Separate
          PROVE  Readable(i, packets'[q]) /\ DecodeField(i, packets'[q]) = asSet'[q][i]
      <3>1. CASE q = p
        BY <1>10, <1>11, <1>13, <3>1
      <3>2. CASE q # p
        BY <1>1, <1>10, <1>11, <3>2 DEF PacketsHave, FieldsKeepApart
      <3> QED
        BY <3>1, <3>2
    <2> QED
      BY <1>12, <2>1 DEF FieldsKeepApart
  <1> QED
    BY <1>12, <1>14, <1>15 DEF PacketsHave

LEMMA HistoryStays ==
    ASSUME HistoryHas, fieldHistory' = fieldHistory, presented' = presented
    PROVE  HistoryHas'
  <1>1. \A name \in DOMAIN fieldHistory : fieldHistory[name] = Newest(name, presented)
    BY DEF HistoryHas, HistoryIsNewest, Newest, Having
  <1>2. \A name \in DOMAIN fieldHistory' : fieldHistory'[name] = Newest(name, presented')
    BY <1>1
  <1>3. HistoryIsNewest'
    BY <1>2 DEF HistoryIsNewest, Newest, Having
  <1> QED
    BY <1>3 DEF HistoryHas

LEMMA PacketsStep ==
    PacketsInv /\ [PacketsNext]_packetVars => PacketsInv'
  <1> SUFFICES ASSUME PacketsInv, [PacketsNext]_packetVars PROVE PacketsInv'
    OBVIOUS
  <1>1. PacketsHave /\ HistoryHas /\ setCount \in 0 .. MaxSets
    BY DEF PacketsInv
  <1>2. ASSUME NEW data \in RawData \cup {[b \in 1 .. packetSize |-> 0]}, MakePacket(data) PROVE PacketsInv'
    <2>1. data \in Seq(Byte)
      <3>1. [b \in 1 .. packetSize |-> 0] \in [1 .. packetSize -> Byte]
        BY DEF Byte
      <3>2. [b \in 1 .. packetSize |-> 0] \in Seq(Byte)
        BY <3>1, SizeIs
      <3> QED
        BY <3>2, PacketsAssumption
    <2>2. PacketsHave' /\ HistoryHas'
      BY <1>1, <1>2, <2>1, PacketAdded, ReadingAdded
    <2>3. setCount' = setCount
      BY <1>2 DEF MakePacket
    <2> QED
      BY <1>1, <2>2, <2>3 DEF PacketsInv
  <1>3. ASSUME NEW p \in DOMAIN packets, NEW name \in FieldNames, NEW v \in SetValues, SetField(p, Number(name), v)
        PROVE  PacketsInv'
    <2>1. Number(name) \in FieldNumbers /\ v \in Int
      BY NumberOfName, PacketsAssumption
    <2>2. PacketsHave'
      BY <1>1, <1>3, <2>1, FieldIsSet
    <2>3. fieldHistory' = fieldHistory /\ presented' = presented
      BY <1>3 DEF SetField
    <2>4. HistoryHas'
      BY <1>1, <2>3, HistoryStays
    <2>5. setCount' \in 0 .. MaxSets
      BY <1>1, <1>3, PacketsAssumption DEF SetField
    <2> QED
      BY <2>2, <2>4, <2>5 DEF PacketsInv
  <1>4. CASE UNCHANGED packetVars
    <2>1. packets' = packets /\ setCount' = setCount /\ fieldHistory' = fieldHistory /\ asSet' = asSet /\ presented' = presented
      BY <1>4 DEF packetVars
    <2>2. PacketsHave'
      BY <1>1, <2>1 DEF PacketsHave, PacketsWhole, FieldsKeepApart
    <2>3. HistoryHas'
      BY <1>1, <2>1, HistoryStays
    <2> QED
      BY <1>1, <2>1, <2>2, <2>3 DEF PacketsInv
  <1> QED
    BY <1>2, <1>3, <1>4 DEF PacketsNext

\* The invariant holds of every packet and of the history they share (tlm.py 398-526, 890-942).
THEOREM PacketsAreSound ==
    PacketsSpec => []PacketsInv
  <1>1. PacketsInit => PacketsInv
    BY PacketsStart
  <1>2. PacketsInv /\ [PacketsNext]_packetVars => PacketsInv'
    BY PacketsStep
  <1> QED
    BY <1>1, <1>2, PTL DEF PacketsSpec

\* A field that shares no bit with another reads back what it was last set to, or what the
\* packet was made with, whatever was set in between: of any definition of fields, whatever
\* their types, byte orders, places and masks (tlm.py 313-369, 424-455).
THEOREM FieldsReadBack ==
    PacketsSpec => []FieldsKeepApart
  <1>1. PacketsInv => FieldsKeepApart
    BY DEF PacketsInv, PacketsHave
  <1> QED
    BY <1>1, PacketsAreSound, PTL

\* The history has the newest value of each of its fields, however short the data of a
\* packet and whichever fields it lacks (tlm.py 401-415, 464-496, 937-942).
THEOREM HistoryHasNewest ==
    PacketsSpec => []HistoryIsNewest
  <1>1. PacketsInv => HistoryIsNewest
    BY DEF PacketsInv, HistoryHas
  <1> QED
    BY <1>1, PacketsAreSound, PTL

\* Packets are bytes, the history has a number for each of its fields, and no more packets
\* are made nor fields set than the bounds allow (tlm.py 401-455, 890-942).
THEOREM PacketsTypeCorrect ==
    PacketsSpec => []PacketsTypes
  <1>1. PacketsInv => PacketsTypes
    <2> SUFFICES ASSUME PacketsInv PROVE PacketsTypes
      OBVIOUS
    <2>1. Len(presented) \in 0 .. MaxPackets
      BY LenProperties, PacketsAssumption DEF PacketsInv, HistoryHas
    <2> QED
      BY <2>1 DEF PacketsInv, PacketsHave, HistoryHas, PacketsTypes
  <1> QED
    BY <1>1, PacketsAreSound, PTL

==============================================================================
