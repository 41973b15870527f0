---------------------------- MODULE LimitMonitor ----------------------------
(***************************************************************************)
(* server/plugins/limit_monitor.py with limits.py and notify.py: each      *)
(* field of a packet is held against its limits; the first violation of a  *)
(* row that reaches a threshold is notified, and then every so many of it. *)
(***************************************************************************)
EXTENDS Integers, Sequences

CONSTANTS NoBound,         \* a bound that a limit does not give
          Infinite,        \* the default frequency, float("inf")
          LimitSets,       \* tuples of limits, one limit for each field
          Values,
          NotifyOptions,   \* notifications.options
          MaxSeen          \* bound: values of a field

Level == [lower : Int \cup {NoBound}, upper : Int \cup {NoBound}, values : SUBSET Int]

ASSUME LimitMonitorAssumption ==
    /\ NoBound \notin Int
    /\ Infinite \notin Int
    /\ Values \subseteq Int
    /\ \A l \in LimitSets : l # <<>> /\ l \in Seq([error : Level, warn : Level])
    /\ MaxSeen \in Nat
    /\ \A o \in NotifyOptions : o.threshold \in Nat \ {0} /\ o.frequency \in (Nat \ {0}) \cup {Infinite}

VARIABLES limits,       \* the limits of the packet's fields
          options,
          field,        \* the field that is checked next
          repeats,      \* limit_trip_repeats of the packet
          seen,         \* history: the values of each field
          notified,     \* history: for each field, the values that were notified
          monitoring    \* the plugin's greenlet lives

limitVars == <<limits, options, field, repeats, seen, notified, monitoring>>

Fields == DOMAIN limits

LimitMonitorInit == /\ limits \in LimitSets
                    /\ options \in NotifyOptions
                    /\ field = 1
                    /\ repeats = [f \in Fields |-> 0]
                    /\ seen = [f \in Fields |-> <<>>]
                    /\ notified = [f \in Fields |-> {}]
                    /\ monitoring = TRUE

-----------------------------------------------------------------------------
\* LimitDefinition.error and warn, for what the limit has of that level.
Violates(v, level) == \/ level.lower # NoBound /\ v < level.lower
                      \/ level.upper # NoBound /\ v > level.upper
                      \/ v \in level.values

Due(n) == \/ n = options.threshold
          \/ /\ n > options.threshold
             /\ options.frequency # Infinite
             /\ (n - options.threshold) % options.frequency = 0

NextField == IF field = Len(limits) THEN 1 ELSE field + 1

\* mutated: a nominal value leaves the count alone
NominalForgotten(v) ==
    /\ ~Violates(v, limits[field].error)
    /\ ~Violates(v, limits[field].warn)
    /\ seen' = [seen EXCEPT ![field] = Append(@, v)]
    /\ field' = NextField
    /\ UNCHANGED <<limits, options, repeats, notified, monitoring>>

Nominal(v) ==
    /\ ~Violates(v, limits[field].error)
    /\ ~Violates(v, limits[field].warn)
    /\ seen' = [seen EXCEPT ![field] = Append(@, v)]
    /\ repeats' = [repeats EXCEPT ![field] = 0]
    /\ field' = NextField
    /\ UNCHANGED <<limits, options, notified, monitoring>>

\* An error or a warning; both are counted in the same place.
Count(v, trigger) ==
    /\ Violates(v, limits[field][trigger])
    /\ trigger = "warn" => ~Violates(v, limits[field].error)
    /\ seen' = [seen EXCEPT ![field] = Append(@, v)]
    /\ repeats' = [repeats EXCEPT ![field] = @ + 1]
    /\ notified' = IF Due(repeats'[field])
                   THEN [notified EXCEPT ![field] = @ \cup {<<Len(seen'[field]), trigger>>}]
                   ELSE notified

Trip(v, trigger) == /\ Count(v, trigger)
                    /\ field' = NextField
                    /\ UNCHANGED <<limits, options, monitoring>>

\* The value cannot be had, or compared.
FieldRaises == /\ monitoring' = FALSE
               /\ UNCHANGED <<limits, options, field, repeats, seen, notified>>

\* Sending the notification raises what _send_email does not expect, a refused
\* connection for one; the fields that follow are not looked at.
NotificationRaises(v, trigger) == /\ Count(v, trigger)
                                  /\ Due(repeats[field] + 1)
                                  /\ monitoring' = FALSE
                                  /\ UNCHANGED <<limits, options, field>>

\* One turn of the loop over the fields; a packet begins with the first one.
LimitMonitorNext ==
    /\ monitoring
    /\ Len(seen[field]) < MaxSeen
    /\ \/ \E v \in Values : \/ Nominal(v)
                            \/ \E t \in {"error", "warn"} : \/ Trip(v, t)
                                                            \/ NotificationRaises(v, t)
       \/ FieldRaises

LimitMonitorSpec == LimitMonitorInit /\ [][LimitMonitorNext]_limitVars

-----------------------------------------------------------------------------
LimitMonitorTypes == /\ limits \in LimitSets
                     /\ options \in NotifyOptions
                     /\ field \in Fields
                     /\ repeats \in [Fields -> 0 .. MaxSeen]
                     /\ seen \in [Fields -> Seq(Values)]
                     /\ notified \in [Fields -> SUBSET ((1 .. MaxSeen) \X {"error", "warn"})]
                     /\ monitoring \in BOOLEAN

Bad(f, i) == \E t \in {"error", "warn"} : Violates(seen[f][i], limits[f][t])

\* The i-th value of f is bad, as are just the n - 1 before it.
RowOf(f, i, n) == /\ n <= i
                  /\ \A k \in i - n + 1 .. i : Bad(f, k)
                  /\ n < i => ~Bad(f, i - n)

Rings == {options.threshold} \cup
         {n \in options.threshold + 1 .. MaxSeen :
            \E m \in 1 .. MaxSeen :
               options.frequency # Infinite /\ n = options.threshold + m * options.frequency}

\* A value is notified if and only if it is the threshold-th bad one in a row,
\* errors and warnings together, or comes a multiple of the frequency after
\* that one, and as an error whenever it is one (limit_monitor.py 58-95).
NotifiedAsConfigured ==
    \A f \in Fields :
       /\ notified[f] \subseteq (1 .. Len(seen[f])) \X {"error", "warn"}
       /\ \A i \in 1 .. Len(seen[f]), t \in {"error", "warn"} :
             <<i, t>> \in notified[f] <=> /\ t = "error" <=> Violates(seen[f][i], limits[f].error)
                                         /\ \E n \in Rings : RowOf(f, i, n)
=============================================================================
