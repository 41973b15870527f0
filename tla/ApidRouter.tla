----------------------------- MODULE ApidRouter -----------------------------
(***************************************************************************)
(* server/plugins/apid_routing.py: the table that says which topics a      *)
(* packet of an APID is published under, built entry by entry from a file. *)
(***************************************************************************)
EXTENDS Naturals, Sequences, FiniteSets, SequencesExt

CONSTANTS Apids,           \* the APIDs of the telemetry dictionary
          DefaultTopic,
          TableEntries,    \* what a routing table may list
          MaxListed        \* bound: entries of a routing table

\* An entry is a number, a range or an exclusion, below the name of a topic.  An
\* exclusion does not name an APID twice.
ASSUME ApidRouterAssumption ==
    /\ Apids \subseteq Nat
    /\ \A e \in TableEntries :
          \/ e.operator = "apid" /\ e.apids \in Seq(Nat) /\ Len(e.apids) = 1
          \/ e.operator = "range" /\ e.apids \in Seq(Nat) /\ Len(e.apids) = 2
          \/ /\ e.operator = "exclude" /\ e.apids \in Seq(Nat)
             /\ \A i, j \in DOMAIN e.apids : i # j => e.apids[i] # e.apids[j]
    /\ MaxListed \in Nat

VARIABLES listed,          \* history: the entries that were read
          routing_table,
          loading          \* "entries", "loaded", or "raised" a KeyError

routerVars == <<listed, routing_table, loading>>

RouterInit == /\ listed = <<>>
              /\ routing_table = [a \in Apids |-> <<DefaultTopic>>]
              /\ loading = "entries"

-----------------------------------------------------------------------------
\* mutated: the end of a range is left out
SelectedExclusive(e) == IF e.operator = "range" THEN e.apids[1] .. e.apids[2] - 1
                        ELSE {e.apids[i] : i \in DOMAIN e.apids}

\* A range includes its end.
Selected(e) == IF e.operator = "range" THEN e.apids[1] .. e.apids[2]
               ELSE {e.apids[i] : i \in DOMAIN e.apids}

AddTopic(e) ==
    /\ e.operator \in {"apid", "range"}
    /\ Selected(e) \subseteq Apids
    /\ routing_table' = [a \in Apids |-> IF a \in Selected(e)
                                         THEN Append(routing_table[a], e.topic)
                                         ELSE routing_table[a]]

\* list.remove() takes the first occurrence.
RemoveTopic(e) ==
    /\ e.operator = "exclude"
    /\ Selected(e) \subseteq Apids
    /\ routing_table' = [a \in Apids |-> IF a \in Selected(e)
                                         THEN RemoveFirst(routing_table[a], e.topic)
                                         ELSE routing_table[a]]

ReadEntry(e) == /\ Len(listed) < MaxListed
                /\ AddTopic(e) \/ RemoveTopic(e)
                /\ listed' = Append(listed, e)
                /\ UNCHANGED loading

\* routing_table[apid] of an APID that is not in the dictionary raises, out of
\* the constructor.
UnknownApid(e) == /\ ~(Selected(e) \subseteq Apids)
                  /\ loading' = "raised"
                  /\ UNCHANGED <<listed, routing_table>>

TableRead == /\ loading' = "loaded"
             /\ UNCHANGED <<listed, routing_table>>

RouterNext == /\ loading = "entries"
              /\ \/ \E e \in TableEntries : ReadEntry(e) \/ UnknownApid(e)
                 \/ TableRead

RouterSpec == RouterInit /\ [][RouterNext]_routerVars

-----------------------------------------------------------------------------
Topics == {DefaultTopic} \cup {e.topic : e \in TableEntries}

RouterTypes == /\ listed \in Seq(TableEntries)
               /\ routing_table \in [Apids -> Seq(Topics)]
               /\ loading \in {"entries", "loaded", "raised"}

Lists(e, a, t) == /\ e.topic = t
                  /\ \/ e.operator = "apid" /\ e.apids[1] = a
                     \/ e.operator = "range" /\ e.apids[1] <= a /\ a <= e.apids[2]

Excludes(e, a, t) == e.topic = t /\ e.operator = "exclude" /\ a \in Range(e.apids)

Listings(a, t) == {i \in DOMAIN listed : Lists(listed[i], a, t)}
                  \cup (IF t = DefaultTopic THEN {0} ELSE {})

\* An APID that a topic lists at most once, as a number or between the two ends
\* of a range, is published under it exactly once if no later entry of the topic
\* excludes it, and otherwise not at all.  The default topic lists all of them,
\* before the file does (apid_routing.py 114-234).
RoutesAsListed ==
    \A a \in Apids, t \in Topics :
       LET row == routing_table[a]
           stays == \E i \in Listings(a, t) : \A j \in i + 1 .. Len(listed) : ~Excludes(listed[j], a, t) IN
       (\A i, j \in Listings(a, t) : i = j) =>
          IF stays THEN \E k \in DOMAIN row : \A j \in DOMAIN row : row[j] = t <=> j = k
                   ELSE \A j \in DOMAIN row : row[j] # t
=============================================================================
