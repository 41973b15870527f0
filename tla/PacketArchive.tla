---------------------------- MODULE PacketArchive ----------------------------
(***************************************************************************)
(* ait/core/db.py with the data archive plugin and ait-tlm-db-insert:      *)
(* packets go into a table for each type and come back from a query, whose *)
(* generator takes one packet of every type at a time and sorts those.     *)
(*                                                                         *)
(* A row is the time of a packet and the number of its insertion.          *)
(***************************************************************************)
EXTENDS Integers, Sequences, FiniteSets

CONSTANTS PacketTypes,    \* the packets of the telemetry dictionary, in its order
          FirstTypes,     \* how many of them the dictionary has to begin with
          Times,          \* of packets, and the ends of queries
          MaxInserted,    \* bound: insertions tried
          MaxQueries      \* bound: queries

ASSUME PacketArchiveAssumption ==
    /\ \A i, j \in DOMAIN PacketTypes : PacketTypes[i] = PacketTypes[j] => i = j
    /\ PacketTypes \in Seq({PacketTypes[i] : i \in DOMAIN PacketTypes})
    /\ FirstTypes \in 1 .. Len(PacketTypes)
    /\ Times \subseteq Nat
    /\ MaxInserted \in Nat /\ MaxQueries \in Nat

VARIABLES backend,      \* "sqlite" or "influx"
          nknown,       \* the dictionary has this many of PacketTypes
          connected,
          tables,       \* the rows of each table
          inserted,     \* insertions tried
          queries,      \* queries made
          cursors,      \* the results of the query: a type and its rows to come
          broken,       \* whether an exception has ended the generator
          round,        \* the packets of a round that the generator has still to yield
          yielded,      \* what it has yielded: types and rows
          asked,        \* history: the results when the query was made
          failed        \* types whose table the query could not read

archiveVars == <<backend, nknown, connected, tables, inserted, queries, cursors, round,
                 yielded, asked, failed, broken>>

Known == {PacketTypes[i] : i \in 1 .. nknown}

ArchiveInit == /\ backend \in {"sqlite", "influx"}
               /\ nknown = FirstTypes
               /\ connected = FALSE
               /\ tables = << >>
               /\ inserted = 0 /\ queries = 0
               /\ cursors = <<>> /\ round = <<>> /\ yielded = <<>> /\ asked = <<>>
               /\ failed = {} /\ broken = FALSE

\* A process with a larger dictionary starts, and has not connected.
DictionaryGrows == /\ nknown < Len(PacketTypes)
                   /\ nknown' = nknown + 1
                   /\ connected' = FALSE
                   /\ cursors' = <<>> /\ round' = <<>> /\ yielded' = <<>> /\ asked' = <<>>
                   /\ failed' = {} /\ broken' = FALSE
                   /\ UNCHANGED <<backend, tables, inserted, queries>>

\* SQLiteBackend.connect creates the tables when there is no file, and no table when
\* there is one; InfluxDB makes a table of what is written to it.
Connect == /\ ~connected
           /\ connected' = TRUE
           /\ tables' = IF backend = "sqlite" /\ tables = << >>
                        THEN [t \in Known |-> {}] ELSE tables
           /\ UNCHANGED <<backend, nknown, inserted, queries, cursors, round, yielded, asked,
                          failed, broken>>

-----------------------------------------------------------------------------
(* insert()                                                                *)

Rows(t) == IF t \in DOMAIN tables THEN tables[t] ELSE {}
Store(t, rows) == tables' = [u \in DOMAIN tables \cup {t} |-> IF u = t THEN rows ELSE tables[u]]

Inserting(t) == /\ connected
                /\ t \in Known
                /\ inserted < MaxInserted
                /\ inserted' = inserted + 1
                /\ UNCHANGED <<backend, nknown, connected, queries, cursors, round, yielded, asked,
                               failed, broken>>

\* At a time that is given, or, for InfluxDB only, at the clock's; the data archive gives none.
InsertAtTime(t, time) ==
    /\ Inserting(t)
    /\ \/ /\ backend = "sqlite" /\ t \in DOMAIN tables
          /\ Store(t, tables[t] \cup {[time |-> time, id |-> inserted']})
       \/ /\ backend = "influx"
          /\ Store(t, {r \in Rows(t) : r.time # time} \cup {[time |-> time, id |-> inserted']})

\* What raises, and the data archive logs: SQLite without a time, because the value is
\* passed for the sequence of the values (db.py 712-718); a table that is not there; an
\* InfluxDB that cannot be reached.
InsertRaises(t) == /\ Inserting(t)
                   /\ UNCHANGED tables

-----------------------------------------------------------------------------
(* query_packets()                                                         *)

\* What is in a set, in the order of its keys.
Precedes(k, l) == k[1] < l[1] \/ (k[1] = l[1] /\ k[2] < l[2])
Sorted(S, key) == [n \in 1 .. Cardinality(S) |->
                      CHOOSE x \in S : Cardinality({y \in S : Precedes(key[y], key[x])}) = n - 1]

InRange(rows, from, to) == {r \in rows : from <= r.time /\ r.time <= to}
ByTime(rows) == Sorted(rows, [r \in rows |-> <<r.time, r.id>>])

\* The query is made when it is asked for; its packets are made as they are taken.  A type
\* without a table has no result, which is to the generator as one without rows.
Ask(types, from, to) ==
    /\ queries < MaxQueries
    /\ queries' = queries + 1
    /\ cursors' = [i \in DOMAIN types |->
                      [type |-> types[i], rows |-> ByTime(InRange(Rows(types[i]), from, to))]]
    /\ asked' = cursors'
    /\ failed' = {types[i] : i \in DOMAIN types} \ DOMAIN tables
    /\ round' = <<>> /\ yielded' = <<>> /\ broken' = FALSE
    /\ UNCHANGED <<backend, nknown, connected, tables, inserted>>

\* A name that is not in the dictionary raises ValueError, and nothing is asked.
QuerySqlite(types, from, to) ==
    /\ connected /\ backend = "sqlite"
    /\ \A i \in DOMAIN types : types[i] \in Known
    /\ Ask(types, from, to)

\* The names are joined within one pair of quotes, which is the name of a table for one
\* name only; with none given there are quotes within the quotes, unless the dictionary
\* has a single name, and even then: the query is answered with an error.
QueryInflux(types, from, to) ==
    /\ connected /\ backend = "influx"
    /\ \A i \in DOMAIN types : types[i] \in Known
    /\ Ask(IF Len(types) = 1 THEN types ELSE <<>>, from, to)

\* mutated: the rounds end with the shortest result
ZipShortest == /\ cursors # <<>>
               /\ \A i \in DOMAIN cursors : cursors[i].rows # <<>>

\* itertools.zip_longest
ZipLongest == \E i \in DOMAIN cursors : cursors[i].rows # <<>>

\* The next row of every result that has one, sorted by time, the order of the results
\* kept among equals.
Heads == {[at |-> i, type |-> cursors[i].type, row |-> Head(cursors[i].rows)] :
             i \in {k \in DOMAIN cursors : cursors[k].rows # <<>>}}

AtRound == round = <<>> /\ ZipLongest /\ ~broken

NextRound ==
    /\ AtRound
    /\ round' = Sorted(Heads, [h \in Heads |-> <<h.row.time, h.at>>])
    /\ cursors' = [i \in DOMAIN cursors |->
                      [cursors[i] EXCEPT !.rows = IF @ = <<>> THEN <<>> ELSE Tail(@)]]
    /\ UNCHANGED <<backend, nknown, connected, tables, inserted, queries, yielded, asked,
                   failed, broken>>

\* InfluxDB writes a time with the digits it has, none for a whole second and nine for the
\* server's clock: what is not a point and up to six digits does not parse, and the
\* exception ends the generator, with a round taken and none of it yielded.  So does a
\* field of a result that is missing or of no use (db.py 487-488, 600-627).
GeneratorRaises ==
    /\ backend = "influx"
    /\ AtRound
    /\ broken' = TRUE
    /\ UNCHANGED <<backend, nknown, connected, tables, inserted, queries, cursors, round,
                   yielded, asked, failed>>

YieldPacket == /\ round # <<>>
               /\ yielded' = Append(yielded, [type |-> Head(round).type, row |-> Head(round).row])
               /\ round' = Tail(round)
               /\ UNCHANGED <<backend, nknown, connected, tables, inserted, queries, cursors,
                              asked, failed, broken>>

Selections == {SubSeq(PacketTypes, i, j) : i, j \in DOMAIN PacketTypes} \ {<<>>}

ArchiveNext ==
    \/ DictionaryGrows \/ Connect
    \/ \E i \in DOMAIN PacketTypes :
          \/ \E time \in Times : InsertAtTime(PacketTypes[i], time)
          \/ InsertRaises(PacketTypes[i])
    \/ \E types \in Selections, from, to \in Times :
          QuerySqlite(types, from, to) \/ QueryInflux(types, from, to)
    \/ NextRound \/ GeneratorRaises \/ YieldPacket

ArchiveSpec == ArchiveInit /\ [][ArchiveNext]_archiveVars

-----------------------------------------------------------------------------
ArchiveTypes == /\ nknown \in FirstTypes .. Len(PacketTypes)
                /\ connected \in BOOLEAN
                /\ DOMAIN tables \subseteq Known
                /\ inserted \in 0 .. MaxInserted
                /\ queries \in 0 .. MaxQueries
                /\ failed \subseteq Known
                /\ broken \in BOOLEAN

Exhausted == round = <<>> /\ ~ZipLongest

\* Packets of one type among the first that were yielded.
YieldedOf(t, k) == {j \in 1 .. k : yielded[j].type = t}

\* Whatever is inserted while a query's packets are taken, and even when an exception ends
\* it, a generator has yielded the first of the packets of each type that were in the range
\* of the query when it was made, in the order of their times, each once and no other; one
\* that came to its end has yielded all of them.  A type without a table costs the others
\* nothing (db.py 480-502, 805-863).
QueryYieldsEach ==
    /\ \A i \in DOMAIN asked :
          LET rows == asked[i].rows
              type == asked[i].type IN
          /\ Exhausted => Cardinality(YieldedOf(type, Len(yielded))) = Len(rows)
          /\ \A j \in YieldedOf(type, Len(yielded)) :
                /\ Cardinality(YieldedOf(type, j)) <= Len(rows)
                /\ yielded[j].row = rows[Cardinality(YieldedOf(type, j))]
          /\ \A j, k \in DOMAIN rows : j < k => rows[j].time <= rows[k].time
    /\ \A j \in DOMAIN yielded : \E i \in DOMAIN asked : asked[i].type = yielded[j].type

\* The packets of a query come in the order of their times, whatever their types
\* (db.py 794-795: "a generator of all packet objects returned by the query in
\* time-sorted order").
QueryIsTimeSorted ==
    \A i, j \in DOMAIN yielded : i < j => yielded[i].row.time <= yielded[j].row.time
=============================================================================
