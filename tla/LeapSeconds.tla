----------------------------- MODULE LeapSeconds -----------------------------
(***************************************************************************)
(* The leap second table of ait/core/dmc.py: kept in a file that is read   *)
(* when the module is loaded, fetched anew when it has expired, and used   *)
(* to tell GPS time.  Dates count from the GPS epoch; a unit of time is a  *)
(* second, and leap seconds take effect on a date.                         *)
(***************************************************************************)
EXTENDS Integers, Sequences, FiniteSets

CONSTANTS BeforeEpoch,    \* dates of the published list before the epoch
          SecondsInWeek,
          Horizon,        \* how far ahead of its announcement the list holds
          ZoneOffsets,    \* what the clock of the process may show more than UTC
          LastDate,       \* bound: of the clock
          MaxKills        \* bound: crashes

ASSUME LeapSecondsAssumption ==
    /\ SecondsInWeek \in Nat \ {0} /\ Horizon \in Nat \ {0}
    /\ ZoneOffsets \subseteq Int /\ ZoneOffsets # {}
    /\ LastDate \in Nat /\ MaxKills \in Nat
    /\ BeforeEpoch \in Seq(Int) /\ \A i \in DOMAIN BeforeEpoch : BeforeEpoch[i] < 0

NoTable == [valid |-> 0, leapseconds |-> {}, there |-> FALSE]
CutShort == [valid |-> 0, leapseconds |-> {}, there |-> TRUE]

VARIABLES today,       \* the clock, in UTC
          list,        \* what the IERS publishes: its expiry and the dates
          lsFile,      \* leapseconds.dat: NoTable, CutShort, or what was packed
          lsData,      \* UTCLeapSeconds._data, or NoTable
          module,      \* "down", "updating", "writing" or "loaded"
          kills

leapVars == <<today, list, lsFile, lsData, module, kills>>

LeapInit == /\ today = 0
            /\ list = [valid |-> Horizon, dates |-> BeforeEpoch]
            /\ lsFile = NoTable
            /\ lsData = NoTable
            /\ module = "down"
            /\ kills = 0

-----------------------------------------------------------------------------
(* The world                                                               *)

ClockMoves == /\ today < LastDate
              /\ today' = today + 1
              /\ UNCHANGED <<list, lsFile, lsData, module, kills>>

\* Before the list expires, it is announced whether a leap second follows.
Announce == /\ list.valid < today + Horizon
            /\ \E dates \in {<<>>, <<list.valid>>} :
                  list' = [valid |-> list.valid + 2, dates |-> list.dates \o dates]
            /\ UNCHANGED <<today, lsFile, lsData, module, kills>>

-----------------------------------------------------------------------------
(* UTCLeapSeconds._load_leap_second_data                                   *)

\* The local time, with no zone to it, is compared with a date in UTC.
is_valid(table, zone) == today + zone < table.valid

\* A file that is not there or does not unpack leaves no data.
Load == /\ module = "down"
        /\ lsData' = IF lsFile = CutShort THEN NoTable ELSE lsFile
        /\ \E zone \in ZoneOffsets :
              module' = IF lsData'.there /\ is_valid(lsData', zone) THEN "loaded" ELSE "updating"
        /\ UNCHANGED <<today, list, lsFile, kills>>

\* A date after the epoch and the count of leap seconds up to it, which also tells its
\* place in the table.
LeapSecond(dates, i) == [date |-> dates[i], offset |-> Cardinality({j \in 1 .. i : dates[j] >= 0})]

Table(published) ==
    [valid |-> published.valid, there |-> TRUE,
     leapseconds |-> {LeapSecond(published.dates, i) :
                        i \in {j \in DOMAIN published.dates : published.dates[j] >= 0}}]

\* ValueError: the answer is not 200 or not numbers.  Old data will do.
UpdateRefused == /\ module = "updating"
                 /\ module' = IF lsData.there THEN "loaded" ELSE "down"
                 /\ UNCHANGED <<today, list, lsFile, lsData, kills>>

\* Any other exception, of the connection or of opening the file, leaves the
\* constructor, and the module is not loaded, whatever data there was.
UpdateRaises == /\ module = "updating"
                /\ module' = "down"
                /\ lsData' = NoTable
                /\ UNCHANGED <<today, list, lsFile, kills>>

\* The data is taken, and the file opened for writing, which empties it.
Fetch == /\ module = "updating"
         /\ lsData' = Table(list)
         /\ lsFile' = CutShort
         /\ module' = "writing"
         /\ UNCHANGED <<today, list, kills>>

WriteTable == /\ module = "writing"
              /\ lsFile' = lsData
              /\ module' = "loaded"
              /\ UNCHANGED <<today, list, lsData, kills>>

WriteRaises == /\ module = "writing"
               /\ module' = "down"
               /\ lsData' = NoTable
               /\ UNCHANGED <<today, list, lsFile, kills>>

ModuleKilled == /\ module # "down"
                /\ kills < MaxKills
                /\ kills' = kills + 1
                /\ module' = "down"
                /\ lsData' = NoTable
                /\ UNCHANGED <<today, list, lsFile>>

LeapNext == \/ ClockMoves \/ Announce \/ Load \/ UpdateRefused \/ UpdateRaises
            \/ Fetch \/ WriteTable \/ WriteRaises \/ ModuleKilled

LeapSpec == LeapInit /\ [][LeapNext]_leapVars

-----------------------------------------------------------------------------
(* What the table is used for                                              *)

\* mutated: an offset takes effect a second late
OffsetLate(timestamp) ==
    LET since == {l \in lsData.leapseconds : timestamp > l.date} IN
    IF since = {} THEN 0 ELSE (CHOOSE l \in since : \A k \in since : k.offset <= l.offset).offset

\* The offset of the last date that is not after the timestamp.
get_gps_offset_for_date(timestamp) ==
    LET since == {l \in lsData.leapseconds : timestamp >= l.date} IN
    IF since = {} THEN 0 ELSE (CHOOSE l \in since : \A k \in since : k.offset <= l.offset).offset

to_gps_week_and_secs(timestamp) ==
    LET delta == timestamp + get_gps_offset_for_date(timestamp) IN
    <<delta \div SecondsInWeek, delta % SecondsInWeek>>

-----------------------------------------------------------------------------
LeapTypes == /\ today \in 0 .. LastDate
             /\ list.valid \in Nat /\ list.dates \in Seq(Int)
             /\ module \in {"down", "updating", "writing", "loaded"}
             /\ {"valid", "leapseconds", "there"} = DOMAIN lsData
             /\ {"valid", "leapseconds", "there"} = DOMAIN lsFile
             /\ kills \in 0 .. MaxKills

\* Whether its table is new, was read from the file, or is out of date because the
\* update was refused, and whatever crashes cut the file short, a loaded module tells
\* the GPS time of every second up to the expiry of its table: the seconds elapsed
\* since the epoch, with every leap second that had taken effect by then
\* (dmc.py 119-139, 303-365, 404-424).
GpsTimeIsElapsed ==
    module = "loaded" => \A t \in 0 .. lsData.valid - 1 :
        LET gps  == to_gps_week_and_secs(t)
            leap == Cardinality({i \in DOMAIN list.dates : 0 <= list.dates[i] /\ list.dates[i] <= t})
        IN SecondsInWeek * gps[1] + gps[2] = t + leap
=============================================================================
