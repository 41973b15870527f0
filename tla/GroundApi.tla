------------------------------ MODULE GroundApi ------------------------------
(***************************************************************************)
(* ait/core/api.py without GeventDeque: a script sends commands, each of   *)
(* which is recorded in the command history file, and waits for conditions *)
(* on telemetry, which the monitor's greenlet puts into a buffer for each  *)
(* kind of packet.  Time is counted in the steps of 0.25 s of wait().      *)
(*                                                                         *)
(* A packet is the mode it reports; a condition is that the newest packet  *)
(* of its kind reports the mode waited for.                                *)
(***************************************************************************)
EXTENDS Naturals, Sequences, FiniteSets, SequencesExt

CONSTANTS PacketNames,    \* the packets of the Instrument
          Modes,
          Capacity,       \* of a packet buffer
          Timeouts,       \* what _timeout may be, in steps
          Forever,        \* _timeout=None
          MaxCommands,    \* bound: calls of send()
          MaxReceived     \* bound: packets from the server

ASSUME GroundApiAssumption ==
    /\ PacketNames # {} /\ Modes # {}
    /\ Capacity \in Nat \ {0}
    /\ Forever \notin Nat
    /\ Timeouts \subseteq Nat \cup {Forever}
    /\ MaxCommands \in Nat /\ MaxReceived \in Nat

VARIABLES script,       \* "idle"; "recording" a command it sent, or has "recorded" it and is
                        \* still in send(); "waiting"; or "killed"
          answers,      \* what each call of send() came to
          sent,         \* commands that left, by the number of the call
          history,      \* the command history file
          pktbufs,      \* PacketBuffers: newest first
          received,     \* how many packets the monitor got
          watching,     \* the monitor's greenlet lives
          waiting,      \* the arguments of wait() and its variable elapsed
          trueSince,    \* history: elapsed when the condition became true
          waited        \* what the last wait() came to

groundVars == <<script, answers, sent, history, pktbufs, received, watching,
                waiting, trueSince, waited>>

Calls == 1 .. MaxCommands
NotWaiting == [packet |-> CHOOSE p \in PacketNames : TRUE, mode |-> CHOOSE m \in Modes : TRUE,
               timeout |-> 0, elapsed |-> 0]

\* Instrument.__init__ creates the buffers and starts the monitor.
GroundInit == /\ script = "idle"
              /\ answers = <<>>
              /\ sent = <<>>
              /\ history = <<>>
              /\ pktbufs = [p \in PacketNames |-> <<>>]
              /\ received = 0
              /\ watching = TRUE
              /\ waiting = NotWaiting
              /\ trueSince = Forever
              /\ waited = "nothing"

-----------------------------------------------------------------------------
(* CmdAPI.send                                                             *)

Calling == script = "idle" /\ Len(answers) < MaxCommands

\* False: the arguments are not valid, or the message cannot be encoded.
\* An exception: there is no such command, or it cannot be encoded, or a keyword
\* is unknown, which validate() cannot report.
SendRefused == /\ Calling
               /\ \E a \in {"False", "raised"} : answers' = Append(answers, a)
               /\ UNCHANGED <<script, sent, history, pktbufs, received, watching,
                              waiting, trueSince, waited>>

\* mutated: the history does not ask whether the command was sent
SendFailsRecorded == /\ Calling
                     /\ answers' = Append(answers, "raised")
                     /\ history' = Append(history, Len(answers'))
                     /\ UNCHANGED <<script, sent, pktbufs, received, watching,
                                    waiting, trueSince, waited>>

\* The socket raises; the handler reads e.message, which is not there.
SendFails == /\ Calling
             /\ answers' = Append(answers, "raised")
             /\ UNCHANGED <<script, sent, history, pktbufs, received, watching,
                            waiting, trueSince, waited>>

SendLeaves == /\ Calling
              /\ answers' = Append(answers, "none yet")
              /\ sent' = Append(sent, Len(answers'))
              /\ script' = "recording"
              /\ UNCHANGED <<history, pktbufs, received, watching, waiting, trueSince, waited>>

\* The record is written, and flushed at the latest when the file is closed.
Record == /\ script = "recording"
          /\ history' = Append(history, Len(answers))
          /\ script' = "recorded"
          /\ UNCHANGED <<answers, sent, pktbufs, received, watching, waiting, trueSince, waited>>

SendReturns == /\ script = "recorded"
               /\ answers' = [answers EXCEPT ![Len(answers)] = "True"]
               /\ script' = "idle"
               /\ UNCHANGED <<sent, history, pktbufs, received, watching, waiting,
                              trueSince, waited>>

\* The history file cannot be opened, written, flushed or closed, which leaves the record
\* in it or not (a torn one is none here; CaptureFile is about those); e.message raises.
RecordFails == /\ script = "recording"
               /\ history' \in {history, Append(history, Len(answers))}
               /\ answers' = [answers EXCEPT ![Len(answers)] = "raised"]
               /\ script' = "idle"
               /\ UNCHANGED <<sent, pktbufs, received, watching, waiting, trueSince, waited>>

\* The process ends, whatever it does; the file stays.
ScriptKilled == /\ script # "killed"
                /\ script' = "killed"
                /\ watching' = FALSE
                /\ UNCHANGED <<answers, sent, history, pktbufs, received, waiting,
                               trueSince, waited>>

ScriptRestarts == /\ script = "killed"
                  /\ script' = "idle"
                  /\ watching' = TRUE
                  /\ pktbufs' = [p \in PacketNames |-> <<>>]
                  /\ waiting' = NotWaiting
                  /\ trueSince' = Forever
                  /\ waited' = "nothing"
                  /\ UNCHANGED <<answers, sent, history, received>>

-----------------------------------------------------------------------------
(* TlmMonitor.  What is not a tagged packet of a known kind is skipped.    *)

Holds(bufs, w) == bufs[w.packet] # <<>> /\ bufs[w.packet][1] = w.mode

\* trueSince after the buffers have become bufs.
StillTrue(bufs) == IF ~Holds(bufs, waiting) THEN Forever
                   ELSE IF Holds(pktbufs, waiting) THEN trueSince ELSE waiting.elapsed

Monitor(p, m) ==
    /\ watching
    /\ received < MaxReceived
    /\ received' = received + 1
    /\ LET newest == <<m>> \o pktbufs[p] IN
       pktbufs' = [pktbufs EXCEPT ![p] = SubSeq(newest, 1, IF Len(newest) <= Capacity
                                                           THEN Len(newest) ELSE Capacity)]
    /\ trueSince' = IF script = "waiting" THEN StillTrue(pktbufs') ELSE trueSince
    /\ UNCHANGED <<script, answers, sent, history, watching, waiting, waited>>

\* An exception while the packet is made ends the monitor for good.
MonitorDies == /\ watching
               /\ received < MaxReceived
               /\ received' = received + 1
               /\ watching' = FALSE
               /\ UNCHANGED <<script, answers, sent, history, pktbufs, waiting, trueSince, waited>>

-----------------------------------------------------------------------------
(* wait()                                                                  *)

Expired(w) == w.timeout # Forever /\ w.elapsed >= w.timeout

\* The body of the loop up to sleep(), for the arguments w.
Evaluate(w) ==
    /\ waiting' = w
    /\ trueSince' = IF ~Holds(pktbufs, w) THEN Forever
                    ELSE IF w.elapsed = 0 THEN 0 ELSE trueSince
    /\ \/ /\ Expired(w)
          /\ waited' = "timeout" /\ script' = "idle"
       \/ /\ ~Expired(w)
          /\ \/ pktbufs[w.packet] = <<>> /\ waited' = "raised" /\ script' = "idle"
             \/ Holds(pktbufs, w) /\ waited' = "True" /\ script' = "idle"
             \/ /\ pktbufs[w.packet] # <<>> /\ ~Holds(pktbufs, w)
                /\ waited' = "nothing" /\ script' = "waiting"
    /\ UNCHANGED <<answers, sent, history, pktbufs, received, watching>>

Wait(p, m, t) == /\ script = "idle"
                 /\ Evaluate([packet |-> p, mode |-> m, timeout |-> t, elapsed |-> 0])

\* A number sleeps and returns True; True returns unless _timeout is 0, False raises
\* FalseWaitError.
WaitForValue == /\ script = "idle"
                /\ waited' \in {"True", "raised", "timeout"}
                /\ waiting' = NotWaiting
                /\ trueSince' = Forever
                /\ UNCHANGED <<script, answers, sent, history, pktbufs, received, watching>>

\* mutated: a step counts twice
WakeEarly == /\ script = "waiting"
             /\ Evaluate([waiting EXCEPT !.elapsed = IF waiting.timeout = Forever THEN 1 ELSE @ + 2])

\* The sleep is over.  elapsed is not read without a timeout, and stays at 1.
WakeUp == /\ script = "waiting"
          /\ Evaluate([waiting EXCEPT !.elapsed = IF waiting.timeout = Forever THEN 1 ELSE @ + 1])

\* ui.confirm: the answer, an exception, or None, which a script takes for False.
Confirm == /\ script = "idle"
           /\ waited' \in {"True", "False", "raised", "None"}
           /\ waiting' = NotWaiting
           /\ trueSince' = Forever
           /\ UNCHANGED <<script, answers, sent, history, pktbufs, received, watching>>

GroundNext == \/ SendRefused \/ SendFails \/ SendLeaves \/ Record \/ SendReturns
              \/ RecordFails
              \/ ScriptKilled \/ ScriptRestarts
              \/ \E p \in PacketNames, m \in Modes : Monitor(p, m)
              \/ MonitorDies
              \/ \E p \in PacketNames, m \in Modes, t \in Timeouts : Wait(p, m, t)
              \/ WaitForValue \/ WakeUp \/ Confirm

GroundSpec == GroundInit /\ [][GroundNext]_groundVars

-----------------------------------------------------------------------------
GroundTypes == /\ script \in {"idle", "recording", "recorded", "waiting", "killed"}
               /\ answers \in Seq({"True", "False", "raised", "none yet"})
               /\ sent \in Seq(Calls)
               /\ history \in Seq(Calls)
               /\ pktbufs \in [PacketNames -> Seq(Modes)]
               /\ \A p \in PacketNames : Len(pktbufs[p]) <= Capacity
               /\ received \in 0 .. MaxReceived
               /\ watching \in BOOLEAN
               /\ waiting \in [packet : PacketNames, mode : Modes,
                               timeout : Nat \cup {Forever}, elapsed : Nat]
               /\ trueSince \in Nat \cup {Forever}
               /\ waited \in {"nothing", "True", "False", "raised", "None", "timeout"}

\* Across failures and restarts, the history has only commands that were sent, in the
\* order in which they were.  An answer True says that the command is in it, False that
\* it was never sent; a call that raised, or was killed, leaves it open whether the
\* command was sent and, if it was, whether the history has it (api.py 189-237).
HistoryTellsSent ==
    /\ \A i, j \in DOMAIN history : i < j => history[i] < history[j]
    /\ Range(history) \subseteq Range(sent)
    /\ \A c \in DOMAIN answers : /\ answers[c] = "True" => c \in Range(history)
                                 /\ answers[c] = "False" => c \notin Range(sent)

\* A wait() that gives up has missed nothing but its last step: the condition does not
\* hold, or it has come to hold only after wait() looked for the last time, however
\* packets arrive between the looks (api.py 724-744).
TimeoutIsJust ==
    waited = "timeout" /\ waiting.timeout > 0 =>
        trueSince = Forever \/ trueSince + 1 >= waiting.timeout
=============================================================================
