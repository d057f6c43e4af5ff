------------------------------ MODULE Monitor ------------------------------
(***************************************************************************)
(* `plate status --monitor` (protocols/mqtt_monitor.py): one client that   *)
(* paho reconnects by itself, reports merged into one state, an event per  *)
(* change, and the end of the loop when a terminal state has come.  The    *)
(* reader of the stream may go away: writing then raises in the callback,  *)
(* which logs it and goes on.                                              *)
(***************************************************************************)
EXTENDS Naturals

CONSTANTS States, Terminal,  \* gcode states; those that end the loop
          MaxDrops           \* bound: connections lost

ASSUME MonitorAssumption == Terminal \subseteq States /\ "UNKNOWN" \notin States /\ MaxDrops \in Nat

VARIABLES
  mpc, mret,              \* the loop, and how monitor_status ended
  mlink, connected, refusedRc, over,  \* the client; connected, refused_rc and received_terminal
  merge, last,            \* merged gcode_state, and the last one an event was made for
  events,                 \* which kinds of event have been written
  reader,                 \* stdout is still read
  drops
mvars == <<mpc, mret, mlink, connected, refusedRc, over, merge, last, events, reader, drops>>

Seen == States \cup {"UNKNOWN"}
MTypeOK ==
  /\ mpc \in {"connect", "loop", "stop", "done"}
  /\ mret \in {"none", "ok", "user", "unreachable", "unanswered", "refused"}
  /\ mlink \in {"none", "connecting", "up", "refused", "down"}
  /\ connected \in BOOLEAN /\ refusedRc \in BOOLEAN /\ over \in BOOLEAN /\ reader \in BOOLEAN
  /\ merge \in Seen /\ last \in Seen \cup {"none"}
  /\ events \subseteq ({"update", "terminal"} \X Seen)
  /\ drops \in 0 .. MaxDrops
  /\ mpc = "done" => mret # "none" /\ mlink = "none"

MInit ==
  /\ mpc = "connect" /\ mret = "none" /\ mlink = "none"
  /\ connected = FALSE /\ refusedRc = FALSE /\ over = FALSE
  /\ merge = "UNKNOWN" /\ last = "none"
  /\ events = {} /\ reader = TRUE /\ drops = 0

Facts == <<connected, refusedRc, over, merge, last, events, reader, drops>>

-----------------------------------------------------------------------------
MConnect ==
  /\ mpc = "connect"
  /\ \/ mpc' = "loop" /\ mlink' = "connecting" /\ UNCHANGED mret
     \/ mpc' = "stop" /\ mret' = "unreachable" /\ UNCHANGED mlink
  /\ UNCHANGED Facts

\* One turn: the terminal event is set, or nobody has answered by the deadline.
Loop ==
  /\ mpc = "loop" /\ mpc' = "stop"
  /\ \/ over /\ mret' = "ok"
     \/ ~over /\ ~connected /\ mret' = "unanswered"
  /\ UNCHANGED <<mlink, Facts>>

KeyboardInterrupt ==
  /\ mpc = "loop" /\ mpc' = "stop" /\ mret' = "user"
  /\ UNCHANGED <<mlink, Facts>>

\* finally: loop_stop and disconnect; then a refusal is an error.
Finish ==
  /\ mpc = "stop" /\ mpc' = "done" /\ mlink' = "none"
  /\ mret' = IF refusedRc /\ mret \in {"ok", "user"} THEN "refused" ELSE mret
  /\ UNCHANGED Facts

-----------------------------------------------------------------------------
\* on_connect, also of every reconnection.
MonitorOnConnect ==
  /\ mlink = "connecting"
  /\ \/ mlink' = "up" /\ connected' = TRUE /\ UNCHANGED <<refusedRc, over>>
     \/ mlink' = "refused" /\ refusedRc' = TRUE /\ over' = TRUE /\ UNCHANGED connected
  /\ UNCHANGED <<mpc, mret, merge, last, events, reader, drops>>

\* merged.update: a delta leaves the state as it was.
Merge(part) == IF part = "UNKNOWN" THEN merge ELSE part

\* on_message, with --json.  Progress changes make events too: anew stands for
\* them.  Without a reader the first write raises, and nothing after it runs.
MonitorOnMessage ==
  /\ mlink = "up" /\ connected' = TRUE
  /\ \E part \in Seen, anew \in BOOLEAN :
       LET state == Merge(part)
           ends  == state \in Terminal
           says  == state # last \/ anew
       IN  /\ merge' = state
           /\ IF reader
              THEN /\ events' = events \cup (IF says THEN {<<"update", state>>} ELSE {})
                                       \cup (IF ends THEN {<<"terminal", state>>} ELSE {})
                   /\ last' = IF says THEN state ELSE last
                   /\ over' = (over \/ ends)
              ELSE UNCHANGED <<events, last, over>>
  /\ UNCHANGED <<mpc, mret, mlink, refusedRc, reader, drops>>

ReaderLeaves ==
  /\ reader /\ reader' = FALSE /\ mpc = "loop"
  /\ UNCHANGED <<mpc, mret, mlink, connected, refusedRc, over, merge, last, events, drops>>

\* paho reconnects what drops.
MonitorDrop ==
  /\ mlink = "up" /\ drops < MaxDrops /\ drops' = drops + 1 /\ mlink' = "down"
  /\ UNCHANGED <<mpc, mret, connected, refusedRc, over, merge, last, events, reader>>
Reconnect ==
  /\ mlink = "down" /\ mlink' = "connecting"
  /\ UNCHANGED <<mpc, mret, Facts>>

Watching == MConnect \/ Loop \/ Finish
MNext == \/ Watching \/ KeyboardInterrupt \/ MonitorOnConnect \/ MonitorOnMessage
         \/ ReaderLeaves \/ MonitorDrop \/ Reconnect
MSpec == MInit /\ [][MNext]_mvars /\ WF_mvars(Watching)

-----------------------------------------------------------------------------
\* Exit 0 without Ctrl-C means that the terminal event was written.
SuccessIsTerminal == mret = "ok" /\ mpc = "done" => \E s \in Terminal : <<"terminal", s>> \in events

\* Nobody waits for a printer that never accepts the connection.
UnansweredEnds == (mpc = "loop" /\ ~connected) ~> (connected \/ mpc = "done")

\* Once a terminal state has been reported to somebody who reads, the loop ends.
TerminalEnds == (merge \in Terminal /\ reader) ~> mpc = "done"

\* The same when the reader has gone: TLC refutes it, because the exception of
\* the write is swallowed before received_terminal is set.
TerminalEndsAlone == merge \in Terminal ~> mpc = "done"
=============================================================================
