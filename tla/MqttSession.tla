---------------------------- MODULE MqttSession ----------------------------
(***************************************************************************)
(* The long-lived MQTT session of one printer                              *)
(* (bambu_cli/protocols/mqtt_session.py).  Caller threads run send_command,*)
(* get_status, get_version and close, one at a time under _op_lock; the    *)
(* paho network thread of the current client runs the callbacks            *)
(* _on_connect, _on_disconnect, _on_message and _on_publish between any    *)
(* two of their steps; the link may refuse, drop or stay silent, and any   *)
(* wait may time out.                                                      *)
(*                                                                         *)
(* paho itself and the printer are external: the queue of outgoing         *)
(* messages, the acknowledgements and what the printer executes are        *)
(* modelled from how the session uses them.                                *)
(***************************************************************************)
EXTENDS Naturals

CONSTANTS
  Threads,      \* caller threads sharing one BambuPrinter
  Cmds,         \* payloads of send_command; one per call, so they double as call identities
  Retries,      \* the retries argument: Retries + 1 attempts
  Ops,          \* the operations the callers use
  CallBudget,   \* bound: calls made in one behaviour
  NoThread, NoCmd

AllOps == {"send", "status", "version", "close"}

ASSUME ConstantsAssumption ==
  /\ Retries \in Nat
  /\ CallBudget \in Nat
  /\ Ops \subseteq AllOps
  /\ NoThread \notin Threads
  /\ NoCmd \notin Cmds
  /\ Cmds \cap {"pushall", "get_version"} = {}

VARIABLES
  \* callers
  pc,            \* where each thread is
  op, full, cmd, \* the call it makes: operation, require_complete, payload
  ret,           \* what its last call returned or raised
  opLock,        \* holder of _op_lock
  attempt, cont, \* locals of the holder: loop counter, and where _reset_client returns to
  \* attributes of the session
  client,        \* _client is not None
  live, connectFailed, connectedEvt,
  printState,    \* _print_state: how much of the required keys it holds
  awaiting, awaitFull, statusEvt,
  pending, issued, publishOk, publishEvt,
  versionEvt,
  \* the newest paho client, its network thread and the printer
  link, netpc, netCmd, subscribed, outq, acks, wire, orphans, executed,
  \* history, read by properties only (budget also bounds the model)
  published,     \* how often each payload was handed to client.publish
  deadData,      \* _print_state holds keys from a link already down when the call began
  fresh, budget

callers == <<pc, op, full, cmd, ret, opLock, attempt, cont>>
waits   == <<connectedEvt, awaiting, awaitFull, statusEvt, versionEvt>>
command == <<pending, issued, publishOk, publishEvt>>
paho    == <<link, netpc, netCmd, subscribed, outq, acks>>
printer == <<wire, orphans, executed>>
history == <<published, deadData, fresh, budget>>
vars == <<callers, client, live, connectFailed, printState, waits, command,
          paho, printer, history>>

CallerPCs == {"idle", "lock", "begin", "ensure", "reset", "join", "make",
              "waitconn", "noconn", "connected", "pub", "waitpub", "check",
              "arm", "waitstat", "waitver", "oserror", "next", "final",
              "lastlook", "fail", "ret"}
Returns   == {"make", "next", "check", "final", "fail"}
NetPCs  == {"idle", "subscribe", "mark", "pub", "event"}
Links   == {"none", "new", "connecting", "up", "refused", "down"}
Results == {"none", "true", "false", "unconfirmed",          \* send_command
            "partial", "complete", "incomplete",             \* get_status
            "modules", "null"}
Requests == {"pushall", "get_version"}

\* The type invariant, in two parts: flags, and everything else.
FlagTypes ==
  /\ client \in BOOLEAN /\ live \in BOOLEAN /\ connectFailed \in BOOLEAN
  /\ connectedEvt \in BOOLEAN /\ versionEvt \in BOOLEAN
  /\ awaiting \in BOOLEAN /\ awaitFull \in BOOLEAN /\ statusEvt \in BOOLEAN
  /\ issued \in BOOLEAN /\ publishOk \in BOOLEAN /\ publishEvt \in BOOLEAN
  /\ subscribed \in BOOLEAN /\ deadData \in BOOLEAN

DataTypes ==
  /\ pc \in [Threads -> CallerPCs]
  /\ op \in [Threads -> AllOps]
  /\ full \in [Threads -> BOOLEAN]
  /\ cmd \in [Threads -> Cmds \cup {NoCmd}]
  /\ ret \in [Threads -> Results]
  /\ opLock \in Threads \cup {NoThread}
  /\ attempt \in Nat
  /\ cont \in Returns
  /\ printState \in {"empty", "partial", "complete"}
  /\ pending \in Cmds \cup {NoCmd}
  /\ link \in Links /\ netpc \in NetPCs
  /\ netCmd \in Cmds \cup {NoCmd}
  /\ outq \subseteq Cmds \cup Requests
  /\ acks \subseteq Cmds
  /\ wire \subseteq Cmds /\ orphans \subseteq Cmds
  /\ executed \in [Cmds -> Nat]
  /\ published \in [Cmds -> Nat]
  /\ fresh \subseteq Cmds
  /\ budget \in Nat

TypeOK == FlagTypes /\ DataTypes

Init ==
  /\ pc = [t \in Threads |-> "idle"]
  /\ op = [t \in Threads |-> "close"]
  /\ full = [t \in Threads |-> TRUE]
  /\ cmd = [t \in Threads |-> NoCmd]
  /\ ret = [t \in Threads |-> "none"]
  /\ opLock = NoThread /\ attempt = 0 /\ cont = "fail"
  /\ client = FALSE /\ live = FALSE /\ connectFailed = FALSE
  /\ connectedEvt = FALSE
  /\ printState = "empty"
  /\ awaiting = FALSE /\ awaitFull = TRUE /\ statusEvt = FALSE
  /\ pending = NoCmd /\ issued = FALSE /\ publishOk = FALSE /\ publishEvt = FALSE
  /\ versionEvt = FALSE
  /\ link = "none" /\ netpc = "idle" /\ netCmd = NoCmd /\ subscribed = FALSE
  /\ outq = {} /\ acks = {} /\ wire = {} /\ orphans = {}
  /\ executed = [c \in Cmds |-> 0]
  /\ published = [c \in Cmds |-> 0]
  /\ deadData = FALSE /\ fresh = Cmds /\ budget = CallBudget

----------------------------------------------------------------------------
(* Helpers. *)

At(t, l) == pc[t] = l
Goto(t, l) == pc' = [pc EXCEPT ![t] = l]

\* Leaves the operation's body with value v; Release ends the call.
Return(t, v) ==
  /\ Goto(t, "ret")
  /\ ret' = [ret EXCEPT ![t] = v]

\* _reset_client, then continue at l.
ResetThen(t, l) ==
  /\ Goto(t, "reset")
  /\ cont' = l

LastAttempt == attempt = Retries

\* client.publish: paho queues the message for its network thread.  On a link
\* that is not up nothing will ever transmit it (reconnect_on_failure=False).
Enqueue(m) == outq' = IF link = "up" THEN outq \cup {m} ELSE outq

\* _ready_snapshot: the merged state satisfies the caller's contract.
Ready(requireComplete) ==
  /\ printState # "empty"
  /\ requireComplete => printState = "complete"

\* The connection is over: what was queued or unacknowledged dies with it, what
\* is in transit may still reach the printer.
LinkGone(l) ==
  /\ link' = l
  /\ outq' = {} /\ acks' = {} /\ wire' = {}
  /\ orphans' = orphans \cup wire

----------------------------------------------------------------------------
(* Callers. *)

\* A thread enters an operation and queues on _op_lock.
Call(t) ==
  /\ At(t, "idle")
  /\ budget > 0
  /\ \E o \in Ops, f \in BOOLEAN :
       /\ o # "status" => f
       /\ op' = [op EXCEPT ![t] = o]
       /\ full' = [full EXCEPT ![t] = f]
       /\ IF o = "send"
          THEN \E c \in fresh : /\ cmd' = [cmd EXCEPT ![t] = c]
                                /\ fresh' = fresh \ {c}
          ELSE cmd' = [cmd EXCEPT ![t] = NoCmd] /\ UNCHANGED fresh
  /\ ret' = [ret EXCEPT ![t] = "none"]
  /\ budget' = budget - 1
  /\ Goto(t, "lock")
  /\ UNCHANGED <<opLock, attempt, cont, client, live, connectFailed, printState,
                 waits, command, paho, printer, published, deadData>>

\* with self._op_lock; send_command also queues its payload and clears the once-flag.
Acquire(t) ==
  /\ At(t, "lock")
  /\ opLock = NoThread
  /\ opLock' = t
  /\ attempt' = 0
  /\ deadData' = (printState # "empty" /\ link = "down")
  /\ IF op[t] = "send"
     THEN pending' = cmd[t] /\ issued' = FALSE
     ELSE UNCHANGED <<pending, issued>>
  /\ IF op[t] = "close"
     THEN ResetThen(t, "final")
     ELSE Goto(t, "begin") /\ UNCHANGED cont
  /\ UNCHANGED <<op, full, cmd, ret, client, live, connectFailed, printState,
                 waits, publishOk, publishEvt, paho, printer, published, fresh, budget>>

\* The top of one attempt: fresh wait objects for this attempt.
Begin(t) ==
  /\ At(t, "begin")
  /\ Goto(t, "ensure")
  /\ IF op[t] = "send"
     THEN publishOk' = FALSE /\ publishEvt' = FALSE
     ELSE UNCHANGED <<publishOk, publishEvt>>
  /\ IF op[t] = "version" THEN versionEvt' = FALSE ELSE UNCHANGED versionEvt
  /\ UNCHANGED <<op, full, cmd, ret, opLock, attempt, cont, client, live,
                 connectFailed, printState, connectedEvt, awaiting, awaitFull,
                 statusEvt, pending, issued, paho, printer, history>>

\* ensure_connected: reuse a live client, else replace it.
Ensure(t) ==
  /\ At(t, "ensure")
  /\ IF client /\ live
     THEN Goto(t, "connected") /\ UNCHANGED cont
     ELSE ResetThen(t, "make")
  /\ UNCHANGED <<op, full, cmd, ret, opLock, attempt, client, live, connectFailed,
                 printState, waits, command, paho, printer, history>>

\* Bug: _reset_client forgets to clear the merged state.
ResetKeepingState(t) ==
  /\ At(t, "reset")
  /\ client' = FALSE /\ live' = FALSE /\ connectFailed' = FALSE
  /\ Goto(t, IF client THEN "join" ELSE cont)
  /\ UNCHANGED <<op, full, cmd, ret, opLock, attempt, cont, printState, waits,
                 command, paho, printer, history>>

\* _reset_client up to loop_stop.  The attributes are cleared while the old
\* network thread still runs.
Reset(t) ==
  /\ At(t, "reset")
  /\ client' = FALSE /\ live' = FALSE /\ connectFailed' = FALSE
  /\ printState' = "empty" /\ deadData' = FALSE
  /\ Goto(t, IF client THEN "join" ELSE cont)
  /\ UNCHANGED <<op, full, cmd, ret, opLock, attempt, cont, waits, command, paho,
                 printer, published, fresh, budget>>

\* loop_stop joins the network thread once its callback is over; messages
\* still queued may be lost.  disconnect() may run _on_disconnect in this thread.
Join(t) ==
  /\ At(t, "join")
  /\ netpc = "idle"
  /\ LinkGone("none")
  /\ live' \in {live, FALSE}
  /\ Goto(t, cont)
  /\ UNCHANGED <<op, full, cmd, ret, opLock, attempt, cont, client, connectFailed,
                 printState, waits, command, netpc, netCmd, subscribed, executed, history>>

\* A new client: callbacks bound, connect(), loop_start().  connect() may raise.
Make(t) ==
  /\ At(t, "make")
  /\ connectedEvt' = FALSE
  /\ client' = TRUE
  /\ subscribed' = FALSE
  /\ \/ link' = "connecting" /\ Goto(t, "waitconn")
     \/ link' = "new" /\ Goto(t, "oserror")
  /\ UNCHANGED <<op, full, cmd, ret, opLock, attempt, cont, live, connectFailed,
                 printState, awaiting, awaitFull, statusEvt, versionEvt, command,
                 netpc, netCmd, outq, acks, printer, history>>

\* _connected_event.wait(timeout); return self._live
WaitConnected(t) ==
  /\ At(t, "waitconn")
  /\ Goto(t, IF connectedEvt /\ live THEN "connected" ELSE "noconn")
  /\ UNCHANGED <<op, full, cmd, ret, opLock, attempt, cont, client, live,
                 connectFailed, printState, waits, command, paho, printer, history>>

\* ensure_connected returned False.  get_version gives up without a reset; the
\* others read _connect_failed, reset, and give up on a refusal.
NotConnected(t) ==
  /\ At(t, "noconn")
  /\ IF op[t] = "version"
     THEN Return(t, "null") /\ UNCHANGED cont
     ELSE /\ ResetThen(t, IF connectFailed \/ LastAttempt THEN "fail" ELSE "next")
          /\ UNCHANGED ret
  /\ UNCHANGED <<op, full, cmd, opLock, attempt, client, live, connectFailed,
                 printState, waits, command, paho, printer, history>>

\* except OSError: reset, then retry while nothing was issued.
OsError(t) ==
  /\ At(t, "oserror")
  /\ ResetThen(t, IF op[t] = "send" /\ issued THEN "check"
                  ELSE IF ~LastAttempt THEN "next"
                  ELSE IF op[t] = "status" THEN "final" ELSE "fail")
  /\ UNCHANGED <<op, full, cmd, ret, opLock, attempt, client, live, connectFailed,
                 printState, waits, command, paho, printer, history>>

\* The next attempt, after the back-off sleep.
NextAttempt(t) ==
  /\ At(t, "next")
  /\ attempt' = attempt + 1
  /\ Goto(t, "begin")
  /\ UNCHANGED <<op, full, cmd, ret, opLock, cont, client, live, connectFailed,
                 printState, waits, command, paho, printer, history>>

(* send_command *)

\* Bugs: _issue_pending without the once-flag, and without the None test.
CanIssueAgain == live /\ pending # NoCmd /\ client
CanIssueNone  == live /\ ~issued /\ client

\* _issue_pending's test and set, one critical section of _state_lock; run by
\* the caller and by the network thread.
CanIssue == live /\ pending # NoCmd /\ ~issued /\ client

MarkIssued(t) ==
  /\ At(t, "connected") /\ op[t] = "send"
  /\ IF CanIssue THEN issued' = TRUE /\ Goto(t, "pub")
                 ELSE UNCHANGED issued /\ Goto(t, "waitpub")
  /\ UNCHANGED <<op, full, cmd, ret, opLock, attempt, cont, client, live,
                 connectFailed, printState, waits, pending, publishOk, publishEvt,
                 paho, printer, history>>

PublishCommand(t) ==
  /\ At(t, "pub")
  /\ Enqueue(cmd[t])
  /\ published' = [published EXCEPT ![cmd[t]] = @ + 1]
  /\ Goto(t, "waitpub")
  /\ UNCHANGED <<op, full, cmd, ret, opLock, attempt, cont, client, live,
                 connectFailed, printState, waits, command, link, netpc, netCmd,
                 subscribed, acks, printer, deadData, fresh, budget>>

\* _publish_event.wait(timeout)
WaitPublished(t) ==
  /\ At(t, "waitpub")
  /\ IF publishEvt
     THEN Return(t, IF publishOk THEN "true" ELSE "false")
     ELSE Goto(t, "check") /\ UNCHANGED ret
  /\ UNCHANGED <<op, full, cmd, opLock, attempt, cont, client, live,
                 connectFailed, printState, waits, command, paho, printer, history>>

\* After the wait: an acknowledgement that just landed counts, an issued
\* command is unconfirmed, and only an unissued one is retried.
CheckIssued(t) ==
  /\ At(t, "check")
  /\ \/ /\ issued /\ publishEvt
        /\ Return(t, IF publishOk THEN "true" ELSE "false")
     \/ /\ issued /\ ~publishEvt
        /\ Return(t, "unconfirmed")
     \/ /\ ~issued
        /\ Goto(t, IF LastAttempt THEN "fail" ELSE "next")
        /\ UNCHANGED ret
  /\ UNCHANGED <<op, full, cmd, opLock, attempt, cont, client, live,
                 connectFailed, printState, waits, command, paho, printer, history>>

(* get_status *)

\* A snapshot the background reports already assembled is returned at once,
\* with a pushall on the way.
RequestStatus(t) ==
  /\ At(t, "connected") /\ op[t] = "status"
  /\ IF Ready(full[t])
     THEN Return(t, printState) /\ Enqueue("pushall")
     ELSE Goto(t, "arm") /\ UNCHANGED <<ret, outq>>
  /\ UNCHANGED <<op, full, cmd, opLock, attempt, cont, client, live, connectFailed,
                 printState, waits, command, link, netpc, netCmd, subscribed, acks,
                 printer, history>>

\* Otherwise the wait is armed before the pushall goes out.
ArmStatus(t) ==
  /\ At(t, "arm")
  /\ awaiting' = TRUE /\ awaitFull' = full[t] /\ statusEvt' = FALSE
  /\ Enqueue("pushall")
  /\ Goto(t, "waitstat")
  /\ UNCHANGED <<op, full, cmd, ret, opLock, attempt, cont, client, live,
                 connectFailed, printState, connectedEvt, versionEvt, command, link,
                 netpc, netCmd, subscribed, acks, printer, history>>

\* event.wait(timeout), then the snapshot.
WaitStatus(t) ==
  /\ At(t, "waitstat")
  /\ IF statusEvt /\ Ready(full[t])
     THEN Return(t, printState)
     ELSE Goto(t, IF LastAttempt THEN "final" ELSE "next") /\ UNCHANGED ret
  /\ UNCHANGED <<op, full, cmd, opLock, attempt, cont, client, live, connectFailed,
                 printState, waits, command, paho, printer, history>>

(* get_version *)

RequestVersion(t) ==
  /\ At(t, "connected") /\ op[t] = "version"
  /\ Enqueue("get_version")
  /\ Goto(t, "waitver")
  /\ UNCHANGED <<op, full, cmd, ret, opLock, attempt, cont, client, live,
                 connectFailed, printState, waits, command, link, netpc, netCmd,
                 subscribed, acks, printer, history>>

WaitVersion(t) ==
  /\ At(t, "waitver")
  /\ IF versionEvt THEN Return(t, "modules")
     ELSE Goto(t, IF LastAttempt THEN "fail" ELSE "next") /\ UNCHANGED ret
  /\ UNCHANGED <<op, full, cmd, opLock, attempt, cont, client, live, connectFailed,
                 printState, waits, command, paho, printer, history>>

\* After the last attempt of get_status: what was assembled is complete, or is
\* partial and refused, or the state is looked at once more.  close ends here too.
Final(t) ==
  /\ At(t, "final")
  /\ IF op[t] = "close" THEN Return(t, "null")
     ELSE IF printState = "complete" THEN Return(t, "complete")
     ELSE IF printState = "partial" /\ full[t] THEN Return(t, "incomplete")
     ELSE Goto(t, "lastlook") /\ UNCHANGED ret
  /\ UNCHANGED <<op, full, cmd, opLock, attempt, cont, client, live, connectFailed,
                 printState, waits, command, paho, printer, history>>

LastLook(t) ==
  /\ At(t, "lastlook")
  /\ Return(t, IF Ready(full[t]) THEN printState ELSE "null")
  /\ UNCHANGED <<op, full, cmd, opLock, attempt, cont, client, live, connectFailed,
                 printState, waits, command, paho, printer, history>>

\* The return of an operation that got nowhere: False or None.
GiveUp(t) ==
  /\ At(t, "fail")
  /\ Return(t, IF op[t] = "send" THEN "false" ELSE "null")
  /\ UNCHANGED <<op, full, cmd, opLock, attempt, cont, client, live, connectFailed,
                 printState, waits, command, paho, printer, history>>

\* Bug: no finally, the payload stays queued.
ReleaseKeepingPayload(t) ==
  /\ At(t, "ret")
  /\ opLock' = NoThread
  /\ deadData' = FALSE
  /\ Goto(t, "idle")
  /\ UNCHANGED <<op, full, cmd, ret, attempt, cont, client, live, connectFailed,
                 printState, waits, command, paho, printer, published, fresh, budget>>

\* finally: _pending_payload = None; then _op_lock is released.
Release(t) ==
  /\ At(t, "ret")
  /\ opLock' = NoThread
  /\ pending' = IF op[t] = "send" THEN NoCmd ELSE pending
  /\ deadData' = FALSE
  /\ Goto(t, "idle")
  /\ UNCHANGED <<op, full, cmd, ret, attempt, cont, client, live, connectFailed,
                 printState, waits, issued, publishOk, publishEvt, paho, printer,
                 published, fresh, budget>>

----------------------------------------------------------------------------
(* The network thread of the newest client, and the printer. *)

\* CONNACK rc = 0: _on_connect's first half.
OnConnectAccepted ==
  /\ link = "connecting" /\ netpc = "idle"
  /\ link' = "up"
  /\ live' = TRUE /\ connectFailed' = FALSE
  /\ netpc' = "subscribe"
  /\ UNCHANGED <<callers, client, printState, waits, command, netCmd, subscribed,
                 outq, acks, printer, history>>

OnConnectSubscribe ==
  /\ netpc = "subscribe"
  /\ subscribed' = TRUE
  /\ netpc' = "mark"
  /\ UNCHANGED <<callers, client, live, connectFailed, printState, waits, command,
                 link, netCmd, outq, acks, printer, history>>

\* Bug: _issue_pending takes _op_lock, which the thread joining this one may hold.
OnConnectMarkLocked ==
  /\ netpc = "mark"
  /\ opLock = NoThread
  /\ netpc' = "event"
  /\ UNCHANGED <<callers, client, live, connectFailed, printState, waits, command,
                 link, netCmd, subscribed, outq, acks, printer, history>>

OnConnectMark ==
  /\ netpc = "mark"
  /\ IF CanIssue
     THEN issued' = TRUE /\ netCmd' = pending /\ netpc' = "pub"
     ELSE netpc' = "event" /\ UNCHANGED <<issued, netCmd>>
  /\ UNCHANGED <<callers, client, live, connectFailed, printState, waits, pending,
                 publishOk, publishEvt, link, subscribed, outq, acks, printer, history>>

OnConnectPublish ==
  /\ netpc = "pub"
  /\ Enqueue(netCmd)
  /\ published' = [published EXCEPT ![netCmd] = @ + 1]
  /\ netCmd' = NoCmd
  /\ netpc' = "event"
  /\ UNCHANGED <<callers, client, live, connectFailed, printState, waits, command,
                 link, subscribed, acks, printer, deadData, fresh, budget>>

OnConnectDone ==
  /\ netpc = "event"
  /\ connectedEvt' = TRUE
  /\ netpc' = "idle"
  /\ UNCHANGED <<callers, client, live, connectFailed, printState, awaiting,
                 awaitFull, statusEvt, versionEvt, command, link, netCmd,
                 subscribed, outq, acks, printer, history>>

\* CONNACK rc # 0.
OnConnectRefused ==
  /\ link = "connecting" /\ netpc = "idle"
  /\ link' = "refused"
  /\ live' = FALSE /\ connectFailed' = TRUE /\ connectedEvt' = TRUE
  /\ UNCHANGED <<callers, client, printState, awaiting, awaitFull, statusEvt,
                 versionEvt, command, netpc, netCmd, subscribed, outq, acks,
                 printer, history>>

\* The link drops; the client never reconnects on its own.
OnDisconnect ==
  /\ link \in {"connecting", "up"} /\ netpc = "idle"
  /\ LinkGone("down")
  /\ live' = FALSE
  /\ UNCHANGED <<callers, client, connectFailed, printState, waits, command,
                 netpc, netCmd, subscribed, executed, history>>

\* A report with a print section: merged; an armed wait it satisfies is set.
OnMessageReport ==
  /\ link = "up" /\ netpc = "idle" /\ subscribed
  /\ \E s \in {"partial", "complete"} :
       /\ printState' = IF printState = "complete" THEN "complete" ELSE s
       /\ IF awaiting /\ (printState' = "complete" \/ ~awaitFull)
          THEN awaiting' = FALSE /\ statusEvt' = TRUE
          ELSE UNCHANGED <<awaiting, statusEvt>>
  /\ UNCHANGED <<callers, client, live, connectFailed, connectedEvt, awaitFull,
                 versionEvt, command, paho, printer, history>>

OnMessageVersion ==
  /\ link = "up" /\ netpc = "idle" /\ subscribed
  /\ versionEvt' = TRUE
  /\ UNCHANGED <<callers, client, live, connectFailed, printState, connectedEvt,
                 awaiting, awaitFull, statusEvt, command, paho, printer, history>>

\* _on_publish looks neither at the client nor at the message id.
OnPublish == publishOk' = TRUE /\ publishEvt' = TRUE

\* A QoS-0 request leaves the client: paho reports it to on_publish at once.
TransmitRequest ==
  /\ link = "up" /\ netpc = "idle"
  /\ \E m \in outq \cap Requests : outq' = outq \ {m}
  /\ OnPublish
  /\ UNCHANGED <<callers, client, live, connectFailed, printState, waits, pending,
                 issued, link, netpc, netCmd, subscribed, acks, printer, history>>

\* A QoS-1 command leaves the client.
TransmitCommand ==
  /\ link = "up" /\ netpc = "idle"
  /\ \E c \in outq \cap Cmds :
       /\ outq' = outq \ {c}
       /\ wire' = wire \cup {c}
  /\ UNCHANGED <<callers, client, live, connectFailed, printState, waits, command,
                 link, netpc, netCmd, subscribed, acks, orphans, executed, history>>

\* The printer takes a command in and runs it; its PUBACK comes back on the
\* connection that carried the command, if that still stands.
Execute ==
  /\ \E c \in wire \cup orphans :
       /\ wire' = wire \ {c} /\ orphans' = orphans \ {c}
       /\ executed' = [executed EXCEPT ![c] = @ + 1]
       /\ acks' = IF c \in wire THEN acks \cup {c} ELSE acks
  /\ UNCHANGED <<callers, client, live, connectFailed, printState, waits, command,
                 link, netpc, netCmd, subscribed, outq, history>>

\* PUBACK.
ReceiveAck ==
  /\ link = "up" /\ netpc = "idle"
  /\ \E c \in acks : acks' = acks \ {c}
  /\ OnPublish
  /\ UNCHANGED <<callers, client, live, connectFailed, printState, waits, pending,
                 issued, link, netpc, netCmd, subscribed, outq, printer, history>>

----------------------------------------------------------------------------

\* The steps of an operation that neither issue nor publish a command.
Inner(t) ==
  \/ Begin(t) \/ Ensure(t) \/ Reset(t) \/ Join(t) \/ Make(t)
  \/ WaitConnected(t) \/ NotConnected(t) \/ OsError(t) \/ NextAttempt(t)
  \/ WaitPublished(t) \/ CheckIssued(t)
  \/ RequestStatus(t) \/ ArmStatus(t) \/ WaitStatus(t)
  \/ RequestVersion(t) \/ WaitVersion(t)
  \/ Final(t) \/ LastLook(t) \/ GiveUp(t)

Caller(t) ==
  Acquire(t) \/ MarkIssued(t) \/ PublishCommand(t) \/ Inner(t) \/ Release(t)

Callback ==
  OnConnectSubscribe \/ OnConnectMark \/ OnConnectPublish \/ OnConnectDone

Network ==
  \/ OnConnectAccepted \/ OnConnectRefused \/ OnDisconnect \/ Callback
  \/ OnMessageReport \/ OnMessageVersion \/ TransmitRequest \/ TransmitCommand
  \/ Execute \/ ReceiveAck

Next == (\E t \in Threads : Call(t) \/ Caller(t)) \/ Network

Spec == Init /\ [][Next]_vars

\* Threads keep running and a callback that started finishes.  Nothing is
\* assumed of the link, the broker or the printer.
FairSpec == Spec /\ (\A t \in Threads : WF_vars(Caller(t))) /\ WF_vars(Callback)

----------------------------------------------------------------------------
(* Properties. *)

\* A payload is handed to the client at most once however often the session
\* reconnects (the once-flag of send_command, which the caller and a late
\* _on_connect race for), so the printer runs it at most once.
AtMostOnce ==
  \A c \in Cmds : published[c] <= 1 /\ executed[c] <= published[c]

\* send_command returning True means the printer took this command in.
TrueMeansExecuted ==
  \A t \in Threads : ret[t] = "true" => executed[cmd[t]] = 1

\* send_command returning False means the command never went out: one that did
\* is CommandUnconfirmed instead (docstring of send_command).  TLC refutes it: the
\* connection may be accepted between the expired wait and loop_stop.
FalseMeansNotPublished ==
  \A t \in Threads : ret[t] = "false" => published[cmd[t]] = 0

\* The two steps that make these false, which nothing in the code prevents.  A publish
\* event that ends the wait of a send_command but is not the PUBACK of its payload:
LateAck ==
  /\ ~publishEvt /\ publishEvt'
  /\ \E t \in Threads : /\ opLock = t /\ op[t] = "send" /\ pc[t] # "begin"
                        /\ cmd[t] \notin acks \ acks'

\* A send_command gives its connection up, though its payload has been issued or is
\* issued before the loop is stopped.
LateIssue ==
  \E t \in Threads : op[t] = "send" /\ pc'[t] \in {"noconn", "reset", "join"} /\ issued'

\* Only an unfinished or an unconfirmed call can still put its command on the
\* wire: a later reconnect never issues a command whose caller was given a result.
ResultIsFinal ==
  [][\A t \in Threads :
       pc[t] = "idle" /\ ret[t] \in {"true", "false"}
         => published'[cmd[t]] = published[cmd[t]]]_vars

\* get_status never returns state from a connection that was already lost when
\* the call took the lock: the reconnect drops the merged state.
SnapshotSurvivedNoDrop ==
  \A t \in Threads :
    pc[t] = "ret" /\ ret[t] \in {"partial", "complete"} => ~deadData

\* Every call returns, whatever the link does: no wait is unbounded, and no
\* callback needs the lock its joiner holds.
CallsReturn == \A t \in Threads : pc[t] # "idle" ~> pc[t] = "idle"
=============================================================================
