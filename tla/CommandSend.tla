---------------------------- MODULE CommandSend ----------------------------
(***************************************************************************)
(* The one-shot send_command of protocols/mqtt_cmd.py: up to Retries + 1   *)
(* attempts, each with a fresh paho client, its own publish_done event and *)
(* success flag; the published flag is shared by all of them.  The network *)
(* thread of the attempt's client runs on_connect and on_publish between   *)
(* the caller's steps, until loop_stop has joined it.                      *)
(*                                                                         *)
(* Simulation mode and the delegation to a held session are left out.      *)
(***************************************************************************)
EXTENDS Naturals

CONSTANT Retries   \* Retries + 1 attempts

ASSUME RetriesAssumption == Retries \in Nat

VARIABLES
  pc, attempt, acked,       \* the caller
  published, done, success, \* the flags its closures share with the callbacks
  link, netpc,              \* the attempt's client and its network thread
  queued, transit, puback,  \* copies queued in paho, on the wire; PUBACK on its way
  sent, ran, result         \* what AtMostOnceCommand speaks of

caller  == <<pc, attempt, acked, result>>
flags   == <<published, done, success>>
network == <<link, netpc, queued, transit, puback>>
vars == <<caller, flags, network, sent, ran>>

TypeOK ==
  /\ pc \in {"connect", "wait", "teardown", "decide", "returned"}
  /\ attempt \in 0..Retries
  /\ acked \in BOOLEAN
  /\ published \in BOOLEAN /\ done \in BOOLEAN /\ success \in BOOLEAN
  /\ link \in {"none", "connecting", "up", "refused", "down"}
  /\ netpc \in {"idle", "publish"}
  /\ queued \in Nat /\ transit \in Nat /\ puback \in BOOLEAN
  /\ sent \in Nat /\ ran \in Nat
  /\ result \in {"none", "true", "false", "unconfirmed"}

Init ==
  /\ pc = "connect" /\ attempt = 0 /\ acked = FALSE
  /\ published = FALSE /\ done = FALSE /\ success = FALSE
  /\ link = "none" /\ netpc = "idle"
  /\ queued = 0 /\ transit = 0 /\ puback = FALSE
  /\ sent = 0 /\ ran = 0 /\ result = "none"

----------------------------------------------------------------------------
(* The caller. *)

\* A fresh client, event and flag; connect() and loop_start(), or OSError.
Connect ==
  /\ pc = "connect"
  /\ done' = FALSE /\ success' = FALSE /\ acked' = FALSE
  /\ \/ link' = "connecting" /\ pc' = "wait"
     \/ link' = "none" /\ pc' = "teardown"
  /\ UNCHANGED <<attempt, result, published, netpc, queued, transit, puback, sent, ran>>

\* acked = publish_done.wait(timeout)
Wait ==
  /\ pc = "wait"
  /\ acked' = done
  /\ pc' = "teardown"
  /\ UNCHANGED <<attempt, result, flags, network, sent, ran>>

\* loop_stop joins the network thread; what paho still queued may be lost.
Teardown ==
  /\ pc = "teardown"
  /\ netpc = "idle"
  /\ link' = "none" /\ queued' = 0 /\ puback' = FALSE
  /\ pc' = "decide"
  /\ UNCHANGED <<attempt, acked, result, flags, netpc, transit, sent, ran>>

\* Bugs: a command already out is retried, and one attempt too many.
DecideBlind ==
  /\ pc = "decide"
  /\ IF acked \/ done
     THEN result' = (IF success THEN "true" ELSE "false")
     ELSE IF attempt = Retries THEN result' = "false" ELSE UNCHANGED result
  /\ IF result' = "none"
     THEN pc' = "connect" /\ attempt' = attempt + 1
     ELSE pc' = "returned" /\ UNCHANGED attempt
  /\ UNCHANGED <<acked, flags, network, sent, ran>>

DecideLate ==
  /\ pc = "decide"
  /\ IF acked \/ done \/ attempt > Retries
     THEN result' = (IF success THEN "true" ELSE "false")
     ELSE UNCHANGED result
  /\ IF result' = "none"
     THEN pc' = "connect" /\ attempt' = attempt + 1
     ELSE pc' = "returned" /\ UNCHANGED attempt
  /\ UNCHANGED <<acked, flags, network, sent, ran>>

\* Decided only now: acknowledged or refused, out but unacknowledged, or
\* nothing out yet and therefore safe to retry.
Decide ==
  /\ pc = "decide"
  /\ IF acked \/ done
     THEN result' = (IF success THEN "true" ELSE "false")
     ELSE IF published THEN result' = "unconfirmed"
     ELSE IF attempt = Retries THEN result' = "false"
     ELSE UNCHANGED result
  /\ IF result' = "none"
     THEN pc' = "connect" /\ attempt' = attempt + 1
     ELSE pc' = "returned" /\ UNCHANGED attempt
  /\ UNCHANGED <<acked, flags, network, sent, ran>>

----------------------------------------------------------------------------
(* The network thread and the printer. *)

\* on_connect, rc = 0: raise the shared flag, then publish.
OnConnect ==
  /\ link = "connecting"
  /\ link' = "up"
  /\ IF published
     THEN UNCHANGED <<published, netpc>>
     ELSE published' = TRUE /\ netpc' = "publish"
  /\ UNCHANGED <<caller, done, success, queued, transit, puback, sent, ran>>

OnConnectPublish ==
  /\ netpc = "publish"
  /\ sent' = sent + 1 /\ queued' = queued + 1
  /\ netpc' = "idle"
  /\ UNCHANGED <<caller, flags, link, transit, puback, ran>>

OnConnectRefused ==
  /\ link = "connecting"
  /\ link' = "refused"
  /\ done' = TRUE
  /\ UNCHANGED <<caller, published, success, netpc, queued, transit, puback, sent, ran>>

\* The link drops; paho is told never to reconnect, so nothing is resent.
LinkDrops ==
  /\ link \in {"connecting", "up"} /\ netpc = "idle"
  /\ link' = "down" /\ queued' = 0 /\ puback' = FALSE
  /\ UNCHANGED <<caller, flags, netpc, transit, sent, ran>>

Transmit ==
  /\ link = "up" /\ netpc = "idle" /\ queued > 0
  /\ queued' = queued - 1 /\ transit' = transit + 1
  /\ UNCHANGED <<caller, flags, link, netpc, puback, sent, ran>>

\* The printer executes; its PUBACK needs the connection.
Execute ==
  /\ transit > 0
  /\ transit' = transit - 1 /\ ran' = ran + 1
  /\ IF link = "up" THEN puback' = TRUE ELSE UNCHANGED puback
  /\ UNCHANGED <<caller, flags, link, netpc, queued, sent>>

\* on_publish
OnPublish ==
  /\ link = "up" /\ netpc = "idle" /\ puback
  /\ puback' = FALSE
  /\ success' = TRUE /\ done' = TRUE
  /\ UNCHANGED <<caller, published, link, netpc, queued, transit, sent, ran>>

----------------------------------------------------------------------------

Caller == Connect \/ Wait \/ Teardown \/ Decide
Network ==
  \/ OnConnect \/ OnConnectPublish \/ OnConnectRefused \/ LinkDrops
  \/ Transmit \/ Execute \/ OnPublish

Next == Caller \/ Network

Spec == Init /\ [][Next]_vars

\* The caller's thread runs, and a callback that started finishes.
FairSpec == Spec /\ WF_vars(Caller) /\ WF_vars(OnConnectPublish)

----------------------------------------------------------------------------
(* Properties. *)

Abs == INSTANCE AtMostOnceCommand WITH sent <- sent, ran <- ran, result <- result

\* send_command keeps the promise made of a command: at most one publish, True
\* only for a command that ran, False only for one that never went out.
KeepsPromise == Abs!Spec

\* Every call that has begun returns, whatever the link does.
Returns == pc \notin {"connect", "returned"} ~> pc = "returned"
=============================================================================
