----------------------------- MODULE PrintStart -----------------------------
(***************************************************************************)
(* execute_print_command (protocols/mqtt_print.py): publish project_file   *)
(* on a fresh paho client, wait once for the printer's answer, stop the    *)
(* client, and say what became of the print.  on_connect and on_message    *)
(* run on the network thread between the caller's steps, until loop_stop   *)
(* has joined it.                                                          *)
(*                                                                         *)
(* The printer is external: it takes or refuses the job, may fail it, and  *)
(* before the job may report an error latched from an earlier one.  Its    *)
(* reports arrive in order.  Dry run and simulation mode are left out.     *)
(***************************************************************************)
EXTENDS Naturals, Sequences

CONSTANT MaxReports   \* bound: reports on their way at one time

ASSUME ReportsAssumption == MaxReports \in Nat

VARIABLES
  ppc, verdict,                                    \* the caller
  accepted, connectFailed, ppublished, ackSeen,    \* what its closures share
  rejected, printError,
  plink, pnetpc, pqueued, ptransit, psent,             \* client, network thread, message
  job, latched, reports                           \* the printer and its report topic

pcaller   == <<ppc, verdict>>
shared   == <<accepted, connectFailed, ppublished, ackSeen, rejected, printError>>
client   == <<plink, pnetpc, pqueued, ptransit, psent>>
printer  == <<job, latched, reports>>
pvars == <<pcaller, shared, client, printer>>

\* A full snapshot with a latched error, the two acknowledgements of
\* project_file, and a delta that raises an error.
Reports == {"snapshot", "ack", "nack", "error"}

\* printed is null for "unconfirmed", true for "started", false for the others.
Verdicts == {"none", "timeout", "neterror", "noconnect", "rejected", "failed",
             "unconfirmed", "started"}

PTypeOK ==
  /\ ppc \in {"connect", "wait", "timedout", "raised", "teardown", "decide", "returned"}
  /\ verdict \in Verdicts
  /\ accepted \in BOOLEAN /\ connectFailed \in BOOLEAN /\ ppublished \in BOOLEAN
  /\ ackSeen \in BOOLEAN /\ rejected \in BOOLEAN /\ printError \in BOOLEAN
  /\ pqueued \in BOOLEAN /\ ptransit \in BOOLEAN /\ latched \in BOOLEAN
  /\ plink \in {"none", "connecting", "up", "refused", "down"}
  /\ pnetpc \in {"idle", "publish"}
  /\ psent \in 0..1
  /\ job \in {"none", "taken", "refused", "failed"}
  /\ reports \in Seq(Reports)

PInit ==
  /\ ppc = "connect" /\ verdict = "none"
  /\ accepted = FALSE /\ connectFailed = FALSE /\ ppublished = FALSE
  /\ ackSeen = FALSE /\ rejected = FALSE /\ printError = FALSE
  /\ plink = "none" /\ pnetpc = "idle" /\ pqueued = FALSE /\ ptransit = FALSE /\ psent = 0
  /\ job = "none" /\ latched \in BOOLEAN /\ reports = <<>>

----------------------------------------------------------------------------
(* The caller. *)

\* _connect and loop_start, or an exception.
PConnect ==
  /\ ppc = "connect"
  /\ \/ plink' = "connecting" /\ ppc' = "wait"
     \/ UNCHANGED plink /\ ppc' = "raised"
  /\ UNCHANGED <<verdict, shared, pnetpc, pqueued, ptransit, psent, printer>>

\* command_accepted.wait(print_ack_timeout)
PWait ==
  /\ ppc = "wait"
  /\ ppc' = IF accepted THEN "teardown" ELSE "timedout"
  /\ UNCHANGED <<verdict, shared, client, printer>>

\* Timeout or exception: judged by the published flag, before loop_stop.
Judge ==
  /\ ppc \in {"timedout", "raised"}
  /\ verdict' = IF ppublished THEN "unconfirmed"
                ELSE IF ppc = "timedout" THEN "timeout" ELSE "neterror"
  /\ ppc' = "teardown"
  /\ UNCHANGED <<shared, client, printer>>

\* finally: loop_stop joins the network thread; a message still queued may be lost.
PTeardown ==
  /\ ppc = "teardown" /\ pnetpc = "idle"
  /\ plink' = "none" /\ pqueued' = FALSE
  /\ ppc' = IF verdict = "none" THEN "decide" ELSE "returned"
  /\ UNCHANGED <<verdict, shared, pnetpc, ptransit, psent, printer>>

PDecide ==
  /\ ppc = "decide"
  /\ verdict' = IF connectFailed THEN "noconnect"
                ELSE IF rejected THEN "rejected"
                ELSE IF printError THEN "failed" ELSE "started"
  /\ ppc' = "returned"
  /\ UNCHANGED <<shared, client, printer>>

----------------------------------------------------------------------------
(* The network thread. *)

\* on_connect, rc = 0: subscribe, raise the flag, publish.
POnConnect ==
  /\ plink = "connecting"
  /\ plink' = "up"
  /\ ppublished' = TRUE
  /\ pnetpc' = IF ppublished THEN "idle" ELSE "publish"
  /\ UNCHANGED <<pcaller, accepted, connectFailed, ackSeen, rejected, printError,
                 pqueued, ptransit, psent, printer>>

POnConnectPublish ==
  /\ pnetpc = "publish"
  /\ pnetpc' = "idle"
  /\ pqueued' = TRUE /\ psent' = psent + 1
  /\ UNCHANGED <<pcaller, shared, plink, ptransit, printer>>

POnConnectRefused ==
  /\ plink = "connecting"
  /\ plink' = "refused"
  /\ connectFailed' = TRUE /\ accepted' = TRUE
  /\ UNCHANGED <<pcaller, ppublished, ackSeen, rejected, printError, pnetpc, pqueued,
                 ptransit, psent, printer>>

\* The link drops, with the message if it was still queued; paho never reconnects.
PLinkDrops ==
  /\ plink \in {"connecting", "up"} /\ pnetpc = "idle"
  /\ plink' = "down" /\ pqueued' = FALSE
  /\ UNCHANGED <<pcaller, shared, pnetpc, ptransit, psent, printer>>

PTransmit ==
  /\ plink = "up" /\ pnetpc = "idle" /\ pqueued
  /\ pqueued' = FALSE /\ ptransit' = TRUE
  /\ UNCHANGED <<pcaller, shared, plink, pnetpc, psent, printer>>

\* Bug: every report that carries an error is believed.
POnMessageCredulous ==
  /\ plink = "up" /\ pnetpc = "idle" /\ reports # <<>>
  /\ LET m == Head(reports) IN
       /\ ackSeen' = (ackSeen \/ m \in {"ack", "nack"})
       /\ rejected' = (rejected \/ m = "nack")
       /\ printError' = (printError \/ m \in {"snapshot", "error"})
       /\ accepted' = TRUE
  /\ reports' = Tail(reports)
  /\ UNCHANGED <<pcaller, connectFailed, ppublished, client, job, latched>>

\* on_message.  A complete snapshot before the acknowledgement is stale: its
\* error is not this job's.
POnMessage ==
  /\ plink = "up" /\ pnetpc = "idle" /\ reports # <<>>
  /\ LET m     == Head(reports)
         isAck == m \in {"ack", "nack"}
         blame == m = "error" \/ (m = "snapshot" /\ ackSeen)
     IN /\ ackSeen' = (ackSeen \/ isAck)
        /\ rejected' = (rejected \/ m = "nack")
        /\ printError' = (printError \/ blame)
        /\ accepted' = (accepted \/ isAck \/ blame)
  /\ reports' = Tail(reports)
  /\ UNCHANGED <<pcaller, connectFailed, ppublished, client, job, latched>>

----------------------------------------------------------------------------
(* The printer. *)

\* A report reaches this client only while it is connected.
Report(m) ==
  /\ Len(reports) < MaxReports
  /\ reports' = IF plink = "up" THEN Append(reports, m) ELSE reports

\* Periodic snapshot while an earlier job's error is still latched.
PushSnapshot ==
  /\ latched /\ plink = "up"
  /\ Report("snapshot")
  /\ UNCHANGED <<pcaller, shared, client, job, latched>>

TakeJob ==
  /\ ptransit
  /\ ptransit' = FALSE
  /\ \/ job' = "taken" /\ latched' = FALSE /\ Report("ack")
     \/ job' = "refused" /\ UNCHANGED latched /\ Report("nack")
  /\ UNCHANGED <<pcaller, shared, plink, pnetpc, pqueued, psent>>

FailJob ==
  /\ job = "taken"
  /\ job' = "failed"
  /\ Report("error")
  /\ UNCHANGED <<pcaller, shared, client, latched>>

----------------------------------------------------------------------------

PCaller == PConnect \/ PWait \/ Judge \/ PTeardown \/ PDecide
PNetwork ==
  \/ POnConnect \/ POnConnectPublish \/ POnConnectRefused \/ PLinkDrops
  \/ PTransmit \/ POnMessage \/ PushSnapshot \/ TakeJob \/ FailJob

PNext == PCaller \/ PNetwork

PSpec == PInit /\ [][PNext]_pvars

\* The caller's thread runs, and a callback that started finishes.
PFairSpec == PSpec /\ WF_pvars(PCaller) /\ WF_pvars(POnConnectPublish)

----------------------------------------------------------------------------
(* Properties. *)

\* What the caller is told is what the printer did: "started" only for a job it
\* took, "rejected" only for one it refused, "failed" only for one it failed,
\* never for an error an earlier job left behind (tests
\* test_execute_print_stale_error_before_ack_is_not_blamed and
\* test_execute_print_error_after_ack_is_blamed).
VerdictIsTrue ==
  /\ verdict = "started" => job \in {"taken", "failed"}
  /\ verdict = "rejected" => job = "refused"
  /\ verdict = "failed" => job = "failed"

\* printed: false without an answer from the printer means nothing started: a
\* command that went out is printed: null (docstring of _abort_unconfirmed).
PrintedFalseMeansNotStarted ==
  verdict \in {"timeout", "neterror", "noconnect"} => job = "none"

\* The step that makes it false: the connection is accepted after the timeout was
\* judged, before loop_stop.
LateConnect == POnConnect /\ ppc = "teardown"

\* Every call that has begun returns, whatever the link and the printer do.
PrintReturns == ppc \notin {"connect", "returned"} ~> ppc = "returned"
=============================================================================
