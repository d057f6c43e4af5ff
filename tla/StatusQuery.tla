---------------------------- MODULE StatusQuery ----------------------------
(***************************************************************************)
(* The one-shot get_status and get_version of protocols/mqtt_cmd.py.  Each *)
(* attempt has a client, an event and a flag of its own; what get_status   *)
(* has merged outlives the attempts, and the client of an attempt keeps    *)
(* merging until its teardown, which comes after the backoff.              *)
(***************************************************************************)
EXTENDS Naturals

CONSTANTS Keys,       \* _REQUIRED_STATUS_KEYS
          QRetries    \* the retries argument

ASSUME QueryAssumption == QRetries \in Nat /\ Keys # {}

VARIABLES
  ask,                   \* "full": a snapshot, "any": a sign of life, "version"
  qpc, qAttempt,
  merged,                \* the required keys that have arrived
  modules,               \* get_version's answer
  answered, refused,     \* the attempt's event and connect_failed
  qlink,                 \* the attempt's client
  qret,
  heard                  \* history: reports carried something
query == <<ask, qpc, qAttempt, qret>>
heardOf == <<merged, modules, answered, refused, heard>>
qvars == <<query, heardOf, qlink>>

QTypeOK ==
  /\ ask \in {"full", "any", "version"} /\ qAttempt \in 0 .. QRetries
  /\ qpc \in {"connect", "wait", "look", "backoff", "teardown", "final", "returned"}
  /\ merged \subseteq Keys
  /\ modules \in BOOLEAN /\ answered \in BOOLEAN /\ refused \in BOOLEAN /\ heard \in BOOLEAN
  /\ qlink \in {"none", "connecting", "up", "refused", "down"}
  /\ qret \in {"none", "snapshot", "partial", "incomplete", "null", "modules"}
  /\ qpc \in {"connect", "final", "returned"} => qlink = "none"

QInit ==
  /\ ask \in {"full", "any", "version"} /\ qpc = "connect" /\ qAttempt = 0 /\ qret = "none"
  /\ merged = {} /\ modules = FALSE /\ answered = FALSE /\ refused = FALSE /\ heard = FALSE
  /\ qlink = "none"

Complete == merged = Keys

-----------------------------------------------------------------------------
\* A fresh client and event; connect() may raise OSError.
QConnect ==
  /\ qpc = "connect"
  /\ answered' = FALSE /\ refused' = FALSE /\ modules' = FALSE
  /\ \/ qlink' = "connecting" /\ qpc' = "wait"
     \/ qlink' = "none" /\ qpc' = "backoff"
  /\ UNCHANGED <<ask, qAttempt, qret, merged, heard>>

\* event.wait(timeout): the event is set, or the time is up.
Await ==
  /\ qpc = "wait"
  /\ \/ answered /\ qpc' = "look"
     \/ ~answered /\ qpc' = "backoff"
  /\ UNCHANGED <<ask, qAttempt, qret, heardOf, qlink>>

Answer(r) == qret' = r /\ qpc' = "teardown"

\* Set by the refusal of the broker, or by what was asked for; an empty report
\* may set it too, and then the attempt has failed.
Look ==
  /\ qpc = "look"
  /\ IF ask = "version" THEN Answer(IF modules THEN "modules" ELSE "null")
     ELSE IF refused THEN Answer("null")
     ELSE IF merged # {} THEN Answer(IF Complete THEN "snapshot" ELSE "partial")
     ELSE qpc' = "backoff" /\ UNCHANGED qret
  /\ UNCHANGED <<ask, qAttempt, heardOf, qlink>>

\* The sleep before the next attempt, with the client still connected.
Backoff ==
  /\ qpc = "backoff" /\ qpc' = "teardown"
  /\ UNCHANGED <<ask, qAttempt, qret, heardOf, qlink>>

\* loop_stop joins the network thread: no callback of this client runs later.
QTeardown ==
  /\ qpc = "teardown" /\ qlink' = "none"
  /\ IF qret # "none" THEN qpc' = "returned" /\ UNCHANGED qAttempt
     ELSE IF qAttempt = QRetries THEN qpc' = "final" /\ UNCHANGED qAttempt
     ELSE qpc' = "connect" /\ qAttempt' = qAttempt + 1
  /\ UNCHANGED <<ask, qret, heardOf>>

\* After the last attempt: a snapshot that came together late is still good,
\* and nothing but deltas is an error of its own.
LastWord ==
  /\ qpc = "final" /\ qpc' = "returned"
  /\ qret' = IF ask = "version" \/ merged = {} THEN "null"
             ELSE IF Complete THEN "snapshot"
             ELSE IF ask = "full" THEN "incomplete" ELSE "partial"
  /\ UNCHANGED <<ask, qAttempt, heardOf, qlink>>

-----------------------------------------------------------------------------
\* on_connect
OnConnectStatus ==
  /\ qlink = "connecting"
  /\ \/ qlink' = "up" /\ UNCHANGED <<answered, refused>>
     \/ qlink' = "refused" /\ answered' = TRUE /\ refused' = TRUE
  /\ UNCHANGED <<query, merged, modules, heard>>

\* on_message: a full report or a delta; the event is set when nothing is missing,
\* or at once for a sign of life.
OnMessageStatus ==
  /\ qlink = "up" /\ ask # "version"
  /\ \E part \in SUBSET Keys :
       /\ merged' = merged \cup part
       /\ answered' = (answered \/ ask = "any" \/ merged' = Keys)
       /\ heard' = (heard \/ part # {})
  /\ UNCHANGED <<query, modules, refused, qlink>>
OnMessageVersion ==
  /\ qlink = "up" /\ ask = "version"
  /\ modules' = TRUE /\ answered' = TRUE /\ heard' = TRUE
  /\ UNCHANGED <<query, merged, refused, qlink>>

QLinkDrops ==
  /\ qlink \in {"connecting", "up"} /\ qlink' = "down"
  /\ UNCHANGED <<query, heardOf>>

Asking == QConnect \/ Await \/ Look \/ Backoff \/ QTeardown \/ LastWord
QNext == Asking \/ OnConnectStatus \/ OnMessageStatus \/ OnMessageVersion \/ QLinkDrops
QSpec == QInit /\ [][QNext]_qvars /\ WF_qvars(Asking)

-----------------------------------------------------------------------------
\* Callers of get_status never receive a delta dressed up as a snapshot: with
\* require_complete every required key has arrived, over however many attempts.
SnapshotIsWhole ==
  /\ qret = "snapshot" => Complete
  /\ ask = "full" => qret # "partial"

\* get_status returns None only if the printer said nothing or refused; where it
\* did speak, even after the time was up, the caller is told so.
SilenceMeansSilence ==
  qpc = "returned" /\ qret = "null" /\ ask # "version" => ~heard \/ refused

\* A get_status or get_version that has begun returns, whatever the link does.
QueryReturns == qpc \notin {"connect", "returned"} ~> qpc = "returned"
=============================================================================
