--------------------------- MODULE OneShot_proofs ----------------------------
(***************************************************************************)
(* Proofs about the clients that live as long as one call, the Terminal    *)
(* UI's held one and name resolution, for any number of retries, workers,  *)
(* callers, reports, states and addresses.  Each part has an inductive     *)
(* invariant of its own; the theorems at the end say of MCSpec, of which   *)
(* one part runs at a time, what the runs check.                           *)
(***************************************************************************)
EXTENDS MC_OneShot, FiniteSetTheorems, TLAPS

----------------------------------------------------------------------------
(* send_command. *)

\* While nothing is published the payload is nowhere; once the flag is up it is
\* about to be published or was published once, and no other client exists.
FlagInv ==
  /\ ~published => sent = 0 /\ netpc = "idle"
  /\ published => pc # "connect" /\ link \notin {"connecting", "refused"}
  /\ netpc = "publish" => sent = 0 /\ pc \in {"wait", "teardown"}
  /\ netpc = "idle" /\ published => sent = 1
  /\ sent <= 1

\* Where the published copy may be.
CopyInv == queued + transit + ran <= sent

\* The two ways publish_done is set, and what the caller tells.
DoneInv ==
  /\ puback => ran = 1
  /\ success => ran = 1
  /\ done /\ ~success => ~published
  /\ acked => done
  /\ link = "connecting" => ~done
  /\ pc \in {"connect", "decide", "returned"} => link = "none"
  /\ result = "none" <=> pc # "returned"
  /\ result # "none" => netpc = "idle"

IInv == TypeOK /\ FlagInv /\ CopyInv /\ DoneInv

\* send_command starts with nothing published and no client.
LEMMA InitInv == Init => IInv
<1> SUFFICES ASSUME Init PROVE IInv
  OBVIOUS
<1>1. published \in BOOLEAN /\ done \in BOOLEAN /\ success \in BOOLEAN /\ puback \in BOOLEAN /\ acked \in BOOLEAN
  BY Zenon DEF Init
<1> QED
  BY <1>1, RetriesAssumption DEF Init, IInv, TypeOK, FlagInv, CopyInv, DoneInv

\* No attempt, callback, drop or late acknowledgement breaks the invariant: the
\* shared flag goes up before the publish and the verdict waits for loop_stop.
LEMMA InvStep ==
  ASSUME IInv, [Next]_vars
  PROVE  IInv'
<1> USE RetriesAssumption DEF IInv, TypeOK, FlagInv, CopyInv, DoneInv
<1>1. CASE Connect
  <2>1. done' \in BOOLEAN /\ success' \in BOOLEAN /\ acked' \in BOOLEAN
    BY <1>1, Zenon DEF Connect
  <2> QED
    BY <1>1, <2>1 DEF Connect
<1>2. CASE Wait
  BY <1>2 DEF Wait, flags, network
<1>3. CASE Teardown
  <2>1. puback' \in BOOLEAN
    BY <1>3, Zenon DEF Teardown
  <2> QED
    BY <1>3, <2>1 DEF Teardown, flags
<1>4. CASE Decide
  BY <1>4 DEF Decide, flags, network
<1>5. CASE OnConnect
  BY <1>5 DEF OnConnect, caller
<1>6. CASE OnConnectPublish
  BY <1>6 DEF OnConnectPublish, caller, flags
<1>7. CASE OnConnectRefused
  BY <1>7 DEF OnConnectRefused, caller
<1>8. CASE LinkDrops
  <2>1. puback' \in BOOLEAN
    BY <1>8, Zenon DEF LinkDrops
  <2> QED
    BY <1>8, <2>1 DEF LinkDrops, caller, flags
<1>9. CASE Transmit
  BY <1>9 DEF Transmit, caller, flags
<1>10. CASE Execute
  <2>1. puback' \in BOOLEAN
    BY <1>10, Zenon DEF Execute
  <2> QED
    BY <1>10, <2>1 DEF Execute, caller, flags
<1>11. CASE OnPublish
  <2>1. puback' \in BOOLEAN /\ done' \in BOOLEAN /\ success' \in BOOLEAN
    BY <1>11, Zenon DEF OnPublish
  <2> QED
    BY <1>11, <2>1 DEF OnPublish, caller
<1>12. CASE UNCHANGED vars
  BY <1>12 DEF vars, caller, flags, network
<1> QED
  BY <1>1, <1>2, <1>3, <1>4, <1>5, <1>6, <1>7, <1>8, <1>9, <1>10, <1>11, <1>12
  DEF Next, Caller, Network

\* The payload is published at most once, True is told only of a command the
\* printer ran, and False only of one that never went out.
THEOREM SendKeepsPromise == Spec => KeepsPromise
<1>1. Init => Abs!Init
  BY DEF Init, Abs!Init
<1>2. ASSUME IInv, [Next]_vars PROVE [Abs!Next]_(Abs!vars)
  <2> USE DEF IInv, TypeOK, FlagInv, CopyInv, DoneInv, Abs!vars
  <2>1. CASE Decide
    BY <1>2, <2>1 DEF Decide, Abs!Next, Abs!Return
  <2>2. CASE OnConnectPublish
    BY <1>2, <2>2 DEF OnConnectPublish, caller, Abs!Next, Abs!Send
  <2>3. CASE Execute
    BY <1>2, <2>3 DEF Execute, caller, Abs!Next, Abs!Run
  <2>4. CASE Connect \/ Wait \/ Teardown
    BY <2>4 DEF Connect, Wait, Teardown
  <2>5. CASE OnConnect \/ OnConnectRefused \/ LinkDrops \/ Transmit \/ OnPublish
    BY <2>5 DEF OnConnect, OnConnectRefused, LinkDrops, Transmit, OnPublish, caller
  <2>6. CASE UNCHANGED vars
    BY <2>6 DEF vars, caller
  <2> QED
    BY <1>2, <2>1, <2>2, <2>3, <2>4, <2>5, <2>6 DEF Next, Caller, Network
<1>3. IInv /\ [Next]_vars => [Abs!Next]_(Abs!vars)
  BY <1>2
<1>4. Spec => []IInv
  BY InitInv, InvStep, PTL DEF Spec
<1> QED
  BY <1>1, <1>3, <1>4, PTL DEF Spec, KeepsPromise, Abs!Spec

----------------------------------------------------------------------------
(* execute_print_command. *)

\* One message, in one place: about to be published, queued, travelling, or answered.
MessageInv ==
  /\ ppc = "connect" => plink = "none" /\ ~ppublished
  /\ plink = "connecting" => ~ppublished
  /\ ~ppublished => pnetpc = "idle" /\ psent = 0
  /\ pnetpc = "publish" => psent = 0
  /\ psent = 0 => ~pqueued /\ ~ptransit
  /\ psent \in 0..1
  /\ pqueued => ~ptransit
  /\ psent = 0 \/ pqueued \/ ptransit => job = "none"

\* What is on its way to the client agrees with what the printer did, and once the
\* job was taken no snapshot with an older error follows its acknowledgement.
ReportInv ==
  /\ reports \in Seq(Reports)
  /\ \A i \in 1..Len(reports) :
       /\ reports[i] = "ack" => job \in {"taken", "failed"}
       /\ reports[i] = "nack" => job = "refused"
       /\ reports[i] = "error" => job = "failed"
       /\ reports[i] = "snapshot" /\ job \in {"taken", "failed"} =>
            ~ackSeen /\ \A j \in 1..(i - 1) : reports[j] # "ack"
  /\ job \in {"taken", "failed"} => ~latched
  /\ job \in {"none", "taken", "refused", "failed"}

\* What the closures have been told agrees with it too.
HeardInv ==
  /\ accepted => connectFailed \/ ackSeen \/ printError
  /\ ackSeen => job # "none"
  /\ ackSeen /\ job = "refused" => rejected
  /\ rejected => job = "refused"
  /\ printError => job = "failed" \/ rejected

\* The verdict is formed once, after an answer or without one.
JudgeInv ==
  /\ ppc = "decide" => accepted /\ verdict = "none"
  /\ ppc = "teardown" /\ verdict = "none" => accepted
  /\ ppc \in {"connect", "wait", "timedout", "raised"} => verdict = "none"
  /\ VerdictIsTrue

PInv == MessageInv /\ ReportInv /\ HeardInv /\ JudgeInv

\* Nothing is sent, reported or heard yet.
LEMMA PInitInv == PInit => PInv
<1> SUFFICES ASSUME PInit PROVE PInv
  OBVIOUS
<1> QED
  BY DEF PInit, PInv, MessageInv, ReportInv, HeardInv, JudgeInv, VerdictIsTrue

\* A report that is queued leaves the ones before it where they are.
LEMMA QueueGrows ==
  ASSUME ReportInv, NEW m \in Reports, Report(m)
  PROVE  /\ reports' \in Seq(Reports)
         /\ reports' = reports \/ /\ Len(reports') = Len(reports) + 1
                                  /\ reports'[Len(reports) + 1] = m
                                  /\ \A i \in 1..Len(reports) : reports'[i] = reports[i]
  BY DEF ReportInv, Report

\* A report that is read leaves the ones behind it, one place further on.
LEMMA QueueMoves ==
  ASSUME ReportInv, reports # <<>>, reports' = Tail(reports)
  PROVE  /\ reports' \in Seq(Reports)
         /\ Len(reports') = Len(reports) - 1 /\ Len(reports) > 0
         /\ Head(reports) = reports[1] /\ reports[1] \in Reports
         /\ \A i \in 1..Len(reports') : reports'[i] = reports[i + 1]
  BY DEF ReportInv

\* Neither a late callback, a lost message nor an error of an earlier job makes the
\* closures say what the printer did not do.
LEMMA PInvStep == PInv /\ [PNext]_pvars => PInv'
<1> SUFFICES ASSUME PInv, [PNext]_pvars PROVE PInv'
  OBVIOUS
<1> USE DEF PInv, MessageInv, ReportInv, HeardInv, JudgeInv, VerdictIsTrue
<1>1. CASE PConnect
  BY <1>1 DEF PConnect, shared, printer
<1>2. CASE PWait
  BY <1>2 DEF PWait, shared, client, printer
<1>3. CASE Judge
  BY <1>3 DEF Judge, shared, client, printer
<1>4. CASE PTeardown
  BY <1>4 DEF PTeardown, shared, printer
<1>5. CASE PDecide
  BY <1>5 DEF PDecide, shared, client, printer
<1>6. CASE POnConnect
  BY <1>6 DEF POnConnect, pcaller, printer
<1>7. CASE POnConnectPublish
  BY <1>7 DEF POnConnectPublish, pcaller, shared, printer
<1>8. CASE POnConnectRefused
  BY <1>8 DEF POnConnectRefused, pcaller, printer
<1>9. CASE PLinkDrops
  BY <1>9 DEF PLinkDrops, pcaller, shared, printer
<1>10. CASE PTransmit
  BY <1>10 DEF PTransmit, pcaller, shared, printer
<1>11. CASE POnMessage
  <2>1. /\ reports' \in Seq(Reports) /\ Len(reports') = Len(reports) - 1 /\ Len(reports) > 0
        /\ Head(reports) = reports[1] /\ reports[1] \in Reports
        /\ \A i \in 1..Len(reports') : reports'[i] = reports[i + 1]
    BY <1>11, QueueMoves DEF POnMessage
  <2>2. UNCHANGED <<pcaller, connectFailed, ppublished, client, job, latched>>
    BY <1>11 DEF POnMessage
  <2>3. MessageInv'
    BY <2>2 DEF pcaller, client
  <2>4. /\ ackSeen' = (ackSeen \/ reports[1] \in {"ack", "nack"})
        /\ rejected' = (rejected \/ reports[1] = "nack")
        /\ printError' = (printError \/ reports[1] = "error" \/ (reports[1] = "snapshot" /\ ackSeen))
        /\ accepted' = (accepted \/ reports[1] \in {"ack", "nack"} \/ reports[1] = "error"
                        \/ (reports[1] = "snapshot" /\ ackSeen))
    BY <1>11, <2>1 DEF POnMessage
  <2>5. ReportInv'
    <3>1. ASSUME NEW i \in 1..Len(reports'), reports'[i] = "snapshot", job' \in {"taken", "failed"}
          PROVE  ~ackSeen' /\ \A j \in 1..(i - 1) : reports'[j] # "ack"
      <4>1. i + 1 \in 1..Len(reports) /\ reports[i + 1] = "snapshot" /\ job \in {"taken", "failed"}
        BY <2>1, <2>2, <3>1
      <4>2. ~ackSeen /\ \A j \in 1..i : reports[j] # "ack"
        BY <4>1
      <4>3. reports[1] \notin {"ack", "nack"}
        BY <2>1, <4>1, <4>2
      <4>4. \A j \in 1..(i - 1) : reports'[j] # "ack"
        BY <2>1, <4>2
      <4> QED
        BY <2>4, <4>2, <4>3, <4>4
    <3> QED
      BY <2>1, <2>2, <3>1
  <2>6. HeardInv'
    <3>1. reports[1] = "ack" => job \in {"taken", "failed"}
      BY <2>1
    <3>2. reports[1] = "nack" => job = "refused"
      BY <2>1
    <3>3. reports[1] = "error" => job = "failed"
      BY <2>1
    <3>4. reports[1] = "snapshot" /\ ackSeen => job = "refused"
      BY <2>1
    <3> QED
      BY <2>2, <2>4, <3>1, <3>2, <3>3, <3>4
  <2>7. JudgeInv'
    BY <2>2, <2>4 DEF pcaller
  <2> QED
    BY <2>3, <2>5, <2>6, <2>7
<1>12. CASE PushSnapshot
  <2>1. "snapshot" \in Reports
    BY DEF Reports
  <2>2. Report("snapshot") /\ latched /\ UNCHANGED <<pcaller, shared, client, job, latched>>
    BY <1>12 DEF PushSnapshot
  <2>3. ReportInv'
    BY <2>1, <2>2, QueueGrows DEF shared
  <2> QED
    BY <2>2, <2>3 DEF pcaller, shared, client
<1>13. CASE TakeJob
  <2>1. /\ ptransit /\ ptransit' = FALSE /\ job = "none"
        /\ UNCHANGED <<pcaller, shared, plink, pnetpc, pqueued, psent>>
    BY <1>13 DEF TakeJob
  <2>2. CASE job' = "taken" /\ latched' = FALSE /\ Report("ack")
    BY <2>1, <2>2, QueueGrows DEF Reports, pcaller, shared
  <2>3. CASE job' = "refused" /\ UNCHANGED latched /\ Report("nack")
    BY <2>1, <2>3, QueueGrows DEF Reports, pcaller, shared
  <2> QED
    BY <1>13, <2>2, <2>3 DEF TakeJob
<1>14. CASE FailJob
  <2>1. /\ job = "taken" /\ job' = "failed" /\ Report("error")
        /\ UNCHANGED <<pcaller, shared, client, latched>>
    BY <1>14 DEF FailJob
  <2> QED
    BY <2>1, QueueGrows DEF Reports, pcaller, shared, client
<1>15. CASE UNCHANGED pvars
  BY <1>15 DEF pvars, pcaller, shared, client, printer
<1> QED
  BY <1>1, <1>2, <1>3, <1>4, <1>5, <1>6, <1>7, <1>8, <1>9, <1>10, <1>11, <1>12, <1>13, <1>14, <1>15
  DEF PNext, PCaller, PNetwork

\* Types survive each step; a report queued is one of the four.
LEMMA PTypesStep == PTypeOK /\ PInv /\ [PNext]_pvars => PTypeOK'
<1> SUFFICES ASSUME PTypeOK, PInv, [PNext]_pvars PROVE PTypeOK'
  OBVIOUS
<1> USE DEF PTypeOK, Verdicts
<1>1. CASE PConnect
  BY <1>1 DEF PConnect, shared, printer
<1>2. CASE PWait
  BY <1>2 DEF PWait, shared, client, printer
<1>3. CASE Judge
  BY <1>3 DEF Judge, shared, client, printer
<1>4. CASE PTeardown
  <2>1. pqueued' \in BOOLEAN
    BY <1>4, Zenon DEF PTeardown
  <2> QED
    BY <1>4, <2>1 DEF PTeardown, shared, printer
<1>5. CASE PDecide
  BY <1>5 DEF PDecide, shared, client, printer
<1>6. CASE POnConnect
  BY <1>6 DEF POnConnect, pcaller, printer
<1>7. CASE POnConnectPublish
  BY <1>7 DEF POnConnectPublish, pcaller, shared, printer, PInv, MessageInv
<1>8. CASE POnConnectRefused
  BY <1>8 DEF POnConnectRefused, pcaller, printer
<1>9. CASE PLinkDrops
  <2>1. pqueued' \in BOOLEAN
    BY <1>9, Zenon DEF PLinkDrops
  <2> QED
    BY <1>9, <2>1 DEF PLinkDrops, pcaller, shared, printer
<1>10. CASE PTransmit
  <2>1. pqueued' \in BOOLEAN /\ ptransit' \in BOOLEAN
    BY <1>10, Zenon DEF PTransmit
  <2> QED
    BY <1>10, <2>1 DEF PTransmit, pcaller, shared, printer
<1>11. CASE POnMessage
  BY <1>11 DEF POnMessage, pcaller, client
<1>12. CASE PushSnapshot
  BY <1>12, QueueGrows DEF PInv, PushSnapshot, Reports, pcaller, shared, client
<1>13. CASE TakeJob
  <2>1. ptransit' \in BOOLEAN /\ latched' \in BOOLEAN
    BY <1>13, Zenon DEF TakeJob
  <2> QED
    BY <1>13, <2>1, QueueGrows DEF PInv, TakeJob, Reports, pcaller, shared
<1>14. CASE FailJob
  BY <1>14, QueueGrows DEF PInv, FailJob, Reports, pcaller, shared, client
<1>15. CASE UNCHANGED pvars
  BY <1>15 DEF pvars, pcaller, shared, client, printer
<1> QED
  BY <1>1, <1>2, <1>3, <1>4, <1>5, <1>6, <1>7, <1>8, <1>9, <1>10, <1>11, <1>12, <1>13, <1>14, <1>15
  DEF PNext, PCaller, PNetwork

----------------------------------------------------------------------------
(* get_status and get_version. *)

\* The client is gone between attempts; the event is set by a refusal, by the
\* whole status or, where that is enough, by any report.
AttemptInv ==
  /\ QTypeOK
  /\ answered /\ ask = "full" => refused \/ Complete
  /\ qpc = "look" => answered
  /\ qlink = "connecting" => ~refused

\* What was heard is in the merged state, and "null" is never told of it unless
\* the broker refused the attempt.
QuietInv ==
  /\ ask # "version" /\ heard => merged # {}
  /\ qpc \in {"connect", "wait", "look", "backoff", "final"} => qret = "none"
  /\ ask # "version" /\ qret = "null" => refused \/ (merged = {} /\ qpc = "returned")

QInv == AttemptInv /\ QuietInv /\ SnapshotIsWhole

\* Nothing has been asked.
LEMMA QInitInv == QInit => QInv
<1> SUFFICES ASSUME QInit PROVE QInv
  OBVIOUS
<1>1. modules \in BOOLEAN /\ answered \in BOOLEAN /\ refused \in BOOLEAN /\ heard \in BOOLEAN
  BY Zenon DEF QInit
<1> QED
  BY <1>1, QueryAssumption
  DEF QueryAssumption, QInit, QInv, AttemptInv, QuietInv, QTypeOK, SnapshotIsWhole

\* Whatever arrives, and in which attempt, is merged before it is looked at, and
\* the client that could still merge is torn down before the last word.
LEMMA QInvStep == QInv /\ [QNext]_qvars => QInv'
<1> SUFFICES ASSUME QInv, [QNext]_qvars PROVE QInv'
  OBVIOUS
<1> USE QueryAssumption
    DEF QueryAssumption, QInv, AttemptInv, QuietInv, QTypeOK, SnapshotIsWhole, Complete
<1>1. CASE QConnect
  BY <1>1 DEF QConnect
<1>2. CASE Await
  BY <1>2 DEF Await, heardOf
<1>3. CASE Look
  BY <1>3 DEF Look, Answer, heardOf
<1>4. CASE Backoff
  BY <1>4 DEF Backoff, heardOf
<1>5. CASE QTeardown
  BY <1>5 DEF QTeardown, heardOf
<1>6. CASE LastWord
  BY <1>6 DEF LastWord, heardOf
<1>7. CASE OnConnectStatus
  <2>1. answered' \in BOOLEAN /\ refused' \in BOOLEAN
    BY <1>7, Zenon DEF OnConnectStatus
  <2> QED
    BY <1>7, <2>1 DEF OnConnectStatus, query
<1>8. CASE OnMessageStatus
  BY <1>8 DEF OnMessageStatus, query
<1>9. CASE OnMessageVersion
  BY <1>9 DEF OnMessageVersion, query
<1>10. CASE QLinkDrops
  BY <1>10 DEF QLinkDrops, query, heardOf
<1>11. CASE UNCHANGED qvars
  BY <1>11 DEF qvars, query, heardOf
<1> QED
  BY <1>1, <1>2, <1>3, <1>4, <1>5, <1>6, <1>7, <1>8, <1>9, <1>10, <1>11 DEF QNext, Asking

----------------------------------------------------------------------------
(* plate status --monitor. *)

\* The terminal event ends the loop: it was set by a refusal or after the event
\* was written, and nothing changes either of them once the client is gone.
OverInv ==
  /\ over => refusedRc \/ \E s \in Terminal : <<"terminal", s>> \in events
  /\ mret = "ok" => over
  /\ mpc = "stop" => mret # "none"
  /\ mpc = "done" /\ mret = "ok" => ~refusedRc

MInv == MTypeOK /\ OverInv

\* Nothing is watched yet.
LEMMA MInitInv == MInit => MInv
<1> SUFFICES ASSUME MInit PROVE MInv
  OBVIOUS
<1>1. connected \in BOOLEAN /\ refusedRc \in BOOLEAN /\ over \in BOOLEAN /\ reader \in BOOLEAN
  BY Zenon DEF MInit
<1> QED
  BY <1>1, MonitorAssumption DEF MonitorAssumption, MInit, MInv, MTypeOK, OverInv, Seen

\* A report, a refusal or Ctrl-C in any order leaves "ok" to a job that has ended.
LEMMA MInvStep == MInv /\ [MNext]_mvars => MInv'
<1> SUFFICES ASSUME MInv, [MNext]_mvars PROVE MInv'
  OBVIOUS
<1> USE MonitorAssumption DEF MonitorAssumption, MInv, MTypeOK, OverInv, Seen
<1>1. CASE MConnect
  BY <1>1 DEF MConnect, Facts
<1>2. CASE Loop
  BY <1>2 DEF Loop, Facts
<1>3. CASE Finish
  BY <1>3 DEF Finish, Facts
<1>4. CASE KeyboardInterrupt
  BY <1>4 DEF KeyboardInterrupt, Facts
<1>5. CASE MonitorOnConnect
  <2>1. connected' \in BOOLEAN /\ refusedRc' \in BOOLEAN /\ over' \in BOOLEAN
    BY <1>5, Zenon DEF MonitorOnConnect
  <2> QED
    BY <1>5, <2>1 DEF MonitorOnConnect
<1>6. CASE MonitorOnMessage
  <2>1. PICK news \in Seen, anew \in BOOLEAN :
          LET state == Merge(news)
              ends  == state \in Terminal
              says  == state # last \/ anew
          IN  /\ merge' = state
              /\ IF reader
                 THEN /\ events' = events \cup (IF says THEN {<<"update", state>>} ELSE {})
                                          \cup (IF ends THEN {<<"terminal", state>>} ELSE {})
                      /\ last' = IF says THEN state ELSE last
                      /\ over' = (over \/ ends)
                 ELSE UNCHANGED <<events, last, over>>
    BY <1>6 DEF MonitorOnMessage
  <2>2. Merge(news) \in Seen
    BY DEF Merge
  <2>3. /\ mlink = "up" /\ connected'
        /\ UNCHANGED <<mpc, mret, mlink, refusedRc, reader, drops>>
    BY <1>6 DEF MonitorOnMessage
  <2>4. MTypeOK'
    BY <2>1, <2>2, <2>3
  <2>5. events \subseteq events' /\ (over => over')
    BY <2>1
  <2>6. over' => over \/ \E s \in Terminal : <<"terminal", s>> \in events'
    BY <2>1
  <2> QED
    BY <2>3, <2>4, <2>5, <2>6
<1>7. CASE ReaderLeaves
  <2>1. reader' \in BOOLEAN
    BY <1>7, Zenon DEF ReaderLeaves
  <2>2. UNCHANGED <<mpc, mret, mlink, connected, refusedRc, over, merge, last, events, drops>>
    BY <1>7 DEF ReaderLeaves
  <2> QED
    BY <2>1, <2>2
<1>8. CASE MonitorDrop
  BY <1>8 DEF MonitorDrop
<1>9. CASE Reconnect
  BY <1>9 DEF Reconnect, Facts
<1>10. CASE UNCHANGED mvars
  BY <1>10 DEF mvars
<1> QED
  BY <1>1, <1>2, <1>3, <1>4, <1>5, <1>6, <1>7, <1>8, <1>9, <1>10 DEF MNext, Watching

----------------------------------------------------------------------------
(* The held session of the Terminal UI. *)

\* Who is about to use a printer or a session has one, and one that was made.
MadeInv ==
  /\ upc = "releasing" => uprinter # 0
  /\ upc = "locking" => usess # 0
  /\ \A w \in Workers :
       /\ got[w] <= printers /\ sess[w] <= sessions
       /\ hpc[w] \in {"keep", "holding"} => got[w] # 0
       /\ hpc[w] \in {"wait", "using"} => sess[w] # 0

\* A connected session is the service's, is in the hands of the close that took
\* it, or went astray; the last close, of joined threads, leaves no service.
OwnedInv ==
  /\ \A s \in open \ astray : \/ Current(s)
                              \/ upc = "releasing" /\ held[uprinter] = s
                              \/ upc = "locking" /\ usess = s
  /\ upc = "gone" => upass = 2
  /\ upass = 2 => (\A w \in Workers : hpc[w] = "idle") /\ (upc # "closing" => service = 0)

HInv == HTypeOK /\ MadeInv /\ OwnedInv

\* No printer and no session exists.
LEMMA HInitInv == HInit => HInv
  BY HoldAssumption
  DEF HoldAssumption, HInit, HInv, HTypeOK, MadeInv, OwnedInv, Objects, Current

\* Numbers stay within the objects made, and a lock is let go by who took it.
LEMMA HTypesStep == HInv /\ [HNext]_hvars => HTypeOK' /\ MadeInv'
<1> SUFFICES ASSUME HInv, [HNext]_hvars PROVE HTypeOK' /\ MadeInv'
  OBVIOUS
<1> USE HoldAssumption
    DEF HoldAssumption, HInv, HTypeOK, MadeInv, Objects
<1>1. ASSUME NEW w \in Workers, Fetch(w) PROVE HTypeOK' /\ MadeInv'
  BY <1>1 DEF Fetch, HGo, thread, objects, session, ui
<1>2. ASSUME NEW w \in Workers, CheckPrinter(w) PROVE HTypeOK' /\ MadeInv'
  BY <1>2 DEF CheckPrinter, HGo, thread, objects, session, ui
<1>3. ASSUME NEW w \in Workers, BuildPrinter(w) PROVE HTypeOK' /\ MadeInv'
  <2>1. /\ hpc[w] = "build" /\ hpc' = [hpc EXCEPT ![w] = "keep"]
        /\ UNCHANGED <<sess, service, cached, sessions, held, open, lockedBy, upc, upass, uprinter, usess, astray>>
    BY <1>3 DEF BuildPrinter, HGo, session, ui
  <2>2. \/ cached # 0 /\ got' = [got EXCEPT ![w] = cached] /\ printers' = printers
        \/ /\ printers < MaxObjects /\ printers' = printers + 1
           /\ got' = [got EXCEPT ![w] = printers']
    BY <1>3 DEF BuildPrinter
  <2>3. printers' \in 0 .. MaxObjects /\ printers <= printers'
    BY <2>2
  <2>4. got' \in [Workers -> 0 .. MaxObjects]
    <3>1. cached \in 0 .. MaxObjects /\ got \in [Workers -> 0 .. MaxObjects]
      OBVIOUS
    <3> HIDE DEF HInv
    <3> QED
      BY <2>2, <2>3, <3>1
  <2>5. HTypeOK'
    <3>1. hpc' \in [Workers -> {"idle", "check", "build", "keep", "hold", "holding", "ask", "wait", "using", "apply"}]
      BY <2>1
    <3>2. /\ service' \in 0 .. printers' /\ cached' \in 0 .. printers' /\ uprinter' \in 0 .. printers'
          /\ \A p \in Objects : held'[p] # 0 => p <= printers'
      BY <2>1, <2>3
    <3>3. \A v \in Workers : hpc'[v] = "using" => lockedBy'[sess'[v]] = v
      BY <2>1
    <3> QED
      BY <2>1, <2>3, <2>4, <3>1, <3>2, <3>3
  <2>6. MadeInv'
    BY <2>1, <2>2, <2>3
  <2> QED
    BY <2>5, <2>6
<1>4. ASSUME NEW w \in Workers, KeepPrinter(w) PROVE HTypeOK' /\ MadeInv'
  <2>1. /\ hpc[w] = "keep" /\ hpc' = [hpc EXCEPT ![w] = IF w \in Detectors THEN "ask" ELSE "hold"]
        /\ cached' = got[w] /\ service' \in {service, got[w]}
        /\ UNCHANGED <<got, sess, printers, sessions, held, open, lockedBy, upc, upass, uprinter, usess>>
    BY <1>4 DEF KeepPrinter, HGo, session, ui
  <2>2. astray' \subseteq Objects
    <3>1. service # 0 => {held[service]} \ {0} \subseteq Objects
      OBVIOUS
    <3>2. astray \subseteq Objects
      OBVIOUS
    <3>3. astray' = astray \/ (service # 0 /\ astray' = astray \cup ({held[service]} \ {0}))
      BY <1>4 DEF KeepPrinter
    <3> HIDE DEF HInv, Objects
    <3> QED
      BY <3>1, <3>2, <3>3
  <2>3. HTypeOK'
    BY <2>1, <2>2
  <2>4. MadeInv'
    BY <2>1
  <2> QED
    BY <2>3, <2>4
<1>5. ASSUME NEW w \in Workers, Hold(w) PROVE HTypeOK' /\ MadeInv'
  BY <1>5 DEF Hold, HGo, thread, objects, session, ui
<1>6. ASSUME NEW w \in Workers, HoldMqtt(w) PROVE HTypeOK' /\ MadeInv'
  <2>1. /\ hpc[w] = "holding" /\ hpc' = [hpc EXCEPT ![w] = "ask"]
        /\ UNCHANGED <<got, sess, service, cached, printers, open, lockedBy, upc, upass, uprinter, usess, astray>>
    BY <1>6 DEF HoldMqtt, HGo, session, ui
  <2>2. sessions' \in 0 .. MaxObjects /\ sessions <= sessions'
    BY <1>6 DEF HoldMqtt
  <2>3. got[w] \in 1 .. printers
    BY <2>1
  <2>4. \/ held' = held /\ sessions' = sessions
        \/ held' = [held EXCEPT ![got[w]] = sessions'] /\ sessions' = sessions + 1
    BY <1>6 DEF HoldMqtt
  <2>5. HTypeOK'
    <3>1. held' \in [Objects -> 0 .. sessions']
      <4>1. held \in [Objects -> 0 .. sessions] /\ sessions \in Nat
        OBVIOUS
      <4>2. CASE held' = held /\ sessions' = sessions
        BY <4>1, <4>2
      <4>3. CASE held' = [held EXCEPT ![got[w]] = sessions'] /\ sessions' = sessions + 1
        <5>1. held \in [Objects -> 0 .. sessions'] /\ sessions' \in 0 .. sessions'
          BY <4>1, <4>3
        <5> HIDE DEF HInv, Objects
        <5> QED
          BY <5>1, <4>3
      <4> QED
        BY <2>4, <4>2, <4>3
    <3>5. \A p \in Objects : held'[p] # 0 => p <= printers
      BY <2>3, <2>4
    <3>2. hpc' \in [Workers -> {"idle", "check", "build", "keep", "hold", "holding", "ask", "wait", "using", "apply"}]
      BY <2>1
    <3>3. \A v \in Workers : hpc'[v] = "using" => lockedBy'[sess'[v]] = v
      BY <2>1
    <3>4. open' \subseteq 1 .. sessions' /\ usess' \in 0 .. sessions'
      BY <2>1, <2>2
    <3> QED
      BY <2>1, <2>2, <3>1, <3>2, <3>3, <3>4, <3>5
  <2>6. MadeInv'
    BY <2>1, <2>2
  <2> QED
    BY <2>5, <2>6
<1>7. ASSUME NEW w \in Workers, AskStatus(w) PROVE HTypeOK' /\ MadeInv'
  <2> DEFINE p == IF w \in Detectors THEN got[w] ELSE service
             s == IF p = 0 THEN 0 ELSE held[p]
  <2>1. /\ hpc[w] = "ask" /\ hpc' = [hpc EXCEPT ![w] = IF s = 0 THEN "apply" ELSE "wait"]
        /\ sess' = [sess EXCEPT ![w] = s]
        /\ UNCHANGED <<got, service, cached, printers, sessions, held, open, lockedBy, upc, upass, uprinter, usess, astray>>
    BY <1>7 DEF AskStatus, HGo, objects, session, ui
  <2>2. s \in 0 .. sessions
    <3>1. p \in 0 .. printers
      OBVIOUS
    <3> QED
      BY <3>1
  <2> HIDE DEF s, p
  <2>3. HTypeOK'
    BY <2>1, <2>2, SMTT(30)
  <2>4. MadeInv'
    BY <2>1, <2>2
  <2> QED
    BY <2>3, <2>4
<1>8. ASSUME NEW w \in Workers, UseSession(w) PROVE HTypeOK' /\ MadeInv'
  <2>1. /\ hpc[w] = "wait" /\ hpc' = [hpc EXCEPT ![w] = "using"]
        /\ lockedBy[sess[w]] = Nobody /\ lockedBy' = [lockedBy EXCEPT ![sess[w]] = w]
        /\ open' = open \cup {sess[w]} /\ astray' \subseteq astray \cup {sess[w]}
        /\ UNCHANGED <<got, sess, service, cached, printers, sessions, held, upc, upass, uprinter, usess>>
    BY <1>8 DEF UseSession, HGo, objects, ui
  <2>2. sess[w] \in 1 .. sessions /\ sess[w] \in Objects
    BY <2>1
  <2>3. \A v \in Workers : hpc'[v] = "using" => lockedBy'[sess'[v]] = v
    <3> TAKE v \in Workers
    <3>1. CASE v = w
      BY <2>1, <2>2, <3>1
    <3>2. CASE v # w
      BY <2>1, <2>2, <3>2
    <3> QED
      BY <3>1, <3>2
  <2>4. HTypeOK'
    BY <2>1, <2>2, <2>3
  <2>5. MadeInv'
    BY <2>1, <2>2
  <2> QED
    BY <2>4, <2>5
<1>9. ASSUME NEW w \in Workers, StatusDone(w) PROVE HTypeOK' /\ MadeInv'
  BY <1>9, SMTT(30) DEF StatusDone, HGo, thread, objects, session, ui
<1>10. ASSUME NEW w \in Workers, Apply(w) PROVE HTypeOK' /\ MadeInv'
  BY <1>10 DEF Apply, HGo, thread, objects, session, ui
<1>11. CASE Quit
  BY <1>11 DEF Quit, thread, objects, session, ui
<1>12. CASE Close
  BY <1>12 DEF Close, thread, objects, session, ui
<1>13. CASE ReleaseMqtt
  BY <1>13 DEF ReleaseMqtt, thread, objects, session, ui
<1>14. CASE CloseSession
  BY <1>14 DEF CloseSession, thread, objects, session, ui
<1>15. CASE Leave
  BY <1>15 DEF Leave, thread, objects, session, ui
<1>16. CASE UNCHANGED hvars
  BY <1>16 DEF hvars, thread, objects, session, ui
<1> QED
  BY <1>1, <1>2, <1>3, <1>4, <1>5, <1>6, <1>7, <1>8, <1>9, <1>10, <1>11, <1>12, <1>13, <1>14, <1>15, <1>16
  DEF HNext, Fetching, Leaving

\* A service that is replaced or closed lets its session go astray or closes it.
LEMMA HOwnedStep == HInv /\ [HNext]_hvars => OwnedInv'
<1> SUFFICES ASSUME HInv, [HNext]_hvars PROVE OwnedInv'
  OBVIOUS
<1> USE HoldAssumption
    DEF HoldAssumption, HInv, HTypeOK, MadeInv, OwnedInv, Objects, Current
<1>1. ASSUME NEW w \in Workers, Fetch(w) PROVE OwnedInv'
  BY <1>1 DEF Fetch, HGo, thread, objects, session, ui
<1>2. ASSUME NEW w \in Workers, CheckPrinter(w) PROVE OwnedInv'
  BY <1>2 DEF CheckPrinter, HGo, thread, objects, session, ui
<1>3. ASSUME NEW w \in Workers, BuildPrinter(w) PROVE OwnedInv'
  BY <1>3 DEF BuildPrinter, HGo, thread, objects, session, ui
<1>4. ASSUME NEW w \in Workers, KeepPrinter(w) PROVE OwnedInv'
  BY <1>4, SMTT(30) DEF KeepPrinter, HGo, thread, objects, session, ui
<1>5. ASSUME NEW w \in Workers, Hold(w) PROVE OwnedInv'
  BY <1>5 DEF Hold, HGo, thread, objects, session, ui
<1>6. ASSUME NEW w \in Workers, HoldMqtt(w) PROVE OwnedInv'
  <2>1. /\ hpc[w] = "holding" /\ hpc' = [hpc EXCEPT ![w] = "ask"]
        /\ UNCHANGED <<service, open, upc, upass, uprinter, usess, astray>>
    BY <1>6 DEF HoldMqtt, HGo, session, ui
  <2>2. \A p \in Objects : held[p] # 0 => held'[p] = held[p]
    BY <1>6 DEF HoldMqtt
  <2>3. ASSUME NEW s \in open \ astray
        PROVE  \/ service # 0 /\ held'[service] = s
               \/ upc = "releasing" /\ held'[uprinter] = s
               \/ upc = "locking" /\ usess = s
    <3>1. s # 0
      OBVIOUS
    <3>2. service # 0 => service \in Objects
      OBVIOUS
    <3>3. upc = "releasing" => uprinter \in Objects
      OBVIOUS
    <3>4. Current(s) \/ (upc = "releasing" /\ held[uprinter] = s) \/ (upc = "locking" /\ usess = s)
      OBVIOUS
    <3> HIDE DEF HInv, Objects
    <3> QED
      BY <2>2, <3>1, <3>2, <3>3, <3>4
  <2> QED
    BY <2>1, <2>3
<1>7. ASSUME NEW w \in Workers, AskStatus(w) PROVE OwnedInv'
  BY <1>7 DEF AskStatus, HGo, thread, objects, session, ui
<1>8. ASSUME NEW w \in Workers, UseSession(w) PROVE OwnedInv'
  BY <1>8 DEF UseSession, HGo, thread, objects, session, ui
<1>9. ASSUME NEW w \in Workers, StatusDone(w) PROVE OwnedInv'
  BY <1>9 DEF StatusDone, HGo, thread, objects, session, ui
<1>10. ASSUME NEW w \in Workers, Apply(w) PROVE OwnedInv'
  BY <1>10 DEF Apply, HGo, thread, objects, session, ui
<1>11. CASE Quit
  BY <1>11 DEF Quit, thread, objects, session, ui
<1>12. CASE Close
  BY <1>12 DEF Close, thread, objects, session, ui
<1>13. CASE ReleaseMqtt
  BY <1>13 DEF ReleaseMqtt, thread, objects, session, ui
<1>14. CASE CloseSession
  BY <1>14 DEF CloseSession, thread, objects, session, ui
<1>15. CASE Leave
  BY <1>15 DEF Leave, thread, objects, session, ui
<1>16. CASE UNCHANGED hvars
  BY <1>16 DEF hvars, thread, objects, session, ui
<1> QED
  BY <1>1, <1>2, <1>3, <1>4, <1>5, <1>6, <1>7, <1>8, <1>9, <1>10, <1>11, <1>12, <1>13, <1>14, <1>15, <1>16
  DEF HNext, Fetching, Leaving

----------------------------------------------------------------------------
(* Name resolution: the slot in flight is the only one anybody is still at work *)
(* on.  That is why a dead name server holds one thread at most, and why a slot *)
(* that is joined always has somebody who will set its event.                   *)

\* Slots not made yet have no thread; who waits or stores has a slot.
SlotInv ==
  /\ \A s \in Slots : s > slots => worker[s] = "none"
  /\ \A a \in Askers : rpc[a] # "idle" => mine[a] # 0

\* An owner that has not started its thread owns the slot in flight, and alone;
\* one that could not start it has set the event.
OwnerInv ==
  /\ \A a \in Askers : rpc[a] = "start" => mine[a] = inflight /\ worker[mine[a]] = "none"
  /\ \A a, b \in Askers : rpc[a] = "start" /\ rpc[b] = "start" => a = b
  /\ \A a \in Askers : rpc[a] = "clean" => worker[mine[a]] = "gone"

\* A thread at work is that of the slot in flight.
WorkInv == \A s \in Slots : worker[s] \in {"looking", "set"} => s = inflight

RInv == RTypeOK /\ SlotInv /\ OwnerInv /\ WorkInv /\ NoDeadSlot

\* Nobody asks, no slot is made, nothing is cached.
LEMMA RInitInv == RInit => RInv
  BY ResolverAssumption
  DEF ResolverAssumption, RInit, RInv, RTypeOK, SlotInv, OwnerInv, WorkInv, NoDeadSlot, Slots

\* Types survive each step; a slot number is never beyond the slots made.
LEMMA RTypesStep == RInv /\ [RNext]_rvars => RTypeOK'
<1> SUFFICES ASSUME RInv, [RNext]_rvars PROVE RTypeOK'
  OBVIOUS
<1> USE ResolverAssumption DEF ResolverAssumption, RInv, RTypeOK, SlotInv, Slots, RGo
<1>1. CASE CacheCleared
  BY <1>1 DEF CacheCleared
<1>2. ASSUME NEW a \in Askers, ResolveCached(a) PROVE RTypeOK'
  BY <1>2 DEF ResolveCached
<1>3. ASSUME NEW a \in Askers, Resolve(a) PROVE RTypeOK'
  <2>1. CASE inflight # 0
    BY <1>3, <2>1 DEF Resolve
  <2>2. CASE inflight = 0
    <3>1. slots' \in 1 .. MaxSlots /\ inflight' = slots' /\ slots' = slots + 1
      BY <1>3, <2>2 DEF Resolve
    <3>2. mine' \in [Askers -> 0 .. slots']
      BY <1>3, <2>2, <3>1 DEF Resolve
    <3> QED
      BY <1>3, <2>2, <3>1, <3>2 DEF Resolve
  <2> QED
    BY <2>1, <2>2
<1>4. ASSUME NEW a \in Askers, StartWorker(a) PROVE RTypeOK'
  BY <1>4 DEF StartWorker
<1>5. ASSUME NEW a \in Askers, CannotStart(a) PROVE RTypeOK'
  BY <1>5 DEF CannotStart
<1>6. ASSUME NEW a \in Askers, Clean(a) PROVE RTypeOK'
  BY <1>6 DEF Clean
<1>7. ASSUME NEW a \in Askers, WaitDone(a) PROVE RTypeOK'
  BY <1>7 DEF WaitDone
<1>8. ASSUME NEW a \in Askers, Store(a) PROVE RTypeOK'
  BY <1>8 DEF Store
<1>9. ASSUME NEW s \in Slots, Answered(s) PROVE RTypeOK'
  BY <1>9 DEF Answered
<1>10. ASSUME NEW s \in Slots, DropSlot(s) PROVE RTypeOK'
  BY <1>10 DEF DropSlot
<1>11. CASE UNCHANGED rvars
  BY <1>11 DEF rvars
<1> QED
  BY <1>1, <1>2, <1>3, <1>4, <1>5, <1>6, <1>7, <1>8, <1>9, <1>10, <1>11 DEF RNext, Resolving

\* The rest of the invariant survives each step: a new slot is made only when none
\* is in flight, and it leaves only when its thread or its owner is through.
LEMMA ROwnersStep == RInv /\ [RNext]_rvars => SlotInv' /\ OwnerInv' /\ WorkInv' /\ NoDeadSlot'
<1> DEFINE Good == SlotInv /\ OwnerInv /\ WorkInv /\ NoDeadSlot
<1> SUFFICES ASSUME RInv, [RNext]_rvars PROVE Good'
  OBVIOUS
<1> USE ResolverAssumption
    DEF ResolverAssumption, RInv, RTypeOK, SlotInv, OwnerInv, WorkInv, NoDeadSlot, Slots, RGo
<1>1. CASE CacheCleared
  BY <1>1 DEF CacheCleared
<1>2. ASSUME NEW a \in Askers, ResolveCached(a) PROVE Good'
  BY <1>2 DEF ResolveCached
<1>3. ASSUME NEW a \in Askers, Resolve(a) PROVE Good'
  <2>1. CASE inflight # 0
    <3>1. \A b \in Askers : b # a => mine'[b] = mine[b] /\ rpc'[b] = rpc[b]
      BY <1>3, <2>1 DEF Resolve
    <3>2. mine'[a] = inflight /\ rpc[a] = "idle" /\ rpc'[a] = "wait"
      BY <1>3, <2>1 DEF Resolve
    <3>3. UNCHANGED <<slots, inflight, worker>>
      BY <1>3, <2>1 DEF Resolve
    <3>4. SlotInv' /\ WorkInv'
      BY <2>1, <3>1, <3>2, <3>3
    <3>5. OwnerInv'
      <4>1. \A b \in Askers : rpc'[b] \in {"start", "clean"} => b # a
        BY <3>2
      <4>2. \A b \in Askers : rpc'[b] = "start" => mine'[b] = inflight' /\ worker'[mine'[b]] = "none"
        BY <3>1, <3>3, <4>1
      <4>3. \A b, c \in Askers : rpc'[b] = "start" /\ rpc'[c] = "start" => b = c
        BY <3>1, <4>1
      <4>4. \A b \in Askers : rpc'[b] = "clean" => worker'[mine'[b]] = "gone"
        BY <3>1, <3>3, <4>1
      <4> QED
        BY <4>2, <4>3, <4>4
    <3>6. NoDeadSlot'
      BY <3>1, <3>2, <3>3
    <3> QED
      BY <3>4, <3>5, <3>6
  <2>2. CASE inflight = 0
    <3>1. slots' = slots + 1 /\ inflight' = slots' /\ slots' \in Slots /\ worker' = worker
      BY <1>3, <2>2 DEF Resolve
    <3>2. \A b \in Askers : b # a => mine'[b] = mine[b] /\ rpc'[b] = rpc[b]
      BY <1>3, <2>2 DEF Resolve
    <3>3. mine'[a] = slots' /\ rpc'[a] = "start" /\ worker[slots'] = "none"
      BY <1>3, <2>2, <3>1 DEF Resolve
    <3>4. \A b \in Askers : rpc[b] # "start"
      BY <2>2
    <3>5. \A s \in Slots : worker[s] \notin {"looking", "set"}
      BY <2>2
    <3>6. SlotInv'
      BY <3>1, <3>2, <3>3
    <3>7. OwnerInv'
      BY <3>1, <3>2, <3>3, <3>4
    <3>8. WorkInv' /\ NoDeadSlot'
      BY <3>1, <3>3, <3>5
    <3> QED
      BY <3>6, <3>7, <3>8
  <2> QED
    BY <2>1, <2>2
<1>4. ASSUME NEW a \in Askers, StartWorker(a) PROVE Good'
  BY <1>4 DEF StartWorker
<1>5. ASSUME NEW a \in Askers, CannotStart(a) PROVE Good'
  BY <1>5 DEF CannotStart
<1>6. ASSUME NEW a \in Askers, Clean(a) PROVE Good'
  BY <1>6 DEF Clean
<1>7. ASSUME NEW a \in Askers, WaitDone(a) PROVE Good'
  BY <1>7 DEF WaitDone
<1>8. ASSUME NEW a \in Askers, Store(a) PROVE Good'
  BY <1>8 DEF Store
<1>9. ASSUME NEW s \in Slots, Answered(s) PROVE Good'
  BY <1>9 DEF Answered
<1>10. ASSUME NEW s \in Slots, DropSlot(s) PROVE Good'
  BY <1>10 DEF DropSlot
<1>11. CASE UNCHANGED rvars
  BY <1>11 DEF rvars
<1> QED
  BY <1>1, <1>2, <1>3, <1>4, <1>5, <1>6, <1>7, <1>8, <1>9, <1>10, <1>11 DEF RNext, Resolving

----------------------------------------------------------------------------
(* Theorems. *)

\* The lookup in flight, if any, is the one thread that may hang.
LEMMA LiveFromInv == RInv => OneLiveLookup
<1> SUFFICES ASSUME RInv PROVE OneLiveLookup
  OBVIOUS
<1>1. {s \in Slots : worker[s] = "looking"} \in SUBSET {inflight}
  BY DEF RInv, WorkInv
<1>2. IsFiniteSet({inflight}) /\ Cardinality({inflight}) = 1
  BY FS_Singleton
<1>3. OneLookup
  BY <1>1, <1>2, FS_Subset DEF OneLookup
<1> QED
  BY <1>3 DEF OneLiveLookup, RInv

\* However many callers join a lookup or give up on a dead name server, the lookup in
\* flight is the only one, and whoever joins it waits for somebody who is alive.
THEOREM LookupIsShared == RSpec => []OneLiveLookup
<1>1. RInv /\ [RNext]_rvars => RInv'
  BY RTypesStep, ROwnersStep DEF RInv
<1> QED
  BY <1>1, RInitInv, LiveFromInv, PTL DEF RSpec

\* A connected session that did not go astray is the service's.
LEMMA OwnedFromInv == HInv => SessionOwned
<1> SUFFICES ASSUME HInv PROVE SessionOwned
  OBVIOUS
<1>1. open \ astray \subseteq {held[service]} \/ upc # "running"
  BY DEF HInv, OwnedInv, Current
<1>2. IsFiniteSet({held[service]}) /\ Cardinality({held[service]}) = 1
  BY FS_Singleton
<1>3. SharedSession
  BY <1>1, <1>2, FS_Subset DEF SharedSession
<1>4. NothingHeldAtExit
  BY DEF HInv, OwnedInv, Current, NothingHeldAtExit
<1> QED
  BY <1>3, <1>4 DEF SessionOwned

\* However the status workers, the AMS detection and quitting interleave, one held
\* connection while the app runs and none afterwards, but for those that went astray.
THEOREM SessionIsOwned == HSpec => []SessionOwned
<1>1. HInv /\ [HNext]_hvars => HInv'
  BY HTypesStep, HOwnedStep DEF HInv
<1> QED
  BY <1>1, HInitInv, OwnedFromInv, PTL DEF HSpec

\* The verdict on a print is what the printer did, however late its reports are.
THEOREM PrintVerdictIsTrue == PSpec => []VerdictIsTrue
<1>1. PInv => VerdictIsTrue
  BY DEF PInv, JudgeInv
<1> QED
  BY <1>1, PInitInv, PInvStep, PTL DEF PSpec

\* Where the race of a late connection is left out: a verdict without an answer was
\* formed of nothing published, and no connection can be accepted any more.
UnsentInv ==
  /\ verdict \in {"timeout", "neterror", "noconnect"} => ~ppublished
  /\ connectFailed => ~ppublished /\ plink # "connecting" /\ ppc # "connect"
  /\ verdict = "none" \/ ppc \in {"teardown", "returned"}
  /\ ppc \in {"decide", "returned"} => plink = "none"

\* Every other step keeps it.
LEMMA UnsentStep == PInv /\ UnsentInv /\ [PNext]_pvars /\ ~LateConnect => UnsentInv'
<1> SUFFICES ASSUME PInv, UnsentInv, [PNext]_pvars, ~LateConnect PROVE UnsentInv'
  OBVIOUS
<1> USE DEF UnsentInv, PInv, MessageInv, JudgeInv
<1>1. CASE PConnect
  BY <1>1 DEF PConnect, shared
<1>2. CASE PWait
  BY <1>2 DEF PWait, shared, client
<1>3. CASE Judge
  BY <1>3 DEF Judge, shared, client
<1>4. CASE PDecide
  BY <1>4 DEF PDecide, shared, client
<1>5. CASE PTeardown
  BY <1>5 DEF PTeardown, shared
<1>6. CASE POnConnect
  BY <1>6 DEF POnConnect, LateConnect, pcaller
<1>7. CASE POnConnectPublish
  BY <1>7 DEF POnConnectPublish, pcaller, shared
<1>8. CASE POnConnectRefused
  BY <1>8 DEF POnConnectRefused, pcaller
<1>9. CASE PLinkDrops \/ PTransmit
  BY <1>9 DEF PLinkDrops, PTransmit, pcaller, shared
<1>10. CASE POnMessage
  BY <1>10 DEF POnMessage, pcaller, client
<1>11. CASE PushSnapshot \/ TakeJob \/ FailJob
  BY <1>11 DEF PushSnapshot, TakeJob, FailJob, pcaller, shared, client
<1>12. CASE UNCHANGED pvars
  BY <1>12 DEF pvars, pcaller, shared, client
<1> QED
  BY <1>1, <1>2, <1>3, <1>4, <1>5, <1>6, <1>7, <1>8, <1>9, <1>10, <1>11, <1>12 DEF PNext, PCaller, PNetwork

\* A print whose verdict is printed: false without an answer never started
\* (PrintedFalseMeansNotStarted), unless its connection is accepted between the judging of
\* the timeout and loop_stop: that step is the only way to the answer a run shows false.
THEOREM FalseUnlessLateConnect ==
  PSpec /\ [][~LateConnect]_pvars => []PrintedFalseMeansNotStarted
<1>1. PInit => UnsentInv
  BY DEF PInit, UnsentInv
<1>2. PInv /\ PInv' /\ UnsentInv /\ [PNext]_pvars /\ [~LateConnect]_pvars => UnsentInv'
  <2>1. CASE UNCHANGED pvars
    BY <2>1 DEF pvars, pcaller, shared, client, UnsentInv
  <2>2. QED
    BY <2>1, UnsentStep
<1>3. PInv /\ UnsentInv => PrintedFalseMeansNotStarted
  BY DEF PInv, MessageInv, UnsentInv, PrintedFalseMeansNotStarted
<1> QED
  BY <1>1, <1>2, <1>3, PInitInv, PInvStep, PTL DEF PSpec

\* What QInv and MInv say of the answers.
LEMMA StatusFromInv == QInv => SnapshotIsWhole /\ SilenceMeansSilence
  BY DEF QInv, QuietInv, SilenceMeansSilence

\* The monitor ends well only on a terminal state.
LEMMA SuccessFromInv == MInv => SuccessIsTerminal
  BY DEF MInv, OverInv, SuccessIsTerminal

\* A delta is never passed off as a snapshot, nor a printer that spoke as silent,
\* over however many attempts.
THEOREM StatusIsTrue == QSpec => [](SnapshotIsWhole /\ SilenceMeansSilence)
  BY QInitInv, QInvStep, StatusFromInv, PTL DEF QSpec

\* The monitor ends well only after a terminal event was written.
THEOREM MonitorEndsTruly == MSpec => []SuccessIsTerminal
  BY MInitInv, MInvStep, SuccessFromInv, PTL DEF MSpec

\* The invariants of all parts, as MCSpec runs them.
Parts == IInv /\ PTypeOK /\ PInv /\ QInv /\ MInv /\ HInv /\ RInv

\* The clients side by side start within their invariants
LEMMA PartsInit == MCInit => Parts
<1>1. PInit => PTypeOK
  <2> SUFFICES ASSUME PInit PROVE PTypeOK
    OBVIOUS
  <2>1. /\ accepted \in BOOLEAN /\ connectFailed \in BOOLEAN /\ ppublished \in BOOLEAN
        /\ ackSeen \in BOOLEAN /\ rejected \in BOOLEAN /\ printError \in BOOLEAN
        /\ pqueued \in BOOLEAN /\ ptransit \in BOOLEAN /\ latched \in BOOLEAN
    BY Zenon DEF PInit
  <2> QED
    BY <2>1 DEF PInit, PTypeOK, Verdicts
<1> QED
  BY <1>1, InitInv, PInitInv, QInitInv, MInitInv, HInitInv, RInitInv DEF MCInit, Parts

\* A step of one part leaves the others alone.
LEMMA PartsStep == Parts /\ [MCNext]_all => Parts'
<1> SUFFICES ASSUME Parts, [MCNext]_all PROVE Parts'
  OBVIOUS
<1>1. /\ [Next]_vars /\ [PNext]_pvars /\ [QNext]_qvars
      /\ [MNext]_mvars /\ [HNext]_hvars /\ [RNext]_rvars
  BY DEF MCNext, all
<1>2. IInv'
  BY <1>1, InvStep DEF Parts
<1>3. PTypeOK' /\ PInv'
  BY <1>1, PTypesStep, PInvStep DEF Parts
<1>4. QInv' /\ MInv'
  BY <1>1, QInvStep, MInvStep DEF Parts
<1>5. HInv'
  BY <1>1, HTypesStep, HOwnedStep DEF Parts, HInv
<1>6. RInv'
  BY <1>1, RTypesStep, ROwnersStep DEF Parts, RInv
<1> QED
  BY <1>2, <1>3, <1>4, <1>5, <1>6 DEF Parts

\* and stay there.
LEMMA PartsAlways == MCSpec => []Parts
  BY PartsInit, PartsStep, PTL DEF MCSpec

\* Every variable of every one-shot client has its type.
THEOREM OneShotTypeCorrect == MCSpec => []OneShotTypes
<1>1. Parts => OneShotTypes
  BY DEF Parts, IInv, QInv, AttemptInv, MInv, HInv, RInv, OneShotTypes
<1> QED
  BY <1>1, PartsAlways, PTL

\* What a one-shot client tells its caller is what the printer did or said.
THEOREM OneShotAnswersAreTrue == MCSpec => []AnswersAreTrue
<1>1. Parts => AnswersAreTrue
  BY StatusFromInv, SuccessFromInv DEF Parts, PInv, JudgeInv, AnswersAreTrue
<1> QED
  BY <1>1, PartsAlways, PTL
=============================================================================
