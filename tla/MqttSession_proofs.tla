------------------------ MODULE MqttSession_proofs ------------------------
(***************************************************************************)
(* Type correctness of MqttSession, the at-most-once guarantee of          *)
(* send_command, the finality of its answers and the freshness of          *)
(* get_status, for any number of threads, payloads and retries.            *)
(*                                                                         *)
(* The inductive invariant IInv says who may still publish a payload: a    *)
(* payload that is fresh, queued for the lock, or pending with the         *)
(* once-flag down has never been published; raising the flag makes its     *)
(* raiser the only publisher; publishing ends that.  It also says that an  *)
(* answer is given only when nothing more can be issued on the connection, *)
(* and that a call reconnects before it reads state of a lost one.         *)
(***************************************************************************)
EXTENDS MqttSession, TLAPS

Inside(t) == pc[t] \notin {"idle", "lock"}

\* Exactly the thread inside an operation holds _op_lock.
LockInv == \A t \in Threads : Inside(t) <=> opLock = t

\* A call's payload is its own, and no longer fresh.
CallInv ==
  \A t \in Threads :
    /\ cmd[t] \notin fresh
    /\ pc[t] # "idle" /\ op[t] = "send" => cmd[t] \in Cmds
    /\ \A u \in Threads : cmd[t] = cmd[u] /\ cmd[t] # NoCmd => t = u
    /\ pc[t] = "pub" => op[t] = "send" /\ issued

\* What is pending is the payload of the send_command that holds the lock.
PendingInv ==
  /\ \A t \in Threads : Inside(t) /\ op[t] = "send" => pending = cmd[t]
  /\ pending # NoCmd =>
       \E t \in Threads : Inside(t) /\ op[t] = "send" /\ cmd[t] = pending

\* Between the once-flag's test and set and the publish it allows.
CallerPublishing(c) == \E t \in Threads : pc[t] = "pub" /\ cmd[t] = c
NetPublishing(c) == netpc = "pub" /\ netCmd = c

\* A payload no one has issued yet.
Unissued(c) ==
  \/ c \in fresh
  \/ \E t \in Threads : pc[t] = "lock" /\ op[t] = "send" /\ cmd[t] = c
  \/ pending = c /\ ~issued

IssueInv ==
  /\ netpc = "pub" => netCmd \in Cmds
  /\ \A c \in Cmds :
       /\ published[c] <= 1
       /\ CallerPublishing(c) => published[c] = 0 /\ ~NetPublishing(c)
       /\ NetPublishing(c) => published[c] = 0
       /\ Unissued(c) =>
            published[c] = 0 /\ ~CallerPublishing(c) /\ ~NetPublishing(c)

\* Every copy of a payload, queued, in transit or executed, was published.
Copies(c) ==
  executed[c] + (IF c \in outq THEN 1 ELSE 0)
              + (IF c \in wire THEN 1 ELSE 0)
              + (IF c \in orphans THEN 1 ELSE 0)
CopiesInv == \A c \in Cmds : Copies(c) <= published[c]


----------------------------------------------------------------------------

\* Every step keeps the flags Boolean.
LEMMA FlagStep == FlagTypes /\ full \in [Threads -> BOOLEAN] /\ [Next]_vars => FlagTypes'
<1> SUFFICES ASSUME FlagTypes /\ full \in [Threads -> BOOLEAN], [Next]_vars PROVE FlagTypes'
  OBVIOUS
<1> USE DEF FlagTypes
<1>1. ASSUME NEW t \in Threads, Call(t) PROVE FlagTypes'
  BY <1>1 DEF Call, At, Goto, waits, command, paho, printer
<1>2. ASSUME NEW t \in Threads, Acquire(t) PROVE FlagTypes'
  <2>1. issued' \in BOOLEAN /\ deadData' \in BOOLEAN
    BY <1>2, Zenon DEF Acquire, At, Goto, ResetThen, waits, paho, printer
  <2> QED
    BY <1>2, <2>1 DEF Acquire, At, Goto, ResetThen, waits, paho, printer
<1>3. ASSUME NEW t \in Threads, Begin(t) PROVE FlagTypes'
  <2>1. versionEvt' \in BOOLEAN /\ publishOk' \in BOOLEAN /\ publishEvt' \in BOOLEAN
    BY <1>3, Zenon DEF Begin, At, Goto, paho, printer, history
  <2> QED
    BY <1>3, <2>1 DEF Begin, At, Goto, paho, printer, history
<1>4. ASSUME NEW t \in Threads, Ensure(t) PROVE FlagTypes'
  BY <1>4 DEF Ensure, At, Goto, ResetThen, waits, command, paho, printer, history
<1>5. ASSUME NEW t \in Threads, Reset(t) PROVE FlagTypes'
  <2>1. client' \in BOOLEAN /\ live' \in BOOLEAN /\ connectFailed' \in BOOLEAN /\ deadData' \in BOOLEAN
    BY <1>5, Zenon DEF Reset, At, Goto, waits, command, paho, printer
  <2> QED
    BY <1>5, <2>1 DEF Reset, At, Goto, waits, command, paho, printer
<1>6. ASSUME NEW t \in Threads, Join(t) PROVE FlagTypes'
  <2>1. live' \in BOOLEAN
    BY <1>6, Zenon DEF Join, At, Goto, LinkGone, waits, command, history
  <2> QED
    BY <1>6, <2>1 DEF Join, At, Goto, LinkGone, waits, command, history
<1>7. ASSUME NEW t \in Threads, Make(t) PROVE FlagTypes'
  <2>1. client' \in BOOLEAN /\ connectedEvt' \in BOOLEAN /\ subscribed' \in BOOLEAN
    BY <1>7, Zenon DEF Make, At, Goto, command, printer, history
  <2> QED
    BY <1>7, <2>1 DEF Make, At, Goto, command, printer, history
<1>8. ASSUME NEW t \in Threads, WaitConnected(t) PROVE FlagTypes'
  BY <1>8 DEF WaitConnected, At, Goto, waits, command, paho, printer, history
<1>9. ASSUME NEW t \in Threads, NotConnected(t) PROVE FlagTypes'
  BY <1>9 DEF NotConnected, At, Return, ResetThen, LastAttempt, Goto, waits, command, paho, printer, history
<1>10. ASSUME NEW t \in Threads, OsError(t) PROVE FlagTypes'
  BY <1>10 DEF OsError, At, ResetThen, LastAttempt, Goto, waits, command, paho, printer, history
<1>11. ASSUME NEW t \in Threads, NextAttempt(t) PROVE FlagTypes'
  BY <1>11 DEF NextAttempt, At, Goto, waits, command, paho, printer, history
<1>12. ASSUME NEW t \in Threads, MarkIssued(t) PROVE FlagTypes'
  <2>1. issued' \in BOOLEAN
    BY <1>12, Zenon DEF MarkIssued, At, Goto, CanIssue, waits, paho, printer, history
  <2> QED
    BY <1>12, <2>1 DEF MarkIssued, At, Goto, CanIssue, waits, paho, printer, history
<1>13. ASSUME NEW t \in Threads, PublishCommand(t) PROVE FlagTypes'
  BY <1>13 DEF PublishCommand, At, Goto, Enqueue, waits, command, printer
<1>14. ASSUME NEW t \in Threads, WaitPublished(t) PROVE FlagTypes'
  BY <1>14 DEF WaitPublished, At, Goto, Return, waits, command, paho, printer, history
<1>15. ASSUME NEW t \in Threads, CheckIssued(t) PROVE FlagTypes'
  BY <1>15 DEF CheckIssued, At, Goto, Return, LastAttempt, waits, command, paho, printer, history
<1>16. ASSUME NEW t \in Threads, RequestStatus(t) PROVE FlagTypes'
  BY <1>16 DEF RequestStatus, At, Goto, Return, Enqueue, Ready, waits, command, printer, history
<1>17. ASSUME NEW t \in Threads, ArmStatus(t) PROVE FlagTypes'
  <2>0. full[t] \in BOOLEAN
    OBVIOUS
  <2>1. awaiting' \in BOOLEAN /\ awaitFull' \in BOOLEAN /\ statusEvt' \in BOOLEAN
    BY <1>17, <2>0, Zenon DEF ArmStatus, At, Goto, Enqueue, command, printer, history
  <2> QED
    BY <1>17, <2>1 DEF ArmStatus, At, Goto, Enqueue, command, printer, history
<1>18. ASSUME NEW t \in Threads, WaitStatus(t) PROVE FlagTypes'
  BY <1>18 DEF WaitStatus, At, Goto, Return, LastAttempt, Ready, waits, command, paho, printer, history
<1>19. ASSUME NEW t \in Threads, RequestVersion(t) PROVE FlagTypes'
  BY <1>19 DEF RequestVersion, At, Goto, Enqueue, waits, command, printer, history
<1>20. ASSUME NEW t \in Threads, WaitVersion(t) PROVE FlagTypes'
  BY <1>20 DEF WaitVersion, At, Goto, Return, LastAttempt, waits, command, paho, printer, history
<1>21. ASSUME NEW t \in Threads, Final(t) PROVE FlagTypes'
  BY <1>21 DEF Final, At, Goto, Return, waits, command, paho, printer, history
<1>22. ASSUME NEW t \in Threads, LastLook(t) PROVE FlagTypes'
  BY <1>22 DEF LastLook, At, Return, Ready, Goto, waits, command, paho, printer, history
<1>23. ASSUME NEW t \in Threads, GiveUp(t) PROVE FlagTypes'
  BY <1>23 DEF GiveUp, At, Return, Goto, waits, command, paho, printer, history
<1>24. ASSUME NEW t \in Threads, Release(t) PROVE FlagTypes'
  <2>1. deadData' \in BOOLEAN
    BY <1>24, Zenon DEF Release, At, Goto, waits, paho, printer
  <2> QED
    BY <1>24, <2>1 DEF Release, At, Goto, waits, paho, printer
<1>25. ASSUME OnConnectAccepted PROVE FlagTypes'
  <2>1. live' \in BOOLEAN /\ connectFailed' \in BOOLEAN
    BY <1>25, Zenon DEF OnConnectAccepted, callers, waits, command, printer, history
  <2> QED
    BY <1>25, <2>1 DEF OnConnectAccepted, callers, waits, command, printer, history
<1>26. ASSUME OnConnectSubscribe PROVE FlagTypes'
  <2>1. subscribed' \in BOOLEAN
    BY <1>26, Zenon DEF OnConnectSubscribe, callers, waits, command, printer, history
  <2> QED
    BY <1>26, <2>1 DEF OnConnectSubscribe, callers, waits, command, printer, history
<1>27. ASSUME OnConnectMark PROVE FlagTypes'
  <2>1. issued' \in BOOLEAN
    BY <1>27, Zenon DEF OnConnectMark, CanIssue, callers, waits, printer, history
  <2> QED
    BY <1>27, <2>1 DEF OnConnectMark, CanIssue, callers, waits, printer, history
<1>28. ASSUME OnConnectPublish PROVE FlagTypes'
  BY <1>28 DEF OnConnectPublish, Enqueue, callers, waits, command, printer
<1>29. ASSUME OnConnectDone PROVE FlagTypes'
  <2>1. connectedEvt' \in BOOLEAN
    BY <1>29, Zenon DEF OnConnectDone, callers, command, printer, history
  <2> QED
    BY <1>29, <2>1 DEF OnConnectDone, callers, command, printer, history
<1>30. ASSUME OnConnectRefused PROVE FlagTypes'
  <2>1. live' \in BOOLEAN /\ connectFailed' \in BOOLEAN /\ connectedEvt' \in BOOLEAN
    BY <1>30, Zenon DEF OnConnectRefused, callers, command, printer, history
  <2> QED
    BY <1>30, <2>1 DEF OnConnectRefused, callers, command, printer, history
<1>31. ASSUME OnDisconnect PROVE FlagTypes'
  <2>1. live' \in BOOLEAN
    BY <1>31, Zenon DEF OnDisconnect, LinkGone, callers, waits, command, history
  <2> QED
    BY <1>31, <2>1 DEF OnDisconnect, LinkGone, callers, waits, command, history
<1>32. ASSUME OnMessageReport PROVE FlagTypes'
  <2>1. awaiting' \in BOOLEAN /\ statusEvt' \in BOOLEAN
    BY <1>32, Zenon DEF OnMessageReport, callers, command, paho, printer, history
  <2> QED
    BY <1>32, <2>1 DEF OnMessageReport, callers, command, paho, printer, history
<1>33. ASSUME OnMessageVersion PROVE FlagTypes'
  <2>1. versionEvt' \in BOOLEAN
    BY <1>33, Zenon DEF OnMessageVersion, callers, command, paho, printer, history
  <2> QED
    BY <1>33, <2>1 DEF OnMessageVersion, callers, command, paho, printer, history
<1>34. ASSUME TransmitRequest PROVE FlagTypes'
  <2>1. publishOk' \in BOOLEAN /\ publishEvt' \in BOOLEAN
    BY <1>34, Zenon DEF TransmitRequest, OnPublish, callers, waits, printer, history
  <2> QED
    BY <1>34, <2>1 DEF TransmitRequest, OnPublish, callers, waits, printer, history
<1>35. ASSUME TransmitCommand PROVE FlagTypes'
  BY <1>35 DEF TransmitCommand, callers, waits, command, history
<1>36. ASSUME Execute PROVE FlagTypes'
  BY <1>36 DEF Execute, callers, waits, command, history
<1>37. ASSUME ReceiveAck PROVE FlagTypes'
  <2>1. publishOk' \in BOOLEAN /\ publishEvt' \in BOOLEAN
    BY <1>37, Zenon DEF ReceiveAck, OnPublish, callers, waits, printer, history
  <2> QED
    BY <1>37, <2>1 DEF ReceiveAck, OnPublish, callers, waits, printer, history
<1>38. CASE UNCHANGED vars
  BY <1>38 DEF vars, callers, waits, command, paho, printer, history
<1> QED
  BY <1>1, <1>2, <1>3, <1>4, <1>5, <1>6, <1>7, <1>8, <1>9, <1>10, <1>11, <1>12,
     <1>13, <1>14, <1>15, <1>16, <1>17, <1>18, <1>19, <1>20, <1>21, <1>22, <1>23,
     <1>24, <1>25, <1>26, <1>27, <1>28, <1>29, <1>30, <1>31, <1>32, <1>33, <1>34,
     <1>35, <1>36, <1>37, <1>38
  DEF Next, Caller, Inner, Network, Callback

\* Every step keeps the other variables in their types; what is published is a payload.
LEMMA DataStep == DataTypes /\ CallInv /\ IssueInv /\ [Next]_vars => DataTypes'
<1> SUFFICES ASSUME DataTypes /\ CallInv /\ IssueInv, [Next]_vars PROVE DataTypes'
  OBVIOUS
<1> USE ConstantsAssumption DEF ConstantsAssumption, DataTypes,
       CallerPCs, Returns, NetPCs, Links, Results, AllOps, Requests
<1>1. ASSUME NEW t \in Threads, Call(t) PROVE DataTypes'
  BY <1>1 DEF Call, At, Goto, waits, command, paho, printer
<1>2. ASSUME NEW t \in Threads, Acquire(t) PROVE DataTypes'
  BY <1>2 DEF Acquire, At, Goto, ResetThen, waits, paho, printer
<1>3. ASSUME NEW t \in Threads, Begin(t) PROVE DataTypes'
  BY <1>3 DEF Begin, At, Goto, paho, printer, history
<1>4. ASSUME NEW t \in Threads, Ensure(t) PROVE DataTypes'
  BY <1>4 DEF Ensure, At, Goto, ResetThen, waits, command, paho, printer, history
<1>5. ASSUME NEW t \in Threads, Reset(t) PROVE DataTypes'
  BY <1>5 DEF Reset, At, Goto, waits, command, paho, printer
<1>6. ASSUME NEW t \in Threads, Join(t) PROVE DataTypes'
  BY <1>6 DEF Join, At, Goto, LinkGone, waits, command, history
<1>7. ASSUME NEW t \in Threads, Make(t) PROVE DataTypes'
  BY <1>7 DEF Make, At, Goto, command, printer, history
<1>8. ASSUME NEW t \in Threads, WaitConnected(t) PROVE DataTypes'
  BY <1>8 DEF WaitConnected, At, Goto, waits, command, paho, printer, history
<1>9. ASSUME NEW t \in Threads, NotConnected(t) PROVE DataTypes'
  BY <1>9 DEF NotConnected, At, Return, ResetThen, LastAttempt, Goto, waits, command, paho, printer, history
<1>10. ASSUME NEW t \in Threads, OsError(t) PROVE DataTypes'
  BY <1>10 DEF OsError, At, ResetThen, LastAttempt, Goto, waits, command, paho, printer, history
<1>11. ASSUME NEW t \in Threads, NextAttempt(t) PROVE DataTypes'
  BY <1>11 DEF NextAttempt, At, Goto, waits, command, paho, printer, history
<1>12. ASSUME NEW t \in Threads, MarkIssued(t) PROVE DataTypes'
  BY <1>12 DEF MarkIssued, At, Goto, CanIssue, waits, paho, printer, history
<1>13. ASSUME NEW t \in Threads, PublishCommand(t) PROVE DataTypes'
  <2>1. cmd[t] \in Cmds
    BY <1>13 DEF CallInv, PublishCommand, At
  <2> QED
    BY <1>13, <2>1 DEF PublishCommand, At, Goto, Enqueue, waits, command, printer
<1>14. ASSUME NEW t \in Threads, WaitPublished(t) PROVE DataTypes'
  BY <1>14 DEF WaitPublished, At, Goto, Return, waits, command, paho, printer, history
<1>15. ASSUME NEW t \in Threads, CheckIssued(t) PROVE DataTypes'
  BY <1>15 DEF CheckIssued, At, Goto, Return, LastAttempt, waits, command, paho, printer, history
<1>16. ASSUME NEW t \in Threads, RequestStatus(t) PROVE DataTypes'
  BY <1>16 DEF RequestStatus, At, Goto, Return, Enqueue, Ready, waits, command, printer, history
<1>17. ASSUME NEW t \in Threads, ArmStatus(t) PROVE DataTypes'
  BY <1>17 DEF ArmStatus, At, Goto, Enqueue, command, printer, history
<1>18. ASSUME NEW t \in Threads, WaitStatus(t) PROVE DataTypes'
  BY <1>18 DEF WaitStatus, At, Goto, Return, LastAttempt, Ready, waits, command, paho, printer, history
<1>19. ASSUME NEW t \in Threads, RequestVersion(t) PROVE DataTypes'
  BY <1>19 DEF RequestVersion, At, Goto, Enqueue, waits, command, printer, history
<1>20. ASSUME NEW t \in Threads, WaitVersion(t) PROVE DataTypes'
  BY <1>20 DEF WaitVersion, At, Goto, Return, LastAttempt, waits, command, paho, printer, history
<1>21. ASSUME NEW t \in Threads, Final(t) PROVE DataTypes'
  BY <1>21 DEF Final, At, Goto, Return, waits, command, paho, printer, history
<1>22. ASSUME NEW t \in Threads, LastLook(t) PROVE DataTypes'
  BY <1>22 DEF LastLook, At, Return, Ready, Goto, waits, command, paho, printer, history
<1>23. ASSUME NEW t \in Threads, GiveUp(t) PROVE DataTypes'
  BY <1>23 DEF GiveUp, At, Return, Goto, waits, command, paho, printer, history
<1>24. ASSUME NEW t \in Threads, Release(t) PROVE DataTypes'
  BY <1>24 DEF Release, At, Goto, waits, paho, printer
<1>25. ASSUME OnConnectAccepted PROVE DataTypes'
  BY <1>25 DEF OnConnectAccepted, callers, waits, command, printer, history
<1>26. ASSUME OnConnectSubscribe PROVE DataTypes'
  BY <1>26 DEF OnConnectSubscribe, callers, waits, command, printer, history
<1>27. ASSUME OnConnectMark PROVE DataTypes'
  BY <1>27 DEF OnConnectMark, CanIssue, callers, waits, printer, history
<1>28. ASSUME OnConnectPublish PROVE DataTypes'
  <2>1. netCmd \in Cmds
    BY <1>28 DEF IssueInv, OnConnectPublish
  <2> QED
    BY <1>28, <2>1 DEF OnConnectPublish, Enqueue, callers, waits, command, printer
<1>29. ASSUME OnConnectDone PROVE DataTypes'
  BY <1>29 DEF OnConnectDone, callers, command, printer, history
<1>30. ASSUME OnConnectRefused PROVE DataTypes'
  BY <1>30 DEF OnConnectRefused, callers, command, printer, history
<1>31. ASSUME OnDisconnect PROVE DataTypes'
  BY <1>31 DEF OnDisconnect, LinkGone, callers, waits, command, history
<1>32. ASSUME OnMessageReport PROVE DataTypes'
  BY <1>32 DEF OnMessageReport, callers, command, paho, printer, history
<1>33. ASSUME OnMessageVersion PROVE DataTypes'
  BY <1>33 DEF OnMessageVersion, callers, command, paho, printer, history
<1>34. ASSUME TransmitRequest PROVE DataTypes'
  BY <1>34 DEF TransmitRequest, OnPublish, callers, waits, printer, history
<1>35. ASSUME TransmitCommand PROVE DataTypes'
  BY <1>35 DEF TransmitCommand, callers, waits, command, history
<1>36. ASSUME Execute PROVE DataTypes'
  BY <1>36 DEF Execute, callers, waits, command, history
<1>37. ASSUME ReceiveAck PROVE DataTypes'
  BY <1>37 DEF ReceiveAck, OnPublish, callers, waits, printer, history
<1>38. CASE UNCHANGED vars
  BY <1>38 DEF vars, callers, waits, command, paho, printer, history
<1> QED
  BY <1>1, <1>2, <1>3, <1>4, <1>5, <1>6, <1>7, <1>8, <1>9, <1>10, <1>11, <1>12,
     <1>13, <1>14, <1>15, <1>16, <1>17, <1>18, <1>19, <1>20, <1>21, <1>22, <1>23,
     <1>24, <1>25, <1>26, <1>27, <1>28, <1>29, <1>30, <1>31, <1>32, <1>33, <1>34,
     <1>35, <1>36, <1>37, <1>38
  DEF Next, Caller, Inner, Network, Callback

----------------------------------------------------------------------------
(* What most steps have in common. *)

\* A step inside an operation moves its thread to another point inside it, and
\* touches nothing that decides who publishes.
InnerEffect(t) ==
  /\ Inside(t) /\ pc[t] # "pub"
  /\ \E l \in CallerPCs \ {"idle", "lock", "pub"} : pc' = [pc EXCEPT ![t] = l]
  /\ UNCHANGED <<op, cmd, opLock, fresh, pending, issued, published, netpc, netCmd>>

\* The steps of an operation that neither issue nor publish (ensure_connected,
\* _reset_client, the waits, the returns) move one program counter and leave the
\* once-flag, the queued payload and what was published alone.
LEMMA InnerStep ==
  ASSUME DataTypes, NEW t \in Threads, Inner(t)
  PROVE  InnerEffect(t)
<1> USE DEF InnerEffect, Inside, DataTypes, CallerPCs, Returns
<1>1. CASE Begin(t)
  BY <1>1 DEF Begin, At, Goto, paho, printer, history
<1>2. CASE Ensure(t)
  BY <1>2 DEF Ensure, At, Goto, ResetThen, waits, command, paho, printer, history
<1>3. CASE Reset(t)
  BY <1>3 DEF Reset, At, Goto, waits, command, paho, printer
<1>4. CASE Join(t)
  BY <1>4 DEF Join, At, Goto, LinkGone, waits, command, history
<1>5. CASE Make(t)
  BY <1>5 DEF Make, At, Goto, command, printer, history
<1>6. CASE WaitConnected(t)
  BY <1>6 DEF WaitConnected, At, Goto, waits, command, paho, printer, history
<1>7. CASE NotConnected(t)
  BY <1>7 DEF NotConnected, At, Return, ResetThen, LastAttempt, Goto, waits, command, paho, printer, history
<1>8. CASE OsError(t)
  BY <1>8 DEF OsError, At, ResetThen, LastAttempt, Goto, waits, command, paho, printer, history
<1>9. CASE NextAttempt(t)
  BY <1>9 DEF NextAttempt, At, Goto, waits, command, paho, printer, history
<1>10. CASE WaitPublished(t)
  BY <1>10 DEF WaitPublished, At, Goto, Return, waits, command, paho, printer, history
<1>11. CASE CheckIssued(t)
  BY <1>11 DEF CheckIssued, At, Goto, Return, LastAttempt, waits, command, paho, printer, history
<1>12. CASE RequestStatus(t)
  BY <1>12 DEF RequestStatus, At, Goto, Return, Enqueue, Ready, waits, command, printer, history
<1>13. CASE ArmStatus(t)
  BY <1>13 DEF ArmStatus, At, Goto, Enqueue, command, printer, history
<1>14. CASE WaitStatus(t)
  BY <1>14 DEF WaitStatus, At, Goto, Return, LastAttempt, Ready, waits, command, paho, printer, history
<1>15. CASE RequestVersion(t)
  BY <1>15 DEF RequestVersion, At, Goto, Enqueue, waits, command, printer, history
<1>16. CASE WaitVersion(t)
  BY <1>16 DEF WaitVersion, At, Goto, Return, LastAttempt, waits, command, paho, printer, history
<1>17. CASE Final(t)
  BY <1>17 DEF Final, At, Goto, Return, waits, command, paho, printer, history
<1>18. CASE LastLook(t)
  BY <1>18 DEF LastLook, At, Return, Ready, Goto, waits, command, paho, printer, history
<1>19. CASE GiveUp(t)
  BY <1>19 DEF GiveUp, At, Return, Goto, waits, command, paho, printer, history
<1> QED
  BY <1>1, <1>2, <1>3, <1>4, <1>5, <1>6, <1>7, <1>8, <1>9, <1>10, <1>11, <1>12,
     <1>13, <1>14, <1>15, <1>16, <1>17, <1>18, <1>19
  DEF Inner

\* So does the network thread, but for the two steps of _issue_pending.
NetworkEffect ==
  /\ UNCHANGED <<pc, op, cmd, opLock, fresh, pending, issued, published>>
  /\ netpc' = "pub" <=> netpc = "pub"
  /\ netpc = "pub" => netCmd' = netCmd

\* The network thread's callbacks other than the publish of _on_connect leave the
\* callers, the queued payload and what was published alone.
LEMMA NetworkStep ==
  ASSUME Network \/ UNCHANGED vars, ~OnConnectMark, ~OnConnectPublish
  PROVE  NetworkEffect
<1> USE DEF NetworkEffect
<1>1. CASE OnConnectAccepted
  BY <1>1 DEF OnConnectAccepted, callers, command, paho, history
<1>2. CASE OnConnectSubscribe
  BY <1>2 DEF OnConnectSubscribe, callers, command, paho, history
<1>3. CASE OnConnectDone
  BY <1>3 DEF OnConnectDone, callers, command, paho, history
<1>4. CASE OnConnectRefused
  BY <1>4 DEF OnConnectRefused, callers, command, paho, history
<1>5. CASE OnDisconnect
  BY <1>5 DEF OnDisconnect, LinkGone, callers, command, paho, history
<1>6. CASE OnMessageReport
  BY <1>6 DEF OnMessageReport, callers, command, paho, history
<1>7. CASE OnMessageVersion
  BY <1>7 DEF OnMessageVersion, callers, command, paho, history
<1>8. CASE TransmitRequest
  BY <1>8 DEF TransmitRequest, OnPublish, callers, command, paho, history
<1>9. CASE TransmitCommand
  BY <1>9 DEF TransmitCommand, callers, command, paho, history
<1>10. CASE Execute
  BY <1>10 DEF Execute, callers, command, paho, history
<1>11. CASE ReceiveAck
  BY <1>11 DEF ReceiveAck, OnPublish, callers, command, paho, history
<1>12. CASE UNCHANGED vars
  BY <1>12 DEF vars, callers, command, paho, history
<1> QED
  BY <1>1, <1>2, <1>3, <1>4, <1>5, <1>6, <1>7, <1>8, <1>9, <1>10, <1>11, <1>12
  DEF Network, Callback

----------------------------------------------------------------------------
(* The once-flag. *)

\* _issue_pending's test-and-set under _state_lock, run by the caller and by
\* _on_connect, lets only one of them publish, once per command.
LEMMA CoreStep ==
  ASSUME DataTypes, LockInv, CallInv, PendingInv, IssueInv, [Next]_vars
  PROVE  LockInv' /\ CallInv' /\ PendingInv' /\ IssueInv'
<1> USE ConstantsAssumption DEF ConstantsAssumption, DataTypes
<1>1. ASSUME NEW t \in Threads, Call(t) PROVE LockInv' /\ CallInv' /\ PendingInv' /\ IssueInv'
  <2>1. LockInv'
    BY <1>1 DEF LockInv, Inside, Call, At, Goto, command, paho
  <2>2. CallInv'
    BY <1>1 DEF CallInv, LockInv, Inside, Call, At, Goto, command, paho
  <2>3. PendingInv'
    BY <1>1 DEF PendingInv, CallInv, LockInv, Inside, Call, At, Goto, command, paho
  <2>4. IssueInv'
    BY <1>1 DEF IssueInv, CallerPublishing, NetPublishing, Unissued, PendingInv, CallInv, LockInv,
       Inside, Call, At, Goto, command, paho
  <2> QED
    BY <2>1, <2>2, <2>3, <2>4
<1>2. ASSUME NEW t \in Threads, Acquire(t) PROVE LockInv' /\ CallInv' /\ PendingInv' /\ IssueInv'
  <2>1. LockInv'
    BY <1>2 DEF LockInv, Inside, Acquire, At, Goto, ResetThen, paho
  <2>2. CallInv'
    BY <1>2 DEF CallInv, LockInv, Inside, Acquire, At, Goto, ResetThen, paho
  <2>3. PendingInv'
    BY <1>2 DEF PendingInv, CallInv, LockInv, Inside, Acquire, At, Goto, ResetThen, paho
  <2>4. IssueInv'
    BY <1>2 DEF IssueInv, CallerPublishing, NetPublishing, Unissued, PendingInv, CallInv, LockInv,
       Inside, Acquire, At, Goto, ResetThen, paho
  <2> QED
    BY <2>1, <2>2, <2>3, <2>4
<1>3. ASSUME NEW t \in Threads, MarkIssued(t) PROVE LockInv' /\ CallInv' /\ PendingInv' /\ IssueInv'
  <2>1. LockInv'
    BY <1>3 DEF LockInv, Inside, MarkIssued, At, Goto, CanIssue, paho, history
  <2>2. CallInv'
    BY <1>3 DEF CallInv, LockInv, Inside, MarkIssued, At, Goto, CanIssue, paho, history
  <2>3. PendingInv'
    BY <1>3 DEF PendingInv, CallInv, LockInv, Inside, MarkIssued, At, Goto, CanIssue, paho, history
  <2>4. IssueInv'
    BY <1>3 DEF IssueInv, CallerPublishing, NetPublishing, Unissued, PendingInv, CallInv, LockInv,
       Inside, MarkIssued, At, Goto, CanIssue, paho, history
  <2> QED
    BY <2>1, <2>2, <2>3, <2>4
<1>4. ASSUME NEW t \in Threads, PublishCommand(t) PROVE LockInv' /\ CallInv' /\ PendingInv' /\ IssueInv'
  <2>1. LockInv'
    BY <1>4 DEF LockInv, Inside, PublishCommand, At, Goto, Enqueue, command
  <2>2. CallInv'
    BY <1>4 DEF CallInv, LockInv, Inside, PublishCommand, At, Goto, Enqueue, command
  <2>3. PendingInv'
    BY <1>4 DEF PendingInv, CallInv, LockInv, Inside, PublishCommand, At, Goto, Enqueue, command
  <2>4. IssueInv'
    BY <1>4 DEF IssueInv, CallerPublishing, NetPublishing, Unissued, PendingInv, CallInv, LockInv,
       Inside, PublishCommand, At, Goto, Enqueue, command
  <2> QED
    BY <2>1, <2>2, <2>3, <2>4
<1>5. ASSUME NEW t \in Threads, InnerEffect(t) PROVE LockInv' /\ CallInv' /\ PendingInv' /\ IssueInv'
  <2>1. LockInv'
    BY <1>5 DEF LockInv, Inside, InnerEffect, CallerPCs
  <2>2. CallInv'
    BY <1>5 DEF CallInv, LockInv, Inside, InnerEffect, CallerPCs
  <2>3. PendingInv'
    BY <1>5 DEF PendingInv, CallInv, LockInv, Inside, InnerEffect, CallerPCs
  <2>4. IssueInv'
    BY <1>5 DEF IssueInv, CallerPublishing, NetPublishing, Unissued, PendingInv, CallInv, LockInv,
       Inside, InnerEffect, CallerPCs
  <2> QED
    BY <2>1, <2>2, <2>3, <2>4
<1>6. ASSUME NEW t \in Threads, Release(t) PROVE LockInv' /\ CallInv' /\ PendingInv' /\ IssueInv'
  <2>1. LockInv'
    BY <1>6 DEF LockInv, Inside, Release, At, Goto, paho
  <2>2. CallInv'
    BY <1>6 DEF CallInv, LockInv, Inside, Release, At, Goto, paho
  <2>3. PendingInv'
    BY <1>6 DEF PendingInv, CallInv, LockInv, Inside, Release, At, Goto, paho
  <2>4. IssueInv'
    BY <1>6 DEF IssueInv, CallerPublishing, NetPublishing, Unissued, PendingInv, CallInv, LockInv,
       Inside, Release, At, Goto, paho
  <2> QED
    BY <2>1, <2>2, <2>3, <2>4
<1>7. ASSUME OnConnectMark PROVE LockInv' /\ CallInv' /\ PendingInv' /\ IssueInv'
  <2>1. LockInv'
    BY <1>7 DEF LockInv, Inside, OnConnectMark, CanIssue, callers, history
  <2>2. CallInv'
    BY <1>7 DEF CallInv, LockInv, Inside, OnConnectMark, CanIssue, callers, history
  <2>3. PendingInv'
    BY <1>7 DEF PendingInv, CallInv, LockInv, Inside, OnConnectMark, CanIssue, callers, history
  <2>4. IssueInv'
    BY <1>7 DEF IssueInv, CallerPublishing, NetPublishing, Unissued, PendingInv, CallInv, LockInv,
       Inside, OnConnectMark, CanIssue, callers, history
  <2> QED
    BY <2>1, <2>2, <2>3, <2>4
<1>8. ASSUME OnConnectPublish PROVE LockInv' /\ CallInv' /\ PendingInv' /\ IssueInv'
  <2>1. LockInv'
    BY <1>8 DEF LockInv, Inside, OnConnectPublish, Enqueue, callers, command
  <2>2. CallInv'
    BY <1>8 DEF CallInv, LockInv, Inside, OnConnectPublish, Enqueue, callers, command
  <2>3. PendingInv'
    BY <1>8 DEF PendingInv, CallInv, LockInv, Inside, OnConnectPublish, Enqueue, callers, command
  <2>4. IssueInv'
    BY <1>8 DEF IssueInv, CallerPublishing, NetPublishing, Unissued, PendingInv, CallInv, LockInv,
       Inside, OnConnectPublish, Enqueue, callers, command
  <2> QED
    BY <2>1, <2>2, <2>3, <2>4
<1>9. ASSUME NetworkEffect PROVE LockInv' /\ CallInv' /\ PendingInv' /\ IssueInv'
  <2>1. LockInv'
    BY <1>9 DEF LockInv, Inside, NetworkEffect
  <2>2. CallInv'
    BY <1>9 DEF CallInv, LockInv, Inside, NetworkEffect
  <2>3. PendingInv'
    BY <1>9 DEF PendingInv, CallInv, LockInv, Inside, NetworkEffect
  <2>4. IssueInv'
    BY <1>9 DEF IssueInv, CallerPublishing, NetPublishing, Unissued, PendingInv, CallInv, LockInv,
       Inside, NetworkEffect
  <2> QED
    BY <2>1, <2>2, <2>3, <2>4
<1> QED
  BY <1>1, <1>2, <1>3, <1>4, <1>5, <1>6, <1>7, <1>8, <1>9, InnerStep, NetworkStep
  DEF Next, Caller

----------------------------------------------------------------------------
(* Copies of a command. *)

\* A published command exists in one place at a time: queued in the client, on the
\* wire, or executed; dropping a connection never multiplies it.
LEMMA CopiesStep ==
  ASSUME DataTypes, CallInv, IssueInv, CopiesInv, [Next]_vars
  PROVE  CopiesInv'
<1> USE ConstantsAssumption DEF ConstantsAssumption, DataTypes, Requests
<1> DEFINE Still == UNCHANGED <<executed, published, outq, wire, orphans>>
<1>0. ASSUME Still PROVE CopiesInv'
  BY <1>0 DEF CopiesInv, Copies
<1>1. ASSUME NEW t \in Threads, Call(t) PROVE Still
  BY <1>1 DEF Call, paho, printer
<1>2. ASSUME NEW t \in Threads, Acquire(t) PROVE Still
  BY <1>2 DEF Acquire, paho, printer
<1>3. ASSUME NEW t \in Threads, Begin(t) PROVE Still
  BY <1>3 DEF Begin, paho, printer, history
<1>4. ASSUME NEW t \in Threads, Ensure(t) PROVE Still
  BY <1>4 DEF Ensure, paho, printer, history
<1>5. ASSUME NEW t \in Threads, Reset(t) PROVE Still
  BY <1>5 DEF Reset, paho, printer
<1>6. ASSUME NEW t \in Threads, Make(t) PROVE Still
  BY <1>6 DEF Make, printer, history
<1>7. ASSUME NEW t \in Threads, WaitConnected(t) PROVE Still
  BY <1>7 DEF WaitConnected, paho, printer, history
<1>8. ASSUME NEW t \in Threads, NotConnected(t) PROVE Still
  BY <1>8 DEF NotConnected, paho, printer, history
<1>9. ASSUME NEW t \in Threads, OsError(t) PROVE Still
  BY <1>9 DEF OsError, paho, printer, history
<1>10. ASSUME NEW t \in Threads, NextAttempt(t) PROVE Still
  BY <1>10 DEF NextAttempt, paho, printer, history
<1>11. ASSUME NEW t \in Threads, MarkIssued(t) PROVE Still
  BY <1>11 DEF MarkIssued, paho, printer, history
<1>12. ASSUME NEW t \in Threads, WaitPublished(t) PROVE Still
  BY <1>12 DEF WaitPublished, paho, printer, history
<1>13. ASSUME NEW t \in Threads, CheckIssued(t) PROVE Still
  BY <1>13 DEF CheckIssued, paho, printer, history
<1>14. ASSUME NEW t \in Threads, WaitStatus(t) PROVE Still
  BY <1>14 DEF WaitStatus, paho, printer, history
<1>15. ASSUME NEW t \in Threads, WaitVersion(t) PROVE Still
  BY <1>15 DEF WaitVersion, paho, printer, history
<1>16. ASSUME NEW t \in Threads, Final(t) PROVE Still
  BY <1>16 DEF Final, paho, printer, history
<1>17. ASSUME NEW t \in Threads, LastLook(t) PROVE Still
  BY <1>17 DEF LastLook, paho, printer, history
<1>18. ASSUME NEW t \in Threads, GiveUp(t) PROVE Still
  BY <1>18 DEF GiveUp, paho, printer, history
<1>19. ASSUME NEW t \in Threads, Release(t) PROVE Still
  BY <1>19 DEF Release, paho, printer
<1>20. ASSUME OnConnectAccepted PROVE Still
  BY <1>20 DEF OnConnectAccepted, printer, history
<1>21. ASSUME OnConnectSubscribe PROVE Still
  BY <1>21 DEF OnConnectSubscribe, printer, history
<1>22. ASSUME OnConnectMark PROVE Still
  BY <1>22 DEF OnConnectMark, printer, history
<1>23. ASSUME OnConnectDone PROVE Still
  BY <1>23 DEF OnConnectDone, printer, history
<1>24. ASSUME OnConnectRefused PROVE Still
  BY <1>24 DEF OnConnectRefused, printer, history
<1>25. ASSUME OnMessageReport PROVE Still
  BY <1>25 DEF OnMessageReport, paho, printer, history
<1>26. ASSUME OnMessageVersion PROVE Still
  BY <1>26 DEF OnMessageVersion, paho, printer, history
<1>27. ASSUME ReceiveAck PROVE Still
  BY <1>27 DEF ReceiveAck, printer, history
<1>28. ASSUME NEW t \in Threads, Join(t) PROVE CopiesInv'
  BY <1>28 DEF CopiesInv, Copies, Join, At, Goto, LinkGone, history
<1>29. ASSUME NEW t \in Threads, PublishCommand(t) PROVE CopiesInv'
  BY <1>29 DEF CopiesInv, Copies, CallInv, PublishCommand, At, Goto, Enqueue, printer
<1>30. ASSUME NEW t \in Threads, RequestStatus(t) PROVE CopiesInv'
  BY <1>30 DEF CopiesInv, Copies, RequestStatus, At, Goto, Return, Enqueue, printer, history
<1>31. ASSUME NEW t \in Threads, ArmStatus(t) PROVE CopiesInv'
  BY <1>31 DEF CopiesInv, Copies, ArmStatus, At, Goto, Enqueue, printer, history
<1>32. ASSUME NEW t \in Threads, RequestVersion(t) PROVE CopiesInv'
  BY <1>32 DEF CopiesInv, Copies, RequestVersion, At, Goto, Enqueue, printer, history
<1>33. ASSUME OnConnectPublish PROVE CopiesInv'
  BY <1>33 DEF CopiesInv, Copies, IssueInv, OnConnectPublish, Enqueue, printer
<1>34. ASSUME OnDisconnect PROVE CopiesInv'
  BY <1>34 DEF CopiesInv, Copies, OnDisconnect, LinkGone, history
<1>35. ASSUME TransmitRequest PROVE CopiesInv'
  BY <1>35 DEF CopiesInv, Copies, TransmitRequest, printer, history
<1>36. ASSUME TransmitCommand PROVE CopiesInv'
  BY <1>36 DEF CopiesInv, Copies, TransmitCommand, history
<1>37. ASSUME Execute PROVE CopiesInv'
  BY <1>37 DEF CopiesInv, Copies, Execute, history
<1>38. CASE UNCHANGED vars
  BY <1>0, <1>38 DEF vars, paho, printer, history
<1> QED
  BY <1>0, <1>1, <1>2, <1>3, <1>4, <1>5, <1>6, <1>7, <1>8, <1>9, <1>10, <1>11, <1>12, <1>13, <1>14,
     <1>15, <1>16, <1>17, <1>18, <1>19, <1>20, <1>21, <1>22, <1>23, <1>24, <1>25, <1>26, <1>27,
     <1>28, <1>29, <1>30, <1>31, <1>32, <1>33, <1>34, <1>35, <1>36, <1>37, <1>38 DEF Next, Caller,
     Inner, Network, Callback

----------------------------------------------------------------------------
(* The connection, the results and the snapshots. *)

\* The network thread is between callbacks, and no CONNACK can still arrive:
\* nothing more will be issued before a caller connects again.
Quiet == netpc = "idle" /\ link # "connecting"

\* The thread's last send_command was given a definite answer.
Told(t) == ret[t] \in {"true", "false"}

\* A callback runs on an established link only; without a client everything is
\* quiet once its thread has been joined; a caller at one of these points has
\* the connection in the shape the code before it left.
LinkOf(t) ==
  /\ pc[t] \in {"make", "oserror"} => Quiet
  /\ pc[t] = "waitconn" => client /\ (connectedEvt => Quiet)
  /\ pc[t] = "connected" => client /\ (live \/ Quiet)
LinkInv ==
  /\ netpc # "idle" => link = "up"
  /\ ~client => Quiet \/ \E t \in Threads : pc[t] = "join"
  /\ \A t \in Threads : LinkOf(t)

\* What send_command learns at each point: a publish event, or an attempt that
\* issued nothing, leaves the connection quiet, so nothing can be issued behind
\* a definite answer.
SendOf(t) ==
  /\ pc[t] \in {"pub", "waitpub", "check"} => op[t] = "send"
  /\ pc[t] = "waitver" => op[t] = "version"
  /\ pc[t] \in {"reset", "join"} /\ cont = "check" => op[t] = "send"
  /\ pc[t] \in {"ensure", "connected", "pub", "waitpub", "check"}
       /\ op[t] = "send" /\ publishEvt => Quiet
  /\ pc[t] \in {"waitpub", "check"} => issued \/ Quiet
  /\ pc[t] = "fail" /\ op[t] = "send" => Quiet
  /\ pc[t] = "ret" /\ Told(t) => op[t] = "send" /\ Quiet
  /\ pc[t] = "idle" /\ Told(t) =>
       op[t] = "send" /\ ~(netpc = "pub" /\ netCmd = cmd[t])
SendInv == \A t \in Threads : SendOf(t)

\* State merged on a link that was already down when the call took the lock is
\* gone once the call has connected.
DeadOf(t) == Inside(t) /\ deadData => pc[t] \in {"begin", "ensure", "reset"}
DeadInv ==
  /\ link = "down" => ~live
  /\ deadData => link = "down"
  /\ \A t \in Threads : DeadOf(t)

\* Every step keeps the connection in the shape the callers rely on.
LEMMA LinkStep ==
  ASSUME DataTypes, LockInv, LinkInv, SendInv, [Next]_vars
  PROVE  LinkInv'
<1> USE DEF DataTypes, LockInv, Inside, LinkInv, LinkOf, Quiet, CallerPCs, Returns
<1>1. ASSUME NEW t \in Threads, Call(t) PROVE LinkInv'
  BY <1>1 DEF Call, At, Goto, waits, command, paho, printer
<1>2. ASSUME NEW t \in Threads, Acquire(t) PROVE LinkInv'
  BY <1>2 DEF Acquire, At, Goto, ResetThen, waits, paho, printer
<1>3. ASSUME NEW t \in Threads, Begin(t) PROVE LinkInv'
  BY <1>3 DEF Begin, At, Goto, paho, printer, history
<1>4. ASSUME NEW t \in Threads, Ensure(t) PROVE LinkInv'
  BY <1>4 DEF Ensure, At, Goto, ResetThen, waits, command, paho, printer, history
<1>5. ASSUME NEW t \in Threads, Reset(t) PROVE LinkInv'
  BY <1>5 DEF Reset, At, Goto, waits, command, paho, printer
<1>6. ASSUME NEW t \in Threads, Join(t) PROVE LinkInv'
  BY <1>6 DEF Join, At, Goto, LinkGone, waits, command, history
<1>7. ASSUME NEW t \in Threads, Make(t) PROVE LinkInv'
  BY <1>7 DEF Make, At, Goto, command, printer, history
<1>8. ASSUME NEW t \in Threads, WaitConnected(t) PROVE LinkInv'
  BY <1>8 DEF WaitConnected, At, Goto, waits, command, paho, printer, history
<1>9. ASSUME NEW t \in Threads, NotConnected(t) PROVE LinkInv'
  BY <1>9 DEF NotConnected, At, Return, ResetThen, LastAttempt, Goto, waits, command, paho, printer, history
<1>10. ASSUME NEW t \in Threads, OsError(t) PROVE LinkInv'
  BY <1>10 DEF OsError, At, ResetThen, LastAttempt, Goto, waits, command, paho, printer, history
<1>11. ASSUME NEW t \in Threads, NextAttempt(t) PROVE LinkInv'
  BY <1>11 DEF NextAttempt, At, Goto, waits, command, paho, printer, history
<1>12. ASSUME NEW t \in Threads, MarkIssued(t) PROVE LinkInv'
  BY <1>12 DEF MarkIssued, At, Goto, CanIssue, waits, paho, printer, history
<1>13. ASSUME NEW t \in Threads, PublishCommand(t) PROVE LinkInv'
  BY <1>13 DEF PublishCommand, At, Goto, Enqueue, waits, command, printer
<1>14. ASSUME NEW t \in Threads, WaitPublished(t) PROVE LinkInv'
  BY <1>14 DEF WaitPublished, At, Goto, Return, waits, command, paho, printer, history
<1>15. ASSUME NEW t \in Threads, CheckIssued(t) PROVE LinkInv'
  BY <1>15 DEF CheckIssued, At, Goto, Return, LastAttempt, waits, command, paho, printer, history
<1>16. ASSUME NEW t \in Threads, RequestStatus(t) PROVE LinkInv'
  BY <1>16 DEF RequestStatus, At, Goto, Return, Enqueue, Ready, waits, command, printer, history
<1>17. ASSUME NEW t \in Threads, ArmStatus(t) PROVE LinkInv'
  BY <1>17 DEF ArmStatus, At, Goto, Enqueue, command, printer, history
<1>18. ASSUME NEW t \in Threads, WaitStatus(t) PROVE LinkInv'
  BY <1>18 DEF WaitStatus, At, Goto, Return, LastAttempt, Ready, waits, command, paho, printer, history
<1>19. ASSUME NEW t \in Threads, RequestVersion(t) PROVE LinkInv'
  BY <1>19 DEF RequestVersion, At, Goto, Enqueue, waits, command, printer, history
<1>20. ASSUME NEW t \in Threads, WaitVersion(t) PROVE LinkInv'
  BY <1>20 DEF WaitVersion, At, Goto, Return, LastAttempt, waits, command, paho, printer, history
<1>21. ASSUME NEW t \in Threads, Final(t) PROVE LinkInv'
  BY <1>21 DEF Final, At, Goto, Return, waits, command, paho, printer, history
<1>22. ASSUME NEW t \in Threads, LastLook(t) PROVE LinkInv'
  BY <1>22 DEF LastLook, At, Return, Ready, Goto, waits, command, paho, printer, history
<1>23. ASSUME NEW t \in Threads, GiveUp(t) PROVE LinkInv'
  BY <1>23 DEF GiveUp, At, Return, Goto, waits, command, paho, printer, history
<1>24. ASSUME NEW t \in Threads, Release(t) PROVE LinkInv'
  BY <1>24 DEF Release, At, Goto, waits, paho, printer
<1>25. ASSUME OnConnectAccepted PROVE LinkInv'
  BY <1>25 DEF OnConnectAccepted, callers, waits, command, printer, history
<1>26. ASSUME OnConnectSubscribe PROVE LinkInv'
  BY <1>26 DEF OnConnectSubscribe, callers, waits, command, printer, history
<1>27. ASSUME OnConnectMark PROVE LinkInv'
  BY <1>27 DEF OnConnectMark, CanIssue, callers, waits, printer, history
<1>28. ASSUME OnConnectPublish PROVE LinkInv'
  BY <1>28 DEF OnConnectPublish, Enqueue, callers, waits, command, printer
<1>29. ASSUME OnConnectDone PROVE LinkInv'
  BY <1>29 DEF OnConnectDone, callers, command, printer, history
<1>30. ASSUME OnConnectRefused PROVE LinkInv'
  BY <1>30 DEF OnConnectRefused, callers, command, printer, history
<1>31. ASSUME OnDisconnect PROVE LinkInv'
  BY <1>31 DEF OnDisconnect, LinkGone, callers, waits, command, history
<1>32. ASSUME OnMessageReport PROVE LinkInv'
  BY <1>32 DEF OnMessageReport, callers, command, paho, printer, history
<1>33. ASSUME OnMessageVersion PROVE LinkInv'
  BY <1>33 DEF OnMessageVersion, callers, command, paho, printer, history
<1>34. ASSUME TransmitRequest PROVE LinkInv'
  BY <1>34 DEF TransmitRequest, OnPublish, callers, waits, printer, history
<1>35. ASSUME TransmitCommand PROVE LinkInv'
  BY <1>35 DEF TransmitCommand, callers, waits, command, history
<1>36. ASSUME Execute PROVE LinkInv'
  BY <1>36 DEF Execute, callers, waits, command, history
<1>37. ASSUME ReceiveAck PROVE LinkInv'
  BY <1>37 DEF ReceiveAck, OnPublish, callers, waits, printer, history
<1>38. CASE UNCHANGED vars
  BY <1>38 DEF vars, callers, waits, command, paho, printer, history
<1> QED
  BY <1>1, <1>2, <1>3, <1>4, <1>5, <1>6, <1>7, <1>8, <1>9, <1>10, <1>11, <1>12, <1>13,
     <1>14, <1>15, <1>16, <1>17, <1>18, <1>19, <1>20, <1>21, <1>22, <1>23, <1>24, <1>25,
     <1>26, <1>27, <1>28, <1>29, <1>30, <1>31, <1>32, <1>33, <1>34, <1>35, <1>36, <1>37,
     <1>38
  DEF Next, Caller, Inner, Network, Callback

\* Every step keeps what a waiting, an answered and an idle send_command rely on.
LEMMA SendStep ==
  ASSUME DataTypes, LockInv, CallInv, PendingInv, LinkInv, SendInv, [Next]_vars
  PROVE  SendInv'
<1> SUFFICES ASSUME NEW u \in Threads PROVE SendOf(u)'
  BY DEF SendInv
<1> USE ConstantsAssumption
    DEF ConstantsAssumption, DataTypes, LockInv, Inside, SendInv, SendOf, Told, Quiet, CallerPCs, Returns
<1>1. ASSUME NEW t \in Threads, Call(t) PROVE SendOf(u)'
  BY <1>1 DEF Call, At, Goto, waits, command, paho, printer
<1>2. ASSUME NEW t \in Threads, Acquire(t) PROVE SendOf(u)'
  BY <1>2 DEF Acquire, At, Goto, ResetThen, waits, paho, printer
<1>3. ASSUME NEW t \in Threads, Begin(t) PROVE SendOf(u)'
  BY <1>3 DEF Begin, At, Goto, paho, printer, history
<1>4. ASSUME NEW t \in Threads, Ensure(t) PROVE SendOf(u)'
  BY <1>4 DEF Ensure, At, Goto, ResetThen, waits, command, paho, printer, history
<1>5. ASSUME NEW t \in Threads, Reset(t) PROVE SendOf(u)'
  BY <1>5 DEF LinkInv, LinkOf, Reset, At, Goto, waits, command, paho, printer
<1>6. ASSUME NEW t \in Threads, Join(t) PROVE SendOf(u)'
  BY <1>6 DEF LinkInv, LinkOf, Join, At, Goto, LinkGone, waits, command, history
<1>7. ASSUME NEW t \in Threads, Make(t) PROVE SendOf(u)'
  BY <1>7 DEF Make, At, Goto, command, printer, history
<1>8. ASSUME NEW t \in Threads, WaitConnected(t) PROVE SendOf(u)'
  BY <1>8 DEF LinkInv, LinkOf, WaitConnected, At, Goto, waits, command, paho, printer, history
<1>9. ASSUME NEW t \in Threads, NotConnected(t) PROVE SendOf(u)'
  BY <1>9 DEF NotConnected, At, Return, ResetThen, LastAttempt, Goto, waits, command, paho, printer, history
<1>10. ASSUME NEW t \in Threads, OsError(t) PROVE SendOf(u)'
  BY <1>10 DEF OsError, At, ResetThen, LastAttempt, Goto, waits, command, paho, printer, history
<1>11. ASSUME NEW t \in Threads, NextAttempt(t) PROVE SendOf(u)'
  BY <1>11 DEF NextAttempt, At, Goto, waits, command, paho, printer, history
<1>12. ASSUME NEW t \in Threads, MarkIssued(t) PROVE SendOf(u)'
  BY <1>12 DEF LinkInv, LinkOf, CallInv, PendingInv, MarkIssued, At, Goto, CanIssue, waits, paho,
     printer, history
<1>13. ASSUME NEW t \in Threads, PublishCommand(t) PROVE SendOf(u)'
  BY <1>13 DEF CallInv, PublishCommand, At, Goto, Enqueue, waits, command, printer
<1>14. ASSUME NEW t \in Threads, WaitPublished(t) PROVE SendOf(u)'
  BY <1>14 DEF WaitPublished, At, Goto, Return, waits, command, paho, printer, history
<1>15. ASSUME NEW t \in Threads, CheckIssued(t) PROVE SendOf(u)'
  BY <1>15 DEF CheckIssued, At, Goto, Return, LastAttempt, waits, command, paho, printer, history
<1>16. ASSUME NEW t \in Threads, RequestStatus(t) PROVE SendOf(u)'
  BY <1>16 DEF RequestStatus, At, Goto, Return, Enqueue, Ready, waits, command, printer, history
<1>17. ASSUME NEW t \in Threads, ArmStatus(t) PROVE SendOf(u)'
  BY <1>17 DEF ArmStatus, At, Goto, Enqueue, command, printer, history
<1>18. ASSUME NEW t \in Threads, WaitStatus(t) PROVE SendOf(u)'
  BY <1>18 DEF WaitStatus, At, Goto, Return, LastAttempt, Ready, waits, command, paho, printer, history
<1>19. ASSUME NEW t \in Threads, RequestVersion(t) PROVE SendOf(u)'
  BY <1>19 DEF RequestVersion, At, Goto, Enqueue, waits, command, printer, history
<1>20. ASSUME NEW t \in Threads, WaitVersion(t) PROVE SendOf(u)'
  BY <1>20 DEF WaitVersion, At, Goto, Return, LastAttempt, waits, command, paho, printer, history
<1>21. ASSUME NEW t \in Threads, Final(t) PROVE SendOf(u)'
  BY <1>21 DEF Final, At, Goto, Return, waits, command, paho, printer, history
<1>22. ASSUME NEW t \in Threads, LastLook(t) PROVE SendOf(u)'
  BY <1>22 DEF LastLook, At, Return, Ready, Goto, waits, command, paho, printer, history
<1>23. ASSUME NEW t \in Threads, GiveUp(t) PROVE SendOf(u)'
  BY <1>23 DEF GiveUp, At, Return, Goto, waits, command, paho, printer, history
<1>24. ASSUME NEW t \in Threads, Release(t) PROVE SendOf(u)'
  BY <1>24 DEF Release, At, Goto, waits, paho, printer
<1>25. ASSUME OnConnectAccepted PROVE SendOf(u)'
  BY <1>25 DEF OnConnectAccepted, callers, waits, command, printer, history
<1>26. ASSUME OnConnectSubscribe PROVE SendOf(u)'
  BY <1>26 DEF OnConnectSubscribe, callers, waits, command, printer, history
<1>27. ASSUME OnConnectMark PROVE SendOf(u)'
  BY <1>27 DEF CallInv, PendingInv, OnConnectMark, CanIssue, callers, waits, printer, history
<1>28. ASSUME OnConnectPublish PROVE SendOf(u)'
  BY <1>28 DEF OnConnectPublish, Enqueue, callers, waits, command, printer
<1>29. ASSUME OnConnectDone PROVE SendOf(u)'
  BY <1>29 DEF OnConnectDone, callers, command, printer, history
<1>30. ASSUME OnConnectRefused PROVE SendOf(u)'
  BY <1>30 DEF OnConnectRefused, callers, command, printer, history
<1>31. ASSUME OnDisconnect PROVE SendOf(u)'
  BY <1>31 DEF OnDisconnect, LinkGone, callers, waits, command, history
<1>32. ASSUME OnMessageReport PROVE SendOf(u)'
  BY <1>32 DEF OnMessageReport, callers, command, paho, printer, history
<1>33. ASSUME OnMessageVersion PROVE SendOf(u)'
  BY <1>33 DEF OnMessageVersion, callers, command, paho, printer, history
<1>34. ASSUME TransmitRequest PROVE SendOf(u)'
  BY <1>34 DEF TransmitRequest, OnPublish, callers, waits, printer, history
<1>35. ASSUME TransmitCommand PROVE SendOf(u)'
  BY <1>35 DEF TransmitCommand, callers, waits, command, history
<1>36. ASSUME Execute PROVE SendOf(u)'
  BY <1>36 DEF Execute, callers, waits, command, history
<1>37. ASSUME ReceiveAck PROVE SendOf(u)'
  BY <1>37 DEF ReceiveAck, OnPublish, callers, waits, printer, history
<1>38. CASE UNCHANGED vars
  BY <1>38 DEF vars, callers, waits, command, paho, printer, history
<1> QED
  BY <1>1, <1>2, <1>3, <1>4, <1>5, <1>6, <1>7, <1>8, <1>9, <1>10, <1>11, <1>12, <1>13,
     <1>14, <1>15, <1>16, <1>17, <1>18, <1>19, <1>20, <1>21, <1>22, <1>23, <1>24, <1>25,
     <1>26, <1>27, <1>28, <1>29, <1>30, <1>31, <1>32, <1>33, <1>34, <1>35, <1>36, <1>37,
     <1>38
  DEF Next, Caller, Inner, Network, Callback

\* Every step keeps the state of a lost connection away from the answers.
LEMMA DeadStep ==
  ASSUME DataTypes, LockInv, DeadInv, [Next]_vars
  PROVE  DeadInv'
<1> USE DEF DataTypes, LockInv, Inside, DeadInv, DeadOf, Returns
<1>1. ASSUME NEW t \in Threads, Call(t) PROVE DeadInv'
  BY <1>1 DEF Call, At, Goto, waits, command, paho, printer
<1>2. ASSUME NEW t \in Threads, Acquire(t) PROVE DeadInv'
  <2>1. deadData' => link = "down"
    BY <1>2, Zenon DEF Acquire
  <2>2. UNCHANGED <<link, live>> /\ opLock = NoThread
    BY <1>2 DEF Acquire, paho
  <2>3. \E l \in {"begin", "reset"} : pc' = [pc EXCEPT ![t] = l]
    BY <1>2 DEF Acquire, At, Goto, ResetThen
  <2> QED
    BY <2>1, <2>2, <2>3, ConstantsAssumption DEF ConstantsAssumption
<1>3. ASSUME NEW t \in Threads, Begin(t) PROVE DeadInv'
  BY <1>3 DEF Begin, At, Goto, paho, printer, history
<1>4. ASSUME NEW t \in Threads, Ensure(t) PROVE DeadInv'
  BY <1>4 DEF Ensure, At, Goto, ResetThen, waits, command, paho, printer, history
<1>5. ASSUME NEW t \in Threads, Reset(t) PROVE DeadInv'
  BY <1>5 DEF Reset, At, Goto, waits, command, paho, printer
<1>6. ASSUME NEW t \in Threads, Join(t) PROVE DeadInv'
  BY <1>6 DEF Join, At, Goto, LinkGone, waits, command, history
<1>7. ASSUME NEW t \in Threads, Make(t) PROVE DeadInv'
  BY <1>7 DEF Make, At, Goto, command, printer, history
<1>8. ASSUME NEW t \in Threads, WaitConnected(t) PROVE DeadInv'
  BY <1>8 DEF WaitConnected, At, Goto, waits, command, paho, printer, history
<1>9. ASSUME NEW t \in Threads, NotConnected(t) PROVE DeadInv'
  BY <1>9 DEF NotConnected, At, Return, ResetThen, LastAttempt, Goto, waits, command, paho, printer, history
<1>10. ASSUME NEW t \in Threads, OsError(t) PROVE DeadInv'
  BY <1>10 DEF OsError, At, ResetThen, LastAttempt, Goto, waits, command, paho, printer, history
<1>11. ASSUME NEW t \in Threads, NextAttempt(t) PROVE DeadInv'
  BY <1>11 DEF NextAttempt, At, Goto, waits, command, paho, printer, history
<1>12. ASSUME NEW t \in Threads, MarkIssued(t) PROVE DeadInv'
  BY <1>12 DEF MarkIssued, At, Goto, CanIssue, waits, paho, printer, history
<1>13. ASSUME NEW t \in Threads, PublishCommand(t) PROVE DeadInv'
  BY <1>13 DEF PublishCommand, At, Goto, Enqueue, waits, command, printer
<1>14. ASSUME NEW t \in Threads, WaitPublished(t) PROVE DeadInv'
  BY <1>14 DEF WaitPublished, At, Goto, Return, waits, command, paho, printer, history
<1>15. ASSUME NEW t \in Threads, CheckIssued(t) PROVE DeadInv'
  BY <1>15 DEF CheckIssued, At, Goto, Return, LastAttempt, waits, command, paho, printer, history
<1>16. ASSUME NEW t \in Threads, RequestStatus(t) PROVE DeadInv'
  BY <1>16 DEF RequestStatus, At, Goto, Return, Enqueue, Ready, waits, command, printer, history
<1>17. ASSUME NEW t \in Threads, ArmStatus(t) PROVE DeadInv'
  BY <1>17 DEF ArmStatus, At, Goto, Enqueue, command, printer, history
<1>18. ASSUME NEW t \in Threads, WaitStatus(t) PROVE DeadInv'
  BY <1>18 DEF WaitStatus, At, Goto, Return, LastAttempt, Ready, waits, command, paho, printer, history
<1>19. ASSUME NEW t \in Threads, RequestVersion(t) PROVE DeadInv'
  BY <1>19 DEF RequestVersion, At, Goto, Enqueue, waits, command, printer, history
<1>20. ASSUME NEW t \in Threads, WaitVersion(t) PROVE DeadInv'
  BY <1>20 DEF WaitVersion, At, Goto, Return, LastAttempt, waits, command, paho, printer, history
<1>21. ASSUME NEW t \in Threads, Final(t) PROVE DeadInv'
  BY <1>21 DEF Final, At, Goto, Return, waits, command, paho, printer, history
<1>22. ASSUME NEW t \in Threads, LastLook(t) PROVE DeadInv'
  BY <1>22 DEF LastLook, At, Return, Ready, Goto, waits, command, paho, printer, history
<1>23. ASSUME NEW t \in Threads, GiveUp(t) PROVE DeadInv'
  BY <1>23 DEF GiveUp, At, Return, Goto, waits, command, paho, printer, history
<1>24. ASSUME NEW t \in Threads, Release(t) PROVE DeadInv'
  BY <1>24 DEF Release, At, Goto, waits, paho, printer
<1>25. ASSUME OnConnectAccepted PROVE DeadInv'
  BY <1>25 DEF OnConnectAccepted, callers, waits, command, printer, history
<1>26. ASSUME OnConnectSubscribe PROVE DeadInv'
  BY <1>26 DEF OnConnectSubscribe, callers, waits, command, printer, history
<1>27. ASSUME OnConnectMark PROVE DeadInv'
  BY <1>27 DEF OnConnectMark, CanIssue, callers, waits, printer, history
<1>28. ASSUME OnConnectPublish PROVE DeadInv'
  BY <1>28 DEF OnConnectPublish, Enqueue, callers, waits, command, printer
<1>29. ASSUME OnConnectDone PROVE DeadInv'
  BY <1>29 DEF OnConnectDone, callers, command, printer, history
<1>30. ASSUME OnConnectRefused PROVE DeadInv'
  BY <1>30 DEF OnConnectRefused, callers, command, printer, history
<1>31. ASSUME OnDisconnect PROVE DeadInv'
  BY <1>31 DEF OnDisconnect, LinkGone, callers, waits, command, history
<1>32. ASSUME OnMessageReport PROVE DeadInv'
  BY <1>32 DEF OnMessageReport, callers, command, paho, printer, history
<1>33. ASSUME OnMessageVersion PROVE DeadInv'
  BY <1>33 DEF OnMessageVersion, callers, command, paho, printer, history
<1>34. ASSUME TransmitRequest PROVE DeadInv'
  BY <1>34 DEF TransmitRequest, OnPublish, callers, waits, printer, history
<1>35. ASSUME TransmitCommand PROVE DeadInv'
  BY <1>35 DEF TransmitCommand, callers, waits, command, history
<1>36. ASSUME Execute PROVE DeadInv'
  BY <1>36 DEF Execute, callers, waits, command, history
<1>37. ASSUME ReceiveAck PROVE DeadInv'
  BY <1>37 DEF ReceiveAck, OnPublish, callers, waits, printer, history
<1>38. CASE UNCHANGED vars
  BY <1>38 DEF vars, callers, waits, command, paho, printer, history
<1> QED
  BY <1>1, <1>2, <1>3, <1>4, <1>5, <1>6, <1>7, <1>8, <1>9, <1>10, <1>11, <1>12, <1>13,
     <1>14, <1>15, <1>16, <1>17, <1>18, <1>19, <1>20, <1>21, <1>22, <1>23, <1>24, <1>25,
     <1>26, <1>27, <1>28, <1>29, <1>30, <1>31, <1>32, <1>33, <1>34, <1>35, <1>36, <1>37,
     <1>38
  DEF Next, Caller, Inner, Network, Callback

----------------------------------------------------------------------------
(* The theorems. *)

IInv ==
  /\ TypeOK /\ LockInv /\ CallInv /\ PendingInv /\ IssueInv /\ CopiesInv
  /\ LinkInv /\ SendInv /\ DeadInv

\* A new session has nothing queued, issued, published or connected.
LEMMA InitInv == Init => IInv
<1> SUFFICES ASSUME Init PROVE IInv
  OBVIOUS
<1> USE ConstantsAssumption DEF ConstantsAssumption
<1>1. FlagTypes
  BY Zenon DEF Init, FlagTypes
<1>2. DataTypes
  BY DEF Init, DataTypes, CallerPCs, Returns, NetPCs, Links, Results, AllOps, Requests
<1>3. LockInv /\ CallInv /\ PendingInv
  BY DEF Init, LockInv, CallInv, PendingInv, Inside
<1>4. IssueInv /\ CopiesInv
  BY DEF Init, IssueInv, CallerPublishing, NetPublishing, Unissued, CopiesInv, Copies
<1>5. LinkInv /\ SendInv /\ DeadInv
  BY DEF Init, LinkInv, LinkOf, Quiet, SendInv, SendOf, Told, DeadInv, DeadOf, Inside
<1> QED
  BY <1>1, <1>2, <1>3, <1>4, <1>5 DEF IInv, TypeOK

\* The inductive invariant holds in every state of the session.
THEOREM Invariance == Spec => []IInv
<1>1. IInv /\ [Next]_vars => IInv'
  <2> SUFFICES ASSUME IInv, [Next]_vars PROVE IInv'
    OBVIOUS
  <2>1. FlagTypes' /\ DataTypes'
    BY FlagStep, DataStep DEF IInv, TypeOK, DataTypes
  <2>2. LockInv' /\ CallInv' /\ PendingInv' /\ IssueInv'
    BY CoreStep DEF IInv, TypeOK
  <2>3. CopiesInv'
    BY CopiesStep DEF IInv, TypeOK
  <2>4. LinkInv' /\ SendInv' /\ DeadInv'
    BY LinkStep, SendStep, DeadStep DEF IInv, TypeOK
  <2> QED
    BY <2>1, <2>2, <2>3, <2>4 DEF IInv, TypeOK
<1> QED
  BY InitInv, <1>1, PTL DEF Spec

\* Every variable of the session keeps its type.
THEOREM TypeCorrect == Spec => []TypeOK
<1>1. IInv => TypeOK
  BY DEF IInv
<1> QED
  BY <1>1, Invariance, PTL

\* Whatever the link does and however often the session reconnects, a payload
\* given to send_command is published at most once, and the printer never runs it
\* more often than it was published.
THEOREM CommandAtMostOnce == Spec => []AtMostOnce
<1>1. IInv => AtMostOnce
  BY DEF IInv, TypeOK, DataTypes, IssueInv, CopiesInv, Copies, AtMostOnce
<1> QED
  BY <1>1, Invariance, PTL

\* get_status never answers from the state of a connection that was already lost
\* when the call took the lock.
THEOREM SnapshotsAreFresh == Spec => []SnapshotSurvivedNoDrop
<1>1. IInv => SnapshotSurvivedNoDrop
  BY DEF IInv, TypeOK, DataTypes, FlagTypes, DeadInv, DeadOf, Inside, SnapshotSurvivedNoDrop
<1> QED
  BY <1>1, Invariance, PTL

\* Once send_command has answered True or False, no later reconnect publishes its
\* payload: neither another caller nor a late _on_connect still holds it.
THEOREM ResultsAreFinal == Spec => ResultIsFinal
<1> DEFINE Kept == \A t \in Threads :
                     pc[t] = "idle" /\ ret[t] \in {"true", "false"}
                       => published'[cmd[t]] = published[cmd[t]]
<1>1. IInv /\ [Next]_vars => [Kept]_vars
  <2> SUFFICES ASSUME IInv, Next, NEW t \in Threads,
                      pc[t] = "idle", Told(t)
               PROVE  published'[cmd[t]] = published[cmd[t]]
    BY DEF Told
  <2>0. /\ ~(netpc = "pub" /\ netCmd = cmd[t])
        /\ cmd[t] \in Cmds \cup {NoCmd}
        /\ pc \in [Threads -> CallerPCs] /\ published \in [Cmds -> Nat]
    BY DEF IInv, TypeOK, DataTypes, SendInv, SendOf
  <2>1. ASSUME NEW u \in Threads, PublishCommand(u)
        PROVE  published'[cmd[t]] = published[cmd[t]]
    <3>1. cmd[u] \in Cmds /\ u # t
      BY <2>1, ConstantsAssumption DEF IInv, TypeOK, DataTypes, CallInv, PublishCommand, At,
         ConstantsAssumption
    <3>2. cmd[u] # cmd[t]
      BY <3>1, ConstantsAssumption DEF IInv, CallInv, ConstantsAssumption
    <3>3. published' = [published EXCEPT ![cmd[u]] = @ + 1]
      BY <2>1 DEF PublishCommand
    <3> QED
      BY <2>0, <3>1, <3>2, <3>3
  <2>2. CASE OnConnectPublish
    <3>1. published' = [published EXCEPT ![netCmd] = @ + 1] /\ netCmd # cmd[t]
      BY <2>0, <2>2 DEF OnConnectPublish
    <3> QED
      BY <2>0, <3>1
  <2>3. CASE \E u \in Threads : Call(u) \/ Acquire(u) \/ MarkIssued(u) \/ Release(u)
    BY <2>3 DEF Call, Acquire, MarkIssued, Release, history
  <2>4. ASSUME NEW u \in Threads, Inner(u)
        PROVE  published'[cmd[t]] = published[cmd[t]]
    BY <2>4, InnerStep DEF IInv, TypeOK, InnerEffect
  <2>5. CASE OnConnectMark
    BY <2>5 DEF OnConnectMark, history
  <2>6. CASE Network /\ ~OnConnectMark /\ ~OnConnectPublish
    BY <2>6, NetworkStep DEF NetworkEffect
  <2> QED
    BY <2>1, <2>2, <2>3, <2>4, <2>5, <2>6 DEF Next, Caller
<1> QED
  BY <1>1, Invariance, PTL DEF Spec, ResultIsFinal

----------------------------------------------------------------------------
(* What the answers of send_command mean.  Two races refute it in the runs; *)
(* here every behaviour without such a step is shown to keep it.            *)

\* A publish event is a success, an acknowledged command was executed, and a definite
\* answer is the last word of a send_command.
TellOf(t) == Told(t) => pc[t] \in {"idle", "ret"} /\ op[t] = "send" /\ cmd[t] \in Cmds
EventInv ==
  /\ publishEvt => publishOk
  /\ \A c \in acks : executed[c] >= 1
  /\ \A t \in Threads : TellOf(t)

\* The event of an attempt is the PUBACK of its payload, and so is True.
TrueOf(t) ==
  /\ opLock = t /\ op[t] = "send" /\ pc[t] # "begin" /\ publishEvt => executed[cmd[t]] >= 1
  /\ ret[t] = "true" => executed[cmd[t]] >= 1
TrueInv == \A t \in Threads : TrueOf(t)

\* A connection is given up, and False told, with nothing issued.
FalseOf(t) ==
  /\ op[t] = "send" /\ pc[t] \in {"noconn", "reset", "join", "fail"} => ~issued
  /\ pc[t] = "ret" /\ ret[t] = "false" => ~issued
  /\ ret[t] = "false" => published[cmd[t]] = 0
FalseInv == \A t \in Threads : FalseOf(t)

\* Every step keeps what an event and an answer stand for.
LEMMA EventStep ==
  ASSUME IInv, EventInv, [Next]_vars
  PROVE  EventInv'
<1> USE DEF EventInv, TellOf, Told, IInv, TypeOK, DataTypes, CallInv, SendInv, SendOf,
            callers, waits, command, paho, printer, history
<1>1. ASSUME NEW t \in Threads, Call(t) PROVE EventInv'
  BY <1>1 DEF Call, At, Goto
<1>2. ASSUME NEW t \in Threads, Acquire(t) PROVE EventInv'
  BY <1>2 DEF Acquire, ResetThen, At, Goto
<1>3. ASSUME NEW t \in Threads, Begin(t) PROVE EventInv'
  BY <1>3 DEF Begin, At, Goto
<1>4. ASSUME NEW t \in Threads, Ensure(t) PROVE EventInv'
  BY <1>4 DEF Ensure, ResetThen, At, Goto
<1>5. ASSUME NEW t \in Threads, Reset(t) PROVE EventInv'
  BY <1>5 DEF Reset, At, Goto
<1>6. ASSUME NEW t \in Threads, Join(t) PROVE EventInv'
  BY <1>6 DEF Join, LinkGone, At, Goto
<1>7. ASSUME NEW t \in Threads, Make(t) PROVE EventInv'
  BY <1>7 DEF Make, At, Goto
<1>8. ASSUME NEW t \in Threads, WaitConnected(t) PROVE EventInv'
  BY <1>8 DEF WaitConnected, At, Goto
<1>9. ASSUME NEW t \in Threads, NotConnected(t) PROVE EventInv'
  BY <1>9 DEF NotConnected, Return, ResetThen, LastAttempt, At, Goto
<1>10. ASSUME NEW t \in Threads, OsError(t) PROVE EventInv'
  BY <1>10 DEF OsError, ResetThen, LastAttempt, At, Goto
<1>11. ASSUME NEW t \in Threads, NextAttempt(t) PROVE EventInv'
  BY <1>11 DEF NextAttempt, At, Goto
<1>12. ASSUME NEW t \in Threads, MarkIssued(t) PROVE EventInv'
  BY <1>12 DEF MarkIssued, CanIssue, At, Goto
<1>13. ASSUME NEW t \in Threads, PublishCommand(t) PROVE EventInv'
  BY <1>13 DEF PublishCommand, Enqueue, At, Goto
<1>14. ASSUME NEW t \in Threads, WaitPublished(t) PROVE EventInv'
  BY <1>14 DEF WaitPublished, Return, At, Goto
<1>15. ASSUME NEW t \in Threads, CheckIssued(t) PROVE EventInv'
  BY <1>15 DEF CheckIssued, Return, LastAttempt, At, Goto
<1>16. ASSUME NEW t \in Threads, RequestStatus(t) PROVE EventInv'
  BY <1>16 DEF RequestStatus, Return, Enqueue, Ready, At, Goto
<1>17. ASSUME NEW t \in Threads, ArmStatus(t) PROVE EventInv'
  BY <1>17 DEF ArmStatus, Enqueue, At, Goto
<1>18. ASSUME NEW t \in Threads, WaitStatus(t) PROVE EventInv'
  BY <1>18 DEF WaitStatus, Return, LastAttempt, Ready, At, Goto
<1>19. ASSUME NEW t \in Threads, RequestVersion(t) PROVE EventInv'
  BY <1>19 DEF RequestVersion, Enqueue, At, Goto
<1>20. ASSUME NEW t \in Threads, WaitVersion(t) PROVE EventInv'
  BY <1>20 DEF WaitVersion, Return, LastAttempt, At, Goto
<1>21. ASSUME NEW t \in Threads, Final(t) PROVE EventInv'
  BY <1>21 DEF Final, Return, At, Goto
<1>22. ASSUME NEW t \in Threads, LastLook(t) PROVE EventInv'
  BY <1>22 DEF LastLook, Return, Ready, At, Goto
<1>23. ASSUME NEW t \in Threads, GiveUp(t) PROVE EventInv'
  BY <1>23 DEF GiveUp, Return, At, Goto
<1>24. ASSUME NEW t \in Threads, Release(t) PROVE EventInv'
  BY <1>24 DEF Release, At, Goto
<1>25. ASSUME OnConnectAccepted PROVE EventInv'
  BY <1>25 DEF OnConnectAccepted
<1>26. ASSUME OnConnectSubscribe PROVE EventInv'
  BY <1>26 DEF OnConnectSubscribe
<1>27. ASSUME OnConnectMark PROVE EventInv'
  BY <1>27 DEF OnConnectMark, CanIssue
<1>28. ASSUME OnConnectPublish PROVE EventInv'
  BY <1>28 DEF OnConnectPublish, Enqueue
<1>29. ASSUME OnConnectDone PROVE EventInv'
  BY <1>29 DEF OnConnectDone
<1>30. ASSUME OnConnectRefused PROVE EventInv'
  BY <1>30 DEF OnConnectRefused
<1>31. ASSUME OnDisconnect PROVE EventInv'
  BY <1>31 DEF OnDisconnect, LinkGone
<1>32. ASSUME OnMessageReport PROVE EventInv'
  BY <1>32 DEF OnMessageReport
<1>33. ASSUME OnMessageVersion PROVE EventInv'
  BY <1>33 DEF OnMessageVersion
<1>34. ASSUME TransmitRequest PROVE EventInv'
  BY <1>34 DEF TransmitRequest, OnPublish
<1>35. ASSUME TransmitCommand PROVE EventInv'
  BY <1>35 DEF TransmitCommand
<1>36. ASSUME Execute PROVE EventInv'
  BY <1>36 DEF Execute
<1>37. ASSUME ReceiveAck PROVE EventInv'
  BY <1>37 DEF ReceiveAck, OnPublish
<1>38. CASE UNCHANGED vars
  BY <1>38 DEF vars
<1> QED
  BY <1>1, <1>2, <1>3, <1>4, <1>5, <1>6, <1>7, <1>8, <1>9, <1>10, <1>11, <1>12, <1>13,
     <1>14, <1>15, <1>16, <1>17, <1>18, <1>19, <1>20, <1>21, <1>22, <1>23, <1>24, <1>25,
     <1>26, <1>27, <1>28, <1>29, <1>30, <1>31, <1>32, <1>33, <1>34, <1>35, <1>36, <1>37,
     <1>38
  DEF Next, Caller, Inner, Network, Callback

\* Without a late acknowledgement every step keeps the event tied to the payload.
LEMMA TrueStep ==
  ASSUME IInv, EventInv, TrueInv, [Next]_vars, ~LateAck
  PROVE  TrueInv'
<1> USE DEF TrueInv, TrueOf, IInv, TypeOK, DataTypes, LockInv, Inside, CallInv,
            callers, waits, command, paho, printer, history
<1>1. ASSUME NEW t \in Threads, Call(t) PROVE TrueInv'
  BY <1>1 DEF Call, At, Goto
<1>2. ASSUME NEW t \in Threads, Acquire(t) PROVE TrueInv'
  BY <1>2 DEF Acquire, ResetThen, At, Goto
<1>3. ASSUME NEW t \in Threads, Begin(t) PROVE TrueInv'
  BY <1>3 DEF Begin, At, Goto
<1>4. ASSUME NEW t \in Threads, Ensure(t) PROVE TrueInv'
  BY <1>4 DEF Ensure, ResetThen, At, Goto
<1>5. ASSUME NEW t \in Threads, Reset(t) PROVE TrueInv'
  BY <1>5 DEF Reset, At, Goto
<1>6. ASSUME NEW t \in Threads, Join(t) PROVE TrueInv'
  BY <1>6 DEF Join, LinkGone, At, Goto
<1>7. ASSUME NEW t \in Threads, Make(t) PROVE TrueInv'
  BY <1>7 DEF Make, At, Goto
<1>8. ASSUME NEW t \in Threads, WaitConnected(t) PROVE TrueInv'
  BY <1>8 DEF WaitConnected, At, Goto
<1>9. ASSUME NEW t \in Threads, NotConnected(t) PROVE TrueInv'
  BY <1>9 DEF NotConnected, Return, ResetThen, LastAttempt, At, Goto
<1>10. ASSUME NEW t \in Threads, OsError(t) PROVE TrueInv'
  BY <1>10 DEF OsError, ResetThen, LastAttempt, At, Goto
<1>11. ASSUME NEW t \in Threads, NextAttempt(t) PROVE TrueInv'
  BY <1>11 DEF NextAttempt, At, Goto
<1>12. ASSUME NEW t \in Threads, MarkIssued(t) PROVE TrueInv'
  BY <1>12 DEF MarkIssued, CanIssue, At, Goto
<1>13. ASSUME NEW t \in Threads, PublishCommand(t) PROVE TrueInv'
  BY <1>13 DEF PublishCommand, Enqueue, At, Goto
<1>14. ASSUME NEW t \in Threads, WaitPublished(t) PROVE TrueInv'
  BY <1>14 DEF WaitPublished, Return, At, Goto, SendInv, SendOf
<1>15. ASSUME NEW t \in Threads, CheckIssued(t) PROVE TrueInv'
  BY <1>15 DEF CheckIssued, Return, LastAttempt, At, Goto, SendInv, SendOf
<1>16. ASSUME NEW t \in Threads, RequestStatus(t) PROVE TrueInv'
  BY <1>16 DEF RequestStatus, Return, Enqueue, Ready, At, Goto
<1>17. ASSUME NEW t \in Threads, ArmStatus(t) PROVE TrueInv'
  BY <1>17 DEF ArmStatus, Enqueue, At, Goto
<1>18. ASSUME NEW t \in Threads, WaitStatus(t) PROVE TrueInv'
  BY <1>18 DEF WaitStatus, Return, LastAttempt, Ready, At, Goto
<1>19. ASSUME NEW t \in Threads, RequestVersion(t) PROVE TrueInv'
  BY <1>19 DEF RequestVersion, Enqueue, At, Goto
<1>20. ASSUME NEW t \in Threads, WaitVersion(t) PROVE TrueInv'
  BY <1>20 DEF WaitVersion, Return, LastAttempt, At, Goto
<1>21. ASSUME NEW t \in Threads, Final(t) PROVE TrueInv'
  BY <1>21 DEF Final, Return, At, Goto
<1>22. ASSUME NEW t \in Threads, LastLook(t) PROVE TrueInv'
  BY <1>22 DEF LastLook, Return, Ready, At, Goto
<1>23. ASSUME NEW t \in Threads, GiveUp(t) PROVE TrueInv'
  BY <1>23 DEF GiveUp, Return, At, Goto
<1>24. ASSUME NEW t \in Threads, Release(t) PROVE TrueInv'
  BY <1>24, ConstantsAssumption DEF Release, At, Goto, ConstantsAssumption
<1>25. ASSUME OnConnectAccepted PROVE TrueInv'
  BY <1>25 DEF OnConnectAccepted
<1>26. ASSUME OnConnectSubscribe PROVE TrueInv'
  BY <1>26 DEF OnConnectSubscribe
<1>27. ASSUME OnConnectMark PROVE TrueInv'
  BY <1>27 DEF OnConnectMark, CanIssue
<1>28. ASSUME OnConnectPublish PROVE TrueInv'
  BY <1>28 DEF OnConnectPublish, Enqueue
<1>29. ASSUME OnConnectDone PROVE TrueInv'
  BY <1>29 DEF OnConnectDone
<1>30. ASSUME OnConnectRefused PROVE TrueInv'
  BY <1>30 DEF OnConnectRefused
<1>31. ASSUME OnDisconnect PROVE TrueInv'
  BY <1>31 DEF OnDisconnect, LinkGone
<1>32. ASSUME OnMessageReport PROVE TrueInv'
  BY <1>32 DEF OnMessageReport
<1>33. ASSUME OnMessageVersion PROVE TrueInv'
  BY <1>33 DEF OnMessageVersion
<1>34. ASSUME TransmitRequest PROVE TrueInv'
  BY <1>34 DEF TransmitRequest, OnPublish, LateAck
<1>35. ASSUME TransmitCommand PROVE TrueInv'
  BY <1>35 DEF TransmitCommand
<1>36. ASSUME Execute PROVE TrueInv'
  BY <1>36 DEF Execute
<1>37. ASSUME ReceiveAck PROVE TrueInv'
  BY <1>37 DEF ReceiveAck, OnPublish, LateAck, EventInv
<1>38. CASE UNCHANGED vars
  BY <1>38 DEF vars
<1> QED
  BY <1>1, <1>2, <1>3, <1>4, <1>5, <1>6, <1>7, <1>8, <1>9, <1>10, <1>11, <1>12, <1>13,
     <1>14, <1>15, <1>16, <1>17, <1>18, <1>19, <1>20, <1>21, <1>22, <1>23, <1>24, <1>25,
     <1>26, <1>27, <1>28, <1>29, <1>30, <1>31, <1>32, <1>33, <1>34, <1>35, <1>36, <1>37,
     <1>38
  DEF Next, Caller, Inner, Network, Callback

\* Without a late issue every step keeps False for payloads that never went out.
LEMMA FalseStep ==
  ASSUME IInv, EventInv, FalseInv, [Next]_vars, ~LateIssue
  PROVE  FalseInv'
<1> USE DEF FalseInv, FalseOf, IInv, TypeOK, DataTypes, LockInv, Inside, CallInv,
            callers, waits, command, paho, printer, history
<1>1. ASSUME NEW t \in Threads, Call(t) PROVE FalseInv'
  BY <1>1 DEF Call, At, Goto
<1>2. ASSUME NEW t \in Threads, Acquire(t) PROVE FalseInv'
  BY <1>2 DEF Acquire, ResetThen, At, Goto
<1>3. ASSUME NEW t \in Threads, Begin(t) PROVE FalseInv'
  BY <1>3 DEF Begin, At, Goto
<1>4. ASSUME NEW t \in Threads, Ensure(t) PROVE FalseInv'
  BY <1>4 DEF Ensure, ResetThen, At, Goto, LateIssue
<1>5. ASSUME NEW t \in Threads, Reset(t) PROVE FalseInv'
  BY <1>5 DEF Reset, At, Goto, Returns
<1>6. ASSUME NEW t \in Threads, Join(t) PROVE FalseInv'
  BY <1>6 DEF Join, LinkGone, At, Goto, Returns
<1>7. ASSUME NEW t \in Threads, Make(t) PROVE FalseInv'
  BY <1>7 DEF Make, At, Goto
<1>8. ASSUME NEW t \in Threads, WaitConnected(t) PROVE FalseInv'
  BY <1>8 DEF WaitConnected, At, Goto, LateIssue
<1>9. ASSUME NEW t \in Threads, NotConnected(t) PROVE FalseInv'
  BY <1>9 DEF NotConnected, Return, ResetThen, LastAttempt, At, Goto
<1>10. ASSUME NEW t \in Threads, OsError(t) PROVE FalseInv'
  BY <1>10 DEF OsError, ResetThen, LastAttempt, At, Goto, LateIssue
<1>11. ASSUME NEW t \in Threads, NextAttempt(t) PROVE FalseInv'
  BY <1>11 DEF NextAttempt, At, Goto
<1>12. ASSUME NEW t \in Threads, MarkIssued(t) PROVE FalseInv'
  BY <1>12 DEF MarkIssued, CanIssue, At, Goto
<1>13. ASSUME NEW t \in Threads, PublishCommand(t) PROVE FalseInv'
  <2>1. cmd[t] \in Cmds /\ cmd[t] # NoCmd
    BY <1>13, ConstantsAssumption DEF PublishCommand, Enqueue, At, Goto, ConstantsAssumption
  <2>2. \A u \in Threads : ret[u] = "false" => u # t /\ cmd[u] # cmd[t]
    BY <1>13, <2>1 DEF PublishCommand, Enqueue, At, Goto, EventInv, TellOf, Told
  <2>3. QED
    BY <1>13, <2>1, <2>2 DEF PublishCommand, Enqueue, At, Goto
<1>14. ASSUME NEW t \in Threads, WaitPublished(t) PROVE FalseInv'
  BY <1>14 DEF WaitPublished, Return, At, Goto, EventInv, SendInv, SendOf
<1>15. ASSUME NEW t \in Threads, CheckIssued(t) PROVE FalseInv'
  BY <1>15 DEF CheckIssued, Return, LastAttempt, At, Goto, EventInv, SendInv, SendOf
<1>16. ASSUME NEW t \in Threads, RequestStatus(t) PROVE FalseInv'
  BY <1>16 DEF RequestStatus, Return, Enqueue, Ready, At, Goto
<1>17. ASSUME NEW t \in Threads, ArmStatus(t) PROVE FalseInv'
  BY <1>17 DEF ArmStatus, Enqueue, At, Goto
<1>18. ASSUME NEW t \in Threads, WaitStatus(t) PROVE FalseInv'
  BY <1>18 DEF WaitStatus, Return, LastAttempt, Ready, At, Goto
<1>19. ASSUME NEW t \in Threads, RequestVersion(t) PROVE FalseInv'
  BY <1>19 DEF RequestVersion, Enqueue, At, Goto
<1>20. ASSUME NEW t \in Threads, WaitVersion(t) PROVE FalseInv'
  BY <1>20 DEF WaitVersion, Return, LastAttempt, At, Goto, SendInv, SendOf
<1>21. ASSUME NEW t \in Threads, Final(t) PROVE FalseInv'
  BY <1>21 DEF Final, Return, At, Goto
<1>22. ASSUME NEW t \in Threads, LastLook(t) PROVE FalseInv'
  BY <1>22 DEF LastLook, Return, Ready, At, Goto
<1>23. ASSUME NEW t \in Threads, GiveUp(t) PROVE FalseInv'
  <2>1. op[t] = "send" => cmd[t] \in Cmds /\ pending = cmd[t] /\ ~issued
    BY <1>23 DEF GiveUp, Return, At, Goto, PendingInv
  <2>2. op[t] = "send" => published[cmd[t]] = 0
    BY <2>1 DEF IssueInv, Unissued
  <2>3. QED
    BY <1>23, <2>1, <2>2 DEF GiveUp, Return, At, Goto
<1>24. ASSUME NEW t \in Threads, Release(t) PROVE FalseInv'
  BY <1>24 DEF Release, At, Goto
<1>25. ASSUME OnConnectAccepted PROVE FalseInv'
  BY <1>25 DEF OnConnectAccepted
<1>26. ASSUME OnConnectSubscribe PROVE FalseInv'
  BY <1>26 DEF OnConnectSubscribe
<1>27. ASSUME OnConnectMark PROVE FalseInv'
  BY <1>27 DEF OnConnectMark, CanIssue, LateIssue, SendInv, SendOf, Told, Quiet
<1>28. ASSUME OnConnectPublish PROVE FalseInv'
  <2>1. \A u \in Threads : ret[u] = "false" => cmd[u] # netCmd
    BY <1>28 DEF OnConnectPublish, Enqueue, EventInv, TellOf, Told, SendInv, SendOf, Quiet
  <2>2. netCmd \in Cmds
    BY <1>28 DEF OnConnectPublish, Enqueue, IssueInv
  <2>3. QED
    BY <1>28, <2>1, <2>2 DEF OnConnectPublish, Enqueue
<1>29. ASSUME OnConnectDone PROVE FalseInv'
  BY <1>29 DEF OnConnectDone
<1>30. ASSUME OnConnectRefused PROVE FalseInv'
  BY <1>30 DEF OnConnectRefused
<1>31. ASSUME OnDisconnect PROVE FalseInv'
  BY <1>31 DEF OnDisconnect, LinkGone
<1>32. ASSUME OnMessageReport PROVE FalseInv'
  BY <1>32 DEF OnMessageReport
<1>33. ASSUME OnMessageVersion PROVE FalseInv'
  BY <1>33 DEF OnMessageVersion
<1>34. ASSUME TransmitRequest PROVE FalseInv'
  BY <1>34 DEF TransmitRequest, OnPublish
<1>35. ASSUME TransmitCommand PROVE FalseInv'
  BY <1>35 DEF TransmitCommand
<1>36. ASSUME Execute PROVE FalseInv'
  BY <1>36 DEF Execute
<1>37. ASSUME ReceiveAck PROVE FalseInv'
  BY <1>37 DEF ReceiveAck, OnPublish
<1>38. CASE UNCHANGED vars
  BY <1>38 DEF vars
<1> QED
  BY <1>1, <1>2, <1>3, <1>4, <1>5, <1>6, <1>7, <1>8, <1>9, <1>10, <1>11, <1>12, <1>13,
     <1>14, <1>15, <1>16, <1>17, <1>18, <1>19, <1>20, <1>21, <1>22, <1>23, <1>24, <1>25,
     <1>26, <1>27, <1>28, <1>29, <1>30, <1>31, <1>32, <1>33, <1>34, <1>35, <1>36, <1>37,
     <1>38
  DEF Next, Caller, Inner, Network, Callback

\* Nothing has been answered, acknowledged or issued yet.
LEMMA AnswersStart == Init => EventInv /\ TrueInv /\ FalseInv
BY ConstantsAssumption
DEF Init, EventInv, TellOf, Told, TrueInv, TrueOf, FalseInv, FalseOf, ConstantsAssumption

\* True of send_command means that the printer took the command in (TrueMeansExecuted),
\* unless another message's acknowledgement ends its wait: that step, which a run shows,
\* is the only way to a wrong True.
THEOREM TrueUnlessLateAck == Spec /\ [][~LateAck]_vars => []TrueMeansExecuted
<1>1. IInv /\ EventInv /\ [Next]_vars => EventInv'
  BY EventStep
<1>2. IInv /\ EventInv /\ TrueInv /\ [Next]_vars /\ [~LateAck]_vars => TrueInv'
  <2>1. UNCHANGED vars => ~LateAck
    BY DEF vars, command, LateAck
  <2>2. QED
    BY <2>1, TrueStep
<1>3. IInv /\ EventInv /\ TrueInv => TrueMeansExecuted
  <2> SUFFICES ASSUME IInv, EventInv, TrueInv, NEW t \in Threads, ret[t] = "true"
               PROVE  executed[cmd[t]] = 1
    BY DEF TrueMeansExecuted
  <2>1. cmd[t] \in Cmds /\ executed[cmd[t]] >= 1
    BY DEF EventInv, TellOf, Told, TrueInv, TrueOf
  <2>2. /\ executed[cmd[t]] \in Nat /\ published[cmd[t]] \in Nat
        /\ executed[cmd[t]] <= published[cmd[t]] /\ published[cmd[t]] <= 1
    BY <2>1 DEF IInv, TypeOK, DataTypes, IssueInv, CopiesInv, Copies
  <2>3. QED
    BY <2>1, <2>2
<1> QED
  BY <1>1, <1>2, <1>3, AnswersStart, Invariance, PTL DEF Spec

\* False of send_command means that its command never went out (FalseMeansNotPublished),
\* unless a connection on which it was issued is given up: that step is the only way.
THEOREM FalseUnlessLateIssue == Spec /\ [][~LateIssue]_vars => []FalseMeansNotPublished
<1>1. IInv /\ EventInv /\ [Next]_vars => EventInv'
  BY EventStep
<1>2. IInv /\ EventInv /\ FalseInv /\ [Next]_vars /\ [~LateIssue]_vars => FalseInv'
  <2>1. CASE UNCHANGED vars
    BY <2>1 DEF vars, callers, command, history, FalseInv, FalseOf
  <2>2. QED
    BY <2>1, FalseStep
<1>3. FalseInv => FalseMeansNotPublished
  BY DEF FalseInv, FalseOf, FalseMeansNotPublished
<1> QED
  BY <1>1, <1>2, <1>3, AnswersStart, Invariance, PTL DEF Spec
=============================================================================
