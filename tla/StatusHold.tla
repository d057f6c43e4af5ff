---------------------------- MODULE StatusHold -----------------------------
(***************************************************************************)
(* The Terminal UI's status workers and the MQTT session they share:       *)
(* StatusService.fetch and close (tui/services.py), RuntimeContext.printer,*)
(* hold_mqtt and release_mqtt.  The dashboard's worker and the monitor's   *)
(* fetch in threads of their own; AMS detection asks the context for its   *)
(* printer too; the UI thread closes the service on its way out, once the  *)
(* workers have ended too.                                                 *)
(***************************************************************************)
EXTENDS Naturals, FiniteSets

CONSTANTS Workers,     \* threads that ask for the status, one fetch at a time each
          Detectors,   \* those that detect the AMS material instead
          MaxFetches,  \* bound: fetches begun
          MaxObjects   \* bound: printers and sessions made

Nobody == "nobody"   \* no worker holds the lock

ASSUME HoldAssumption ==
  Detectors \subseteq Workers /\ Nobody \notin Workers /\ MaxFetches \in Nat /\ MaxObjects \in Nat

VARIABLES
  hpc, got, sess,       \* a worker: its place, the printer and the session it has read
  service, cached,      \* StatusService._printer and RuntimeContext._printer (0: None)
  printers, sessions,   \* how many objects exist
  held,                 \* a printer's _mqtt_session (0: None)
  open, lockedBy,       \* the session's client is connected; _op_lock (0: free)
  upc, upass,           \* the UI thread: its place in close, and which of its closes
  uprinter, usess,      \* the locals of close
  astray,               \* history: sessions used after their release, or whose printer was replaced
  fetches
thread  == <<hpc, got, sess>>
objects == <<service, cached, printers, sessions, held>>
session == <<open, lockedBy>>
ui      == <<upc, upass, uprinter, usess>>
hvars == <<thread, objects, session, ui, astray, fetches>>

Objects == 1 .. MaxObjects

HTypeOK ==
  /\ hpc \in [Workers -> {"idle", "check", "build", "keep", "hold", "holding", "ask", "wait", "using", "apply"}]
  /\ got \in [Workers -> 0 .. MaxObjects] /\ sess \in [Workers -> 0 .. MaxObjects]
  /\ printers \in 0 .. MaxObjects /\ sessions \in 0 .. MaxObjects
  /\ service \in 0 .. printers /\ cached \in 0 .. printers
  /\ uprinter \in 0 .. printers /\ usess \in 0 .. sessions
  /\ held \in [Objects -> 0 .. sessions] /\ open \subseteq 1 .. sessions /\ astray \subseteq Objects
  /\ lockedBy \in [Objects -> Workers \cup {Nobody}]
  /\ upc \in {"running", "closing", "releasing", "locking", "leaving", "gone"} /\ upass \in 0 .. 2
  /\ \A p \in Objects : held[p] # 0 => p <= printers
  /\ \A w \in Workers : hpc[w] = "using" => lockedBy[sess[w]] = w

HInit ==
  /\ hpc = [w \in Workers |-> "idle"] /\ got = [w \in Workers |-> 0] /\ sess = [w \in Workers |-> 0]
  /\ service = 0 /\ cached = 0 /\ printers = 0 /\ sessions = 0 /\ held = [p \in Objects |-> 0]
  /\ open = {} /\ lockedBy = [s \in Objects |-> Nobody] /\ astray = {}
  /\ upc = "running" /\ upass = 0 /\ uprinter = 0 /\ usess = 0 /\ fetches = 0

HGo(w, from, to) == hpc[w] = from /\ hpc' = [hpc EXCEPT ![w] = to]

-----------------------------------------------------------------------------
\* StatusService.fetch in the thread of worker w, and the AMS detection.
Fetch(w) ==
  /\ upass = 0 /\ fetches < MaxFetches /\ fetches' = fetches + 1
  /\ HGo(w, "idle", "check")
  /\ UNCHANGED <<got, sess, objects, session, ui, astray>>

\* if self._printer is None
CheckPrinter(w) ==
  /\ HGo(w, "check", IF service = 0 \/ w \in Detectors THEN "build" ELSE "ask")
  /\ UNCHANGED <<got, sess, objects, session, ui, astray, fetches>>

\* RuntimeContext.printer: the cached one, or a new one from the factory.
BuildPrinter(w) ==
  /\ HGo(w, "build", "keep")
  /\ IF cached # 0
     THEN got' = [got EXCEPT ![w] = cached] /\ UNCHANGED printers
     ELSE /\ printers < MaxObjects /\ printers' = printers + 1
          /\ got' = [got EXCEPT ![w] = printers']
  /\ UNCHANGED <<sess, service, cached, sessions, held, session, ui, astray, fetches>>

\* It is cached, and becomes the service's.  Nothing guards either attribute.
KeepPrinter(w) ==
  /\ HGo(w, "keep", IF w \in Detectors THEN "ask" ELSE "hold")
  /\ cached' = got[w]
  /\ IF w \in Detectors THEN UNCHANGED <<service, astray>>
     ELSE /\ service' = got[w]
          /\ astray' = IF service \notin {0, got[w]} THEN astray \cup ({held[service]} \ {0}) ELSE astray
  /\ UNCHANGED <<got, sess, printers, sessions, held, session, ui, fetches>>

\* self._printer.hold_mqtt(): the attribute is read again, and None raises.
Hold(w) ==
  /\ HGo(w, "hold", IF service = 0 THEN "apply" ELSE "holding")
  /\ got' = [got EXCEPT ![w] = service]
  /\ UNCHANGED <<sess, objects, session, ui, astray, fetches>>

\* Bug: every call makes a session.
HoldAnew(w) ==
  /\ HGo(w, "holding", "ask")
  /\ sessions < MaxObjects /\ sessions' = sessions + 1
  /\ held' = [held EXCEPT ![got[w]] = sessions']
  /\ UNCHANGED <<got, sess, service, cached, printers, session, ui, astray, fetches>>

\* hold_mqtt, under its lock.
HoldMqtt(w) ==
  /\ HGo(w, "holding", "ask")
  /\ IF held[got[w]] # 0 THEN UNCHANGED <<sessions, held>>
     ELSE /\ sessions < MaxObjects /\ sessions' = sessions + 1
          /\ held' = [held EXCEPT ![got[w]] = sessions']
  /\ UNCHANGED <<got, sess, service, cached, printers, session, ui, astray, fetches>>

\* self._printer.status(): again the attribute, then the printer's session; a
\* printer without one makes a connection of its own and closes it.
AskStatus(w) ==
  LET p == IF w \in Detectors THEN got[w] ELSE service
      s == IF p = 0 THEN 0 ELSE held[p]
  IN  /\ HGo(w, "ask", IF s = 0 THEN "apply" ELSE "wait")
      /\ sess' = [sess EXCEPT ![w] = s]
      /\ UNCHANGED <<got, objects, session, ui, astray, fetches>>

Current(s) == service # 0 /\ held[service] = s

\* MqttSession.get_status: with _op_lock, connecting when it is not connected.
UseSession(w) ==
  LET s == sess[w]
  IN  /\ HGo(w, "wait", "using") /\ lockedBy[s] = Nobody
      /\ lockedBy' = [lockedBy EXCEPT ![s] = w]
      /\ open' = open \cup {s}
      /\ astray' = IF Current(s) THEN astray ELSE astray \cup {s}
      /\ UNCHANGED <<got, sess, objects, ui, fetches>>
\* Bug: the snapshot is applied before the session is let go.
StatusDoneLate(w) ==
  /\ HGo(w, "using", "apply")
  /\ upc \in {"running", "leaving", "gone"}
  /\ lockedBy' = [lockedBy EXCEPT ![sess[w]] = Nobody]
  /\ UNCHANGED <<got, sess, objects, open, ui, astray, fetches>>

StatusDone(w) ==
  /\ HGo(w, "using", "apply")
  /\ lockedBy' = [lockedBy EXCEPT ![sess[w]] = Nobody]
  /\ UNCHANGED <<got, sess, objects, open, ui, astray, fetches>>

\* call_from_thread waits for the UI thread; without a running app it raises.
Apply(w) ==
  /\ upc \in {"running", "leaving", "gone"}
  /\ HGo(w, "apply", "idle")
  /\ UNCHANGED <<got, sess, objects, session, ui, astray, fetches>>

-----------------------------------------------------------------------------
\* The UI thread.  action_quit closes the service, on_unmount once more, and
\* run_app a last time when the threads have been joined.
Quit ==
  /\ upc = "running" /\ upc' = "closing"
  /\ UNCHANGED <<thread, objects, session, upass, uprinter, usess, astray, fetches>>

\* StatusService.close
Close ==
  /\ upc = "closing" /\ upc' = IF service = 0 THEN "leaving" ELSE "releasing"
  /\ uprinter' = service /\ service' = 0
  /\ UNCHANGED <<thread, cached, printers, sessions, held, session, upass, usess, astray, fetches>>

\* release_mqtt: the session is taken under the lock and closed after it.
ReleaseMqtt ==
  /\ upc = "releasing" /\ upc' = IF held[uprinter] = 0 THEN "leaving" ELSE "locking"
  /\ usess' = held[uprinter] /\ held' = [held EXCEPT ![uprinter] = 0]
  /\ UNCHANGED <<thread, service, cached, printers, sessions, session, upass, uprinter, astray, fetches>>

\* MqttSession.close, under _op_lock.
CloseSession ==
  /\ upc = "locking" /\ lockedBy[usess] = Nobody /\ upc' = "leaving"
  /\ open' = open \ {usess}
  /\ UNCHANGED <<thread, objects, lockedBy, upass, uprinter, usess, astray, fetches>>

Leave ==
  /\ upc = "leaving"
  /\ \/ upass = 0 /\ upass' = 1 /\ upc' = "closing"
     \/ upass = 1 /\ (\A w \in Workers : hpc[w] = "idle") /\ upass' = 2 /\ upc' = "closing"
     \/ upass = 2 /\ upc' = "gone" /\ UNCHANGED upass
  /\ UNCHANGED <<thread, objects, session, uprinter, usess, astray, fetches>>

Fetching(w) == \/ CheckPrinter(w) \/ BuildPrinter(w) \/ KeepPrinter(w) \/ Hold(w) \/ HoldMqtt(w)
               \/ AskStatus(w) \/ UseSession(w) \/ StatusDone(w) \/ Apply(w)
Leaving == Close \/ ReleaseMqtt \/ CloseSession \/ Leave

HNext == (\E w \in Workers : Fetch(w) \/ Fetching(w)) \/ Quit \/ Leaving
HSpec == HInit /\ [][HNext]_hvars /\ (\A w \in Workers : WF_hvars(Fetching(w))) /\ WF_hvars(Leaving)

-----------------------------------------------------------------------------
\* While the app runs the dashboard, the monitor and the AMS detection share one
\* connection, except for those that went astray.
SharedSession == upc = "running" => Cardinality(open \ astray) <= 1

\* When the app has gone every session it held is disconnected, except one that
\* went astray.
NothingHeldAtExit == upc = "gone" => open \subseteq astray

\* One connection while the app runs and none afterwards, however fetches, the
\* detection and quitting interleave.
SessionOwned == SharedSession /\ NothingHeldAtExit

\* The same without exception: TLC refutes it, because a worker that has read the
\* session, or waits for its lock, connects it again after close has closed it.
NothingOpenAtExit == upc = "gone" => open = {}

\* Quitting ends: the UI thread, the session's lock and the workers that wait
\* for the UI thread never wait for each other.
QuitCompletes == upc = "closing" ~> upc = "gone"
=============================================================================
