------------------------------ MODULE Snapshot ------------------------------
(***************************************************************************)
(* `plate snapshot` (commands/snapshot.py, protocols/camera.py): a frame   *)
(* straight from the camera, or from a Docker streamer where the user      *)
(* allows one, written beside the output and moved over it.  Several       *)
(* processes may take snapshots into one output and share one container.   *)
(***************************************************************************)
EXTENDS Naturals

CONSTANTS
  Shooters,       \* processes
  MaxReads,       \* 30 headers are read at most
  SkipFrames,     \* _SNAPSHOT_SKIP_FRAMES: so many frames may be stale
  MaxTries        \* 30 tries to reach a new streamer

ASSUME SnapshotAssumption == MaxReads \in Nat /\ SkipFrames \in Nat /\ MaxTries \in Nat

VARIABLES
  settings,              \* the configuration and flags of a process
  spc, exit,             \* its place, and how it ended
  reads, valid, frame,   \* of the camera's stream: headers, good frames, last_frame
  cut, distrust,         \* history: the stream lost its framing; a pinned TLS check failed
  tries,                 \* tries to reach the streamer
  temp,                  \* the temporary file: stuck if it could not be removed, or moved
  container, out         \* shared: the streamer's container and the output
own == <<spc, exit, reads, valid, frame, cut, distrust, tries, temp>>
svars == <<settings, own, container, out>>

Settings == [pin : BOOLEAN, insecure : BOOLEAN, directOnly : BOOLEAN, opted : BOOLEAN, sim : BOOLEAN, local : BOOLEAN]
Places == {"grab", "read", "gate", "inspect", "remove", "run", "ready", "capture", "write", "replace", "report", "done"}
STypeOK ==
  /\ settings \in [Shooters -> Settings]
  /\ spc \in [Shooters -> Places]
  /\ exit \in [Shooters -> {"none", "saved", "pin", "refused", "config", "network", "file", "crash", "interrupted"}]
  /\ reads \in [Shooters -> 0 .. MaxReads] /\ valid \in [Shooters -> 0 .. SkipFrames + 1]
  /\ frame \in [Shooters -> {"none", "stale", "fresh", "page"}]
  /\ {cut, distrust} \subseteq [Shooters -> BOOLEAN]
  /\ tries \in [Shooters -> 0 .. MaxTries] /\ temp \in [Shooters -> {"none", "begun", "stuck", "moved"}]
  /\ container \in {"none", "starting", "up"} /\ out \in {"old", "stale", "fresh", "page"}
  /\ \A s \in Shooters : spc[s] = "done" <=> exit[s] # "none"

SInit ==
  /\ settings \in [Shooters -> Settings]
  /\ spc = [s \in Shooters |-> "grab"] /\ exit = [s \in Shooters |-> "none"]
  /\ reads = [s \in Shooters |-> 0] /\ valid = [s \in Shooters |-> 0] /\ frame = [s \in Shooters |-> "none"]
  /\ cut = [s \in Shooters |-> FALSE] /\ distrust = [s \in Shooters |-> FALSE]
  /\ tries = [s \in Shooters |-> 0] /\ temp = [s \in Shooters |-> "none"]
  /\ container \in {"none", "up"} /\ out = "old"

\* streamer_is_allowed: opted into by configuration or flag, and not forbidden.
Allowed(s) == settings[s].opted /\ ~settings[s].directOnly

SAt(s, place) == spc[s] = place /\ UNCHANGED settings
SGo(s, to) == spc' = [spc EXCEPT ![s] = to] /\ UNCHANGED exit
SEnd(s, how) == spc' = [spc EXCEPT ![s] = "done"] /\ exit' = [exit EXCEPT ![s] = how]
Stream == <<reads, valid, frame, cut, distrust>>
Shared == <<container, out>>

-----------------------------------------------------------------------------
(* _grab_camera_frame_direct *)

\* Bug: a TLS error falls back although a certificate is pinned.
TlsFailsOpen(s) == SGo(s, "gate") /\ distrust' = [distrust EXCEPT ![s] = settings[s].pin]

\* A TLS error: with a pin the command ends, without one the streamer may do.
TlsFails(s) ==
  /\ distrust' = [distrust EXCEPT ![s] = settings[s].pin]
  /\ IF settings[s].pin THEN SEnd(s, "pin") ELSE SGo(s, "gate")

\* Connect and check the certificate; no code (simulation) means no frame.
Grab(s) ==
  /\ SAt(s, "grab")
  /\ \/ SGo(s, "gate") /\ UNCHANGED distrust
     \/ ~settings[s].sim /\ TlsFails(s)
     \/ ~settings[s].sim /\ (settings[s].pin \/ settings[s].insecure) /\ SGo(s, "read") /\ UNCHANGED distrust
  /\ UNCHANGED <<reads, valid, frame, cut, tries, temp, Shared>>

Returned(s, f) == SGo(s, IF f = "none" THEN "gate" ELSE "write")

\* Bug: one frame too few is skipped.
GoodFrameEarly(s) ==
  /\ reads[s] < MaxReads /\ reads' = [reads EXCEPT ![s] = @ + 1] /\ valid' = [valid EXCEPT ![s] = @ + 1]
  /\ \E f \in {"fresh"} \cup (IF valid[s] < SkipFrames THEN {"stale"} ELSE {}) :
       /\ frame' = [frame EXCEPT ![s] = f]
       /\ IF valid'[s] >= SkipFrames THEN Returned(s, f) ELSE SGo(s, "read")
  /\ UNCHANGED <<cut, distrust>>

\* A JPEG.  The first ones may come from an earlier connection's buffer.
GoodFrame(s) ==
  /\ reads[s] < MaxReads /\ reads' = [reads EXCEPT ![s] = @ + 1] /\ valid' = [valid EXCEPT ![s] = @ + 1]
  /\ \E f \in {"fresh"} \cup (IF valid[s] < SkipFrames THEN {"stale"} ELSE {}) :
       /\ frame' = [frame EXCEPT ![s] = f]
       /\ IF valid'[s] > SkipFrames THEN Returned(s, f) ELSE SGo(s, "read")
  /\ UNCHANGED <<cut, distrust>>

\* An empty header, or bytes that are no JPEG.
BadFrame(s) ==
  /\ reads[s] < MaxReads /\ reads' = [reads EXCEPT ![s] = @ + 1]
  /\ SGo(s, "read") /\ UNCHANGED <<valid, frame, cut, distrust>>

\* The last frame is returned after MaxReads headers, or at an absurd one.
LastFrame(s) ==
  /\ \/ reads[s] = MaxReads /\ UNCHANGED cut
     \/ reads[s] < MaxReads /\ cut' = [cut EXCEPT ![s] = TRUE]
  /\ Returned(s, frame[s]) /\ UNCHANGED <<reads, valid, frame, distrust>>

\* The stream ends or breaks: what it has given so far is lost.
StreamBreaks(s) ==
  /\ frame' = [frame EXCEPT ![s] = "none"]
  /\ TlsFails(s) \/ (SGo(s, "gate") /\ UNCHANGED distrust)
  /\ UNCHANGED <<reads, valid, cut>>

ReadFrame(s) ==
  /\ SAt(s, "read")
  /\ GoodFrame(s) \/ BadFrame(s) \/ LastFrame(s) \/ StreamBreaks(s)
  /\ UNCHANGED <<tries, temp, Shared>>

-----------------------------------------------------------------------------
(* The streamer. *)

\* Refused, or stopped by what is needed for it: a local address, docker, a port.
Gate(s) ==
  /\ SAt(s, "gate")
  /\ IF ~Allowed(s) THEN SEnd(s, "refused")
     ELSE IF settings[s].sim THEN SEnd(s, "refused")
     ELSE IF ~settings[s].local THEN SEnd(s, "config")
     ELSE SEnd(s, "config") \/ SGo(s, "inspect")
  /\ UNCHANGED <<Stream, tries, temp, Shared>>

\* docker inspect
Inspect(s) ==
  /\ SAt(s, "inspect")
  /\ SEnd(s, "config") \/ SGo(s, IF container = "none" THEN "remove" ELSE "capture")
  /\ UNCHANGED <<Stream, tries, temp, Shared>>

\* docker rm -f, whoever may have started the container meanwhile.
Remove(s) ==
  /\ SAt(s, "remove")
  /\ \/ SGo(s, "run") /\ container' = "none"
     \/ SEnd(s, "config") /\ UNCHANGED container
  /\ UNCHANGED <<Stream, tries, temp, out>>

\* docker run, which fails when the name is taken.
Run(s) ==
  /\ SAt(s, "run")
  /\ \/ container = "none" /\ container' = "starting" /\ SGo(s, "ready")
     \/ SEnd(s, "config") /\ UNCHANGED container
  /\ UNCHANGED <<Stream, tries, temp, out>>

\* It is asked until it answers, or MaxTries times.  Only a URLError is tried
\* again: an answer cut off ends the command.
Ready(s) ==
  /\ SAt(s, "ready")
  /\ \/ (container = "up" \/ tries[s] = MaxTries) /\ SGo(s, "capture") /\ UNCHANGED tries
     \/ container # "up" /\ tries[s] < MaxTries /\ tries' = [tries EXCEPT ![s] = @ + 1] /\ SGo(s, "ready")
     \/ tries[s] < MaxTries /\ SEnd(s, "crash") /\ UNCHANGED tries
  /\ UNCHANGED <<Stream, temp, Shared>>

\* Whatever the streamer answers is the snapshot.  An answer cut off is neither a
\* URLError nor an OSError.
Capture(s) ==
  /\ SAt(s, "capture")
  /\ \/ container = "up" /\ frame' = [frame EXCEPT ![s] = "page"] /\ SGo(s, "write")
     \/ (SEnd(s, "network") \/ SEnd(s, "file") \/ SEnd(s, "crash")) /\ UNCHANGED frame
  /\ UNCHANGED <<reads, valid, cut, distrust, tries, temp, Shared>>

-----------------------------------------------------------------------------
(* _write_snapshot_atomic and the report *)

WriteTemp(s) ==
  /\ SAt(s, "write")
  /\ \/ temp' = [temp EXCEPT ![s] = "begun"] /\ SGo(s, "replace")
     \/ UNCHANGED temp /\ SEnd(s, "file")
  /\ UNCHANGED <<Stream, tries, Shared>>

\* The rest is written and the file moved; or the output is untouched and the
\* temporary file removed, if it can be.
Replace(s) ==
  /\ SAt(s, "replace")
  /\ \/ temp' = [temp EXCEPT ![s] = "moved"] /\ out' = frame[s] /\ SGo(s, "report")
     \/ \E left \in {"none", "stuck"} : temp' = [temp EXCEPT ![s] = left] /\ UNCHANGED out /\ SEnd(s, "file")
  /\ UNCHANGED <<Stream, tries, container>>

\* Its size is read once more: an OSError here is reported as a file error, of an
\* output that has been replaced.
Report(s) ==
  /\ SAt(s, "report") /\ (SEnd(s, "saved") \/ SEnd(s, "file"))
  /\ UNCHANGED <<Stream, tries, temp, Shared>>

\* Ctrl-C passes every handler, that of _write_snapshot_atomic too.
Interrupted(s) ==
  /\ spc[s] # "done" /\ UNCHANGED settings /\ SEnd(s, "interrupted")
  /\ UNCHANGED <<Stream, tries, temp, Shared>>

-----------------------------------------------------------------------------
\* The container comes up, or dies.
StreamerComesUp == container = "starting" /\ container' = "up" /\ UNCHANGED <<settings, own, out>>
StreamerDies == container # "none" /\ container' = "none" /\ UNCHANGED <<settings, own, out>>

Shooting(s) == \/ Grab(s) \/ ReadFrame(s) \/ Gate(s) \/ Inspect(s) \/ Remove(s) \/ Run(s) \/ Ready(s)
               \/ Capture(s) \/ WriteTemp(s) \/ Replace(s) \/ Report(s)
SNext == StreamerComesUp \/ StreamerDies \/ \E s \in Shooters : Shooting(s) \/ Interrupted(s)
SSpec == SInit /\ [][SNext]_svars /\ \A s \in Shooters : WF_svars(Shooting(s))

-----------------------------------------------------------------------------
\* A frame saved from the camera is one of this connection, unless so few came
\* that there was nothing to skip.
DirectIsFresh ==
  \A s \in Shooters : spc[s] \in {"write", "replace", "report"} /\ frame[s] = "stale" => reads[s] = MaxReads \/ cut[s]

\* The streamer is neither asked nor started without the user's leave, in
\* simulation, at another host, or once a pinned certificate did not check out.
StreamerOnlyIfAllowed ==
  \A s \in Shooters : spc[s] \in {"inspect", "remove", "run", "ready", "capture"} \/ frame[s] = "page" =>
    Allowed(s) /\ ~settings[s].sim /\ settings[s].local /\ ~distrust[s]

\* The old output stays until some process has moved a whole file over it.  Who
\* reports a saved snapshot has done so; who reports anything else has neither done so
\* nor left a temporary file, but for a file error: it may come after the move, or with
\* a temporary file that cannot be removed.  Only a Ctrl-C leaves one that can be.
SavedOrUntouched ==
  /\ (\A s \in Shooters : temp[s] # "moved") => out = "old"
  /\ \A s \in Shooters : spc[s] = "done" =>
       /\ exit[s] = "saved" => temp[s] = "moved" /\ out # "old"
       /\ exit[s] = "file" => temp[s] # "begun"
       /\ exit[s] \notin {"saved", "file", "interrupted"} => temp[s] = "none"

\* A snapshot is a frame of this connection, or there is none.
SnapshotOrNothing == SavedOrUntouched /\ DirectIsFresh

\* Every snapshot ends, whatever the camera, docker and the streamer do.
SnapshotEnds == \A s \in Shooters : spc[s] = "gate" ~> spc[s] = "done"
=============================================================================
