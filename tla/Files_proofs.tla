---------------------------- MODULE Files_proofs ----------------------------
(***************************************************************************)
(* Proofs about Upload, Files and Snapshot, for every file size, number of *)
(* retries, set of earlier files, number of commands and of processes.     *)
(*                                                                         *)
(* Upload: the offset of a resume is inside the printer's file, and a file *)
(* reported as delivered is the local one; that needs one assumption, that *)
(* an earlier file of the same name is empty or longer than the new one    *)
(* (the run upload_resume shows why).  Files: which command is where; only *)
(* an upload that could not ask, or asked before the print began, is in    *)
(* upload_file while its file is printed, and a download touches its       *)
(* destination in its very last step only.  Snapshot: what one process is  *)
(* allowed and has read is its own business; what they share, the output,  *)
(* is only ever touched by one that goes on to report.                     *)
(***************************************************************************)
EXTENDS MC_Files, TLAPS

----------------------------------------------------------------------------
(* Upload. *)

NoTrustedPrefix == \A s \in PreviousSizes : s = 0 \/ s > FileSize

\* REST always points into the printer's file: uploaded_bytes is only ever set
\* from a SIZE below the file's length, and reset with every deletion.
OffsetInv ==
  /\ attempt = 0 /\ pc \in {"connect", "delete", "store"} => uploaded = 0
  /\ pc = "delete" => attempt = 0
  /\ pc = "verify" => Exists

Inv == DataTypes /\ ResumeOffsetExists /\ OffsetInv

\* With no trusted prefix: a foreign file is too long to be resumed or mistaken
\* for ours, and a fresh STOR that did not raise leaves a file of ours.
ContentInv ==
  /\ content = "ours" => size <= FileSize
  /\ content = "other" => size > FileSize
  /\ pc = "verify" \/ uploaded > 0 => content = "ours"
  /\ result # "none" => pc = "returned"

DInv == Inv /\ ContentInv /\ DeliveredWhole

\* What the constants guarantee, without the set of earlier sizes.
LEMMA SizeAssumption == FileSize \in Nat /\ FileSize > 0 /\ MaxRetries \in Nat
  BY UploadAssumption DEF UploadAssumption

\* upload_file starts with nothing uploaded and nothing returned.
LEMMA InitInv == Init => Inv
<1> SUFFICES ASSUME Init PROVE Inv
  OBVIOUS
<1>0. size \in PreviousSizes => size \in Nat
  BY UploadAssumption DEF UploadAssumption
<1>1. size \in Nat /\ content \in {"absent", "ours", "other"}
  BY <1>0 DEF Init
<1>2. /\ pc = "connect" /\ attempt = 0 /\ uploaded = 0
      /\ result = "none" /\ sizeVerified = "unset"
  BY DEF Init
<1>3. DataTypes
  BY <1>1, <1>2, UploadAssumption DEF UploadAssumption, DataTypes
<1>4. QED
  BY <1>2, <1>3 DEF Inv, ResumeOffsetExists, OffsetInv

\* Every step of upload_file keeps its variables in range and the resume
\* offset inside the printer's file.
LEMMA InvStep == Inv /\ [Next]_vars => Inv'
<1> SUFFICES ASSUME Inv, [Next]_vars PROVE Inv'
  OBVIOUS
<1> USE SizeAssumption DEF Inv, DataTypes, ResumeOffsetExists, OffsetInv, Exists, locals, remote
<1>1. CASE Connect
  BY <1>1 DEF Connect, Return, Fail
<1>2. CASE Delete
  BY <1>2 DEF Delete, DeleteQuiet
<1>3. CASE Store
  BY <1>3 DEF Store, Write, Return, Fail
<1>4. CASE Verify
  BY <1>4 DEF Verify, Return, Retry, DeleteQuiet
<1>5. CASE Probe
  BY <1>5 DEF Probe, Return, Retry, DeleteQuiet
<1>6. CASE UNCHANGED vars
  BY <1>6 DEF vars
<1>7. QED
  BY <1>1, <1>2, <1>3, <1>4, <1>5, <1>6 DEF Next

AttemptedType == attempted \in BOOLEAN

\* upload_file only ever sets attempted_transfer to TRUE.
LEMMA AttemptedStep == AttemptedType /\ [Next]_vars => AttemptedType'
  BY Zenon DEF AttemptedType, Next, vars, locals, Connect, Delete, Store, Verify, Probe

\* upload_file keeps its variables' types; in particular it never starts more
\* than max_retries + 1 attempts.
THEOREM TypeCorrect == Spec => []TypeOK
<1>1. Init => AttemptedType
  BY Zenon DEF Init, AttemptedType
<1>2. Inv /\ AttemptedType => TypeOK
  BY DEF Inv, AttemptedType, TypeOK
<1>3. QED
  BY <1>1, <1>2, InitInv, InvStep, AttemptedStep, PTL DEF Spec

\* The offset upload_file passes as REST exists on the printer.
THEOREM ResumeOffsetValid == Spec => []ResumeOffsetExists
<1>1. Inv => ResumeOffsetExists
  BY DEF Inv
<1>2. QED
  BY <1>1, InitInv, InvStep, PTL DEF Spec

\* An earlier file that is empty or too long is never taken for a prefix.
LEMMA InitContent == NoTrustedPrefix /\ Init => ContentInv /\ DeliveredWhole
<1> SUFFICES ASSUME NoTrustedPrefix, Init PROVE ContentInv /\ DeliveredWhole
  OBVIOUS
<1>1. size \in PreviousSizes /\ size > 0 => size > FileSize
  BY SizeAssumption, UploadAssumption DEF UploadAssumption, NoTrustedPrefix
<1>2. QED
  BY <1>1, SizeAssumption DEF Init, ContentInv, DeliveredWhole

\* Resuming, restarting and verifying keep the printer's file a prefix of the
\* local one, and only a whole one is reported as delivered.
LEMMA ContentStep == DInv /\ [Next]_vars => ContentInv' /\ DeliveredWhole'
<1> SUFFICES ASSUME DInv, [Next]_vars PROVE ContentInv' /\ DeliveredWhole'
  OBVIOUS
<1> USE SizeAssumption
    DEF DInv, Inv, DataTypes, ResumeOffsetExists, OffsetInv, ContentInv,
        DeliveredWhole, Exists, locals, remote
<1>1. CASE Connect
  BY <1>1 DEF Connect, Return, Fail
<1>2. CASE Delete
  BY <1>2 DEF Delete, DeleteQuiet
<1>3. CASE Store
  BY <1>3 DEF Store, Write, Return, Fail
<1>4. CASE Verify
  BY <1>4 DEF Verify, Return, Retry, DeleteQuiet
<1>5. CASE Probe
  BY <1>5 DEF Probe, Return, Retry, DeleteQuiet
<1>6. CASE UNCHANGED vars
  BY <1>6 DEF vars
<1>7. QED
  BY <1>1, <1>2, <1>3, <1>4, <1>5, <1>6 DEF Next

\* A successful upload that is not reported as unverified left exactly the local
\* file on the printer, through any number of lost connections and resumes,
\* unless an earlier file of the same name and of a size up to the new one's was
\* there before.
THEOREM UploadDelivers ==
  ASSUME NoTrustedPrefix
  PROVE  Spec => []DeliveredWhole
<1>1. Init => DInv
  BY InitInv, InitContent DEF DInv
<1>2. DInv /\ [Next]_vars => DInv'
  BY InvStep, ContentStep DEF DInv
<1>3. DInv => DeliveredWhole
  BY DEF DInv
<1>4. QED
  BY <1>1, <1>2, <1>3, PTL DEF Spec

----------------------------------------------------------------------------
(* Files. *)

Downloading == cpc \in {"login", "retr", "size", "replace", "clean"}

\* Each place belongs to one command.
PlaceInv ==
  /\ Downloading => command = "download"
  /\ command = "download" => Downloading \/ cpc = "idle"
  /\ cpc \in {"dry", "ask", "store"} => command = "upload"
  /\ cpc = "delete" => command = "delete"

\* An upload under way did not see its file being printed.
BlindInv == cpc = "store" /\ printing = "this" => blind

\* Until it is replaced the destination is as it was; what replaces it has the
\* size the printer told, if it told one; and the temporary file is the download's,
\* or was left by it.
SinkInv ==
  /\ Downloading => dest = before
  /\ cpc = "replace" => IF compared THEN written = size ELSE sizeVerified = "missing"
  /\ part = "there" => Downloading \/ command # "download" \/ ended = "stopped"
  /\ part = "stuck" => ~Downloading

FInv == PlaceInv /\ BlindInv /\ SinkInv /\ DownloadAllOrNothing

\* No command runs yet, and there is no temporary file.
LEMMA FInitInv == FInit => FInv
  BY DEF FInit, FInv, PlaceInv, BlindInv, SinkInv, DownloadAllOrNothing, Downloading

\* Each step keeps places, print and destination in line.
LEMMA FInvStep == FInv /\ [FNext]_fvars => FInv'
<1> SUFFICES ASSUME FInv, [FNext]_fvars PROVE FInv'
  OBVIOUS
<1> USE DEF FInv, PlaceInv, BlindInv, SinkInv, DownloadAllOrNothing, Downloading,
            Begin, End, Go, Here, Quiet, Local, vars, transfer, remote, locals, sink
<1>1. CASE CmdUpload
  BY <1>1 DEF CmdUpload
<1>2. CASE DryRun
  BY <1>2 DEF DryRun
<1>3. CASE PrintingThisFile
  BY <1>3 DEF PrintingThisFile
<1>4. CASE UploadFile
  BY <1>4 DEF UploadFile, fileVars
<1>5. CASE UploadEnds
  BY <1>5 DEF UploadEnds
<1>6. CASE CmdDelete
  BY <1>6 DEF CmdDelete
<1>7. CASE DeleteFile
  BY <1>7 DEF DeleteFile
<1>8. CASE CmdFiles
  BY <1>8 DEF CmdFiles
<1>9. CASE Download
  BY <1>9 DEF Download
<1>10. CASE Login
  BY <1>10 DEF Login
<1>11. CASE Retrieve
  BY <1>11 DEF Retrieve
<1>12. CASE Compare
  BY <1>12 DEF Compare
<1>13. CASE ReplaceDest
  BY <1>13 DEF ReplaceDest
<1>14. CASE CleanPart
  BY <1>14 DEF CleanPart
<1>15. CASE PrintStarts
  BY <1>15 DEF PrintStarts
<1>16. CASE PrintEnds
  BY <1>16 DEF PrintEnds
<1>17. CASE UNCHANGED fvars
  BY <1>17 DEF fvars, fileVars
<1>18. CASE Stopped
  BY <1>18 DEF Stopped
<1> QED
  BY <1>1, <1>2, <1>3, <1>4, <1>5, <1>6, <1>7, <1>8, <1>9, <1>10, <1>11, <1>12, <1>13,
     <1>14, <1>15, <1>16, <1>17, <1>18 DEF FNext, Commanding

\* The invariant holds throughout.
LEMMA FInvariance == FSpec => []FInv
  BY FInitInv, FInvStep, PTL DEF FSpec

\* A download is whole or leaves the old file; its temporary file stays only beside
\* the old one, when it was stopped or the file could not be removed.
THEOREM DownloadIsAtomic == FSpec => []DownloadAllOrNothing
<1>1. FInv => DownloadAllOrNothing
  BY DEF FInv
<1> QED
  BY <1>1, FInvariance, PTL

KeepsRunning == printing = "this" /\ remote' # remote => blind \/ cpc = "delete"

\* Whatever upload does and however often it retries, the file of a print it could
\* see is not touched.
THEOREM RunningFileIsKept == FSpec => RunningFileKept
<1>1. FInv /\ [FNext]_fvars => [KeepsRunning]_fvars
  <2> SUFFICES ASSUME FInv, FNext PROVE KeepsRunning
    OBVIOUS
  <2>1. CASE cpc \in {"store", "delete"}
    BY <2>1 DEF KeepsRunning, FInv, BlindInv
  <2>2. CASE cpc \notin {"store", "delete"}
    <3>1. UNCHANGED remote
      BY <2>2 DEF FNext, Commanding, CmdUpload, DryRun, PrintingThisFile, UploadFile, UploadEnds,
                  CmdDelete, DeleteFile, CmdFiles, Download, Login, Retrieve, Compare, ReplaceDest,
                  CleanPart, Stopped, PrintStarts, PrintEnds, Begin, Here, Quiet, vars, remote
    <3> QED
      BY <3>1 DEF KeepsRunning
  <2> QED
    BY <2>1, <2>2
<1> QED
  BY <1>1, FInvariance, PTL DEF FSpec, RunningFileKept, KeepsRunning

----------------------------------------------------------------------------
(* Snapshot. *)

\* What the steps of a process do to its own variables needs them to be functions.
ShapeInv ==
  /\ spc \in [Shooters -> Places]
  /\ exit \in [Shooters -> {"none", "saved", "pin", "refused", "config", "network", "file", "crash", "interrupted"}]
  /\ reads \in [Shooters -> Nat] /\ valid \in [Shooters -> Nat]
  /\ frame \in [Shooters -> {"none", "stale", "fresh", "page"}]
  /\ temp \in [Shooters -> {"none", "begun", "stuck", "moved"}]
  /\ DOMAIN cut = Shooters /\ DOMAIN distrust = Shooters

\* Only a process that has failed its pinned check is distrustful, and it has ended;
\* only one that may ask the streamer has asked it.
TrustInv ==
  /\ \A s \in Shooters : distrust[s] => spc[s] = "done"
  /\ \A s \in Shooters : frame[s] = "page" => spc[s] \in {"write", "replace", "report", "done"}
  /\ StreamerOnlyIfAllowed

\* There is no temporary file before it is begun, and it is moved before the report;
\* what has been moved has replaced the old output; only who has ended has a result.
TempInv ==
  /\ \A s \in Shooters : /\ spc[s] = "replace" => temp[s] = "begun"
                         /\ spc[s] = "report" => temp[s] = "moved"
                         /\ spc[s] \notin {"replace", "report", "done"} => temp[s] = "none"
  /\ \A s \in Shooters : temp[s] = "moved" => out # "old"
  /\ \A s \in Shooters : exit[s] # "none" => spc[s] = "done"

SInv == ShapeInv /\ TrustInv /\ TempInv /\ SavedOrUntouched /\ DirectIsFresh

\* Nothing is grabbed, read or written yet.
LEMMA SInitInv == SInit => SInv
  BY DEF SInit, SInv, ShapeInv, TrustInv, TempInv, StreamerOnlyIfAllowed, SavedOrUntouched,
         DirectIsFresh, Places

\* The shape of the variables.
LEMMA ShapeStep == SInv /\ [SNext]_svars => ShapeInv'
<1> SUFFICES ASSUME SInv, [SNext]_svars PROVE ShapeInv'
  OBVIOUS
<1> USE SnapshotAssumption
    DEF SnapshotAssumption, SInv, ShapeInv, Places, SAt, SGo, SEnd, Stream, Shared
<1>1. ASSUME NEW s \in Shooters, Grab(s) PROVE ShapeInv'
  BY <1>1 DEF Grab, TlsFails
<1>2. ASSUME NEW s \in Shooters, ReadFrame(s) PROVE ShapeInv'
  <2>0. UNCHANGED <<tries, temp>>
    BY <1>2 DEF ReadFrame
  <2>1. CASE GoodFrame(s)
    BY <2>0, <2>1 DEF GoodFrame, Returned
  <2>2. CASE BadFrame(s)
    BY <2>0, <2>2 DEF BadFrame
  <2>3. CASE LastFrame(s)
    BY <2>0, <2>3 DEF LastFrame, Returned
  <2>4. CASE StreamBreaks(s)
    BY <2>0, <2>4 DEF StreamBreaks, TlsFails
  <2> QED
    BY <1>2, <2>1, <2>2, <2>3, <2>4 DEF ReadFrame
<1>3. ASSUME NEW s \in Shooters, Gate(s) PROVE ShapeInv'
  BY <1>3 DEF Gate
<1>4. ASSUME NEW s \in Shooters, Inspect(s) PROVE ShapeInv'
  BY <1>4 DEF Inspect
<1>5. ASSUME NEW s \in Shooters, Remove(s) PROVE ShapeInv'
  BY <1>5 DEF Remove
<1>6. ASSUME NEW s \in Shooters, Run(s) PROVE ShapeInv'
  BY <1>6 DEF Run
<1>7. ASSUME NEW s \in Shooters, Ready(s) PROVE ShapeInv'
  BY <1>7 DEF Ready
<1>8. ASSUME NEW s \in Shooters, Capture(s) PROVE ShapeInv'
  BY <1>8 DEF Capture
<1>9. ASSUME NEW s \in Shooters, WriteTemp(s) PROVE ShapeInv'
  BY <1>9 DEF WriteTemp
<1>10. ASSUME NEW s \in Shooters, Replace(s) PROVE ShapeInv'
  BY <1>10 DEF Replace
<1>11. ASSUME NEW s \in Shooters, Report(s) PROVE ShapeInv'
  BY <1>11 DEF Report
<1>14. ASSUME NEW s \in Shooters, Interrupted(s) PROVE ShapeInv'
  BY <1>14 DEF Interrupted
<1>12. CASE StreamerComesUp \/ StreamerDies
  BY <1>12 DEF StreamerComesUp, StreamerDies, own
<1>13. CASE UNCHANGED svars
  BY <1>13 DEF svars, own
<1> QED
  BY <1>1, <1>2, <1>3, <1>4, <1>5, <1>6, <1>7, <1>8, <1>9, <1>10, <1>11, <1>12, <1>13, <1>14
  DEF SNext, Shooting

\* Trust, temporary files, output and frames.
LEMMA SnapshotStep == SInv /\ [SNext]_svars => (TrustInv /\ TempInv /\ SavedOrUntouched /\ DirectIsFresh)'
<1> DEFINE Good == TrustInv /\ TempInv /\ SavedOrUntouched /\ DirectIsFresh
<1> SUFFICES ASSUME SInv, [SNext]_svars PROVE Good'
  OBVIOUS
<1> USE SnapshotAssumption
    DEF SnapshotAssumption, SInv, ShapeInv, TrustInv, TempInv, StreamerOnlyIfAllowed, SavedOrUntouched,
        DirectIsFresh, Allowed, Places, SAt, SGo, SEnd, Stream, Shared
<1>1. ASSUME NEW s \in Shooters, Grab(s) PROVE Good'
  <2>0. UNCHANGED <<settings, frame, cut, reads, tries, temp, container, out>> /\ spc[s] = "grab"
    BY <1>1 DEF Grab
  <2>1. CASE (SGo(s, "gate") \/ SGo(s, "read")) /\ UNCHANGED distrust
    BY <2>0, <2>1
  <2>2. CASE TlsFails(s)
    <3>1. /\ distrust'[s] = settings[s].pin
          /\ settings[s].pin => spc'[s] = "done"
          /\ spc'[s] \in {"gate", "done"} /\ exit'[s] \in {"pin", exit[s]}
          /\ exit[s] = "none" /\ (exit'[s] # "none" => exit'[s] = "pin" /\ spc'[s] = "done")
      BY <2>0, <2>2 DEF TlsFails
    <3>2. distrust'[s] => spc'[s] = "done"
      BY <3>1, Zenon
    <3>3. \A r \in Shooters : r # s => spc'[r] = spc[r] /\ exit'[r] = exit[r] /\ distrust'[r] = distrust[r]
      BY <2>2 DEF TlsFails
    <3>4. TrustInv'
      <4>1. \A r \in Shooters : distrust'[r] => spc'[r] = "done"
        BY <3>2, <3>3
      <4>2. frame[s] # "page"
        BY <2>0
      <4>3. StreamerOnlyIfAllowed'
        BY <2>0, <3>1, <3>3, <4>2
      <4> QED
        BY <2>0, <3>3, <4>1, <4>2, <4>3
    <3>5. TempInv' /\ SavedOrUntouched' /\ DirectIsFresh'
      BY <2>0, <3>1, <3>3
    <3> QED
      BY <3>4, <3>5
  <2> QED
    BY <1>1, <2>1, <2>2 DEF Grab
<1>2. ASSUME NEW s \in Shooters, ReadFrame(s) PROVE Good'
  <2>0. UNCHANGED <<settings, tries, temp, container, out>> /\ spc[s] = "read"
    BY <1>2 DEF ReadFrame
  <2>1. CASE GoodFrame(s)
    BY <2>0, <2>1 DEF GoodFrame, Returned
  <2>2. CASE BadFrame(s)
    BY <2>0, <2>2 DEF BadFrame
  <2>3. CASE LastFrame(s)
    BY <2>0, <2>3 DEF LastFrame, Returned
  <2>4. CASE StreamBreaks(s)
    BY <2>0, <2>4 DEF StreamBreaks, TlsFails
  <2> QED
    BY <1>2, <2>1, <2>2, <2>3, <2>4 DEF ReadFrame
<1>3. ASSUME NEW s \in Shooters, Gate(s) PROVE Good'
  BY <1>3 DEF Gate
<1>4. ASSUME NEW s \in Shooters, Inspect(s) PROVE Good'
  BY <1>4 DEF Inspect
<1>5. ASSUME NEW s \in Shooters, Remove(s) PROVE Good'
  BY <1>5 DEF Remove
<1>6. ASSUME NEW s \in Shooters, Run(s) PROVE Good'
  BY <1>6 DEF Run
<1>7. ASSUME NEW s \in Shooters, Ready(s) PROVE Good'
  BY <1>7 DEF Ready
<1>8. ASSUME NEW s \in Shooters, Capture(s) PROVE Good'
  BY <1>8 DEF Capture
<1>9. ASSUME NEW s \in Shooters, WriteTemp(s) PROVE Good'
  BY <1>9 DEF WriteTemp
<1>10. ASSUME NEW s \in Shooters, Replace(s) PROVE Good'
  BY <1>10 DEF Replace
<1>11. ASSUME NEW s \in Shooters, Report(s) PROVE Good'
  BY <1>11 DEF Report
<1>14. ASSUME NEW s \in Shooters, Interrupted(s) PROVE Good'
  BY <1>14 DEF Interrupted
<1>12. CASE StreamerComesUp \/ StreamerDies
  BY <1>12 DEF StreamerComesUp, StreamerDies, own
<1>13. CASE UNCHANGED svars
  BY <1>13 DEF svars, own
<1> QED
  BY <1>1, <1>2, <1>3, <1>4, <1>5, <1>6, <1>7, <1>8, <1>9, <1>10, <1>11, <1>12, <1>13, <1>14
  DEF SNext, Shooting

\* The invariant holds throughout.
LEMMA SInvariance == SSpec => []SInv
<1>1. SInv /\ [SNext]_svars => SInv'
  BY ShapeStep, SnapshotStep DEF SInv
<1> QED
  BY <1>1, SInitInv, PTL DEF SSpec

\* No frame comes from a streamer without the user's leave, nor after a certificate
\* failed its pin, at whatever point of the grab that shows.
THEOREM StreamerNeedsLeave == SSpec => []StreamerOnlyIfAllowed
<1>1. SInv => StreamerOnlyIfAllowed
  BY DEF SInv, TrustInv
<1> QED
  BY <1>1, SInvariance, PTL

\* The output is a frame of the connection that was read, or the old one; who reports
\* success has put it there, and who reports anything but a file error has neither
\* touched it nor left a temporary file.
THEOREM SnapshotIsSound == SSpec => []SnapshotOrNothing
<1>1. SInv => SnapshotOrNothing
  BY DEF SInv, SnapshotOrNothing
<1> QED
  BY <1>1, SInvariance, PTL

----------------------------------------------------------------------------
(* Uploads among the other commands, and the types. *)

\* Between two uploads upload_file is at its start, whatever else ran.
BetweenInv ==
  cpc # "store" => pc = "connect" /\ attempt = 0 /\ uploaded = 0 /\ result = "none"

UInv == Inv /\ BetweenInv

\* The other commands delete the printer's file only while no upload runs.
LEMMA UInvStep == UInv /\ [FNext]_fvars => UInv'
<1> SUFFICES ASSUME UInv, [FNext]_fvars PROVE UInv'
  OBVIOUS
<1> USE SizeAssumption DEF UInv, BetweenInv
<1>1. CASE UploadFile
  <2>1. Inv'
    BY <1>1, InvStep DEF UploadFile
  <2> QED
    BY <1>1, <2>1 DEF UploadFile, fileVars
<1>2. CASE UploadEnds \/ Stopped
  BY <1>2 DEF UploadEnds, Stopped, Here, End, sink, Inv, DataTypes, ResumeOffsetExists, OffsetInv, Exists, remote
<1>3. CASE DeleteFile
  BY <1>3 DEF DeleteFile, Here, End, transfer, locals, Inv, DataTypes, ResumeOffsetExists,
     OffsetInv, Exists, remote
<1>4. ASSUME /\ UNCHANGED <<pc, attempt, uploaded, result, content, size>>
             /\ sizeVerified' \in {"unset", "matched", "missing"}
             /\ cpc' = "store" \/ cpc # "store"
      PROVE  UInv'
  BY <1>4 DEF Inv, DataTypes, ResumeOffsetExists, OffsetInv, Exists
<1>5. CASE DryRun \/ PrintingThisFile \/ Login \/ Retrieve \/ Compare \/ ReplaceDest \/ CleanPart
  <2>1. UNCHANGED <<pc, attempt, uploaded, result, content, size>> /\ cpc # "store"
    BY <1>5 DEF DryRun, PrintingThisFile, Login, Retrieve, Compare, ReplaceDest, CleanPart,
                Here, Quiet, transfer, vars, locals, remote
  <2>2. sizeVerified' \in {"unset", "matched", "missing"}
    BY <1>5 DEF DryRun, PrintingThisFile, Login, Retrieve, Compare, ReplaceDest, CleanPart, vars,
       Inv, DataTypes
  <2> QED
    BY <1>4, <2>1, <2>2
<1>6. CASE CmdUpload \/ CmdDelete \/ CmdFiles \/ Download
  BY <1>4, <1>6 DEF CmdUpload, CmdDelete, CmdFiles, Download, Begin, vars, locals, remote, Inv, DataTypes
<1>7. CASE PrintStarts \/ PrintEnds \/ UNCHANGED fvars
  BY <1>4, <1>7 DEF PrintStarts, PrintEnds, fvars, fileVars, vars, locals, remote, Inv, DataTypes
<1> QED
  BY <1>1, <1>2, <1>3, <1>5, <1>6, <1>7 DEF FNext, Commanding

\* A printer object that has served nothing yet.
LEMMA UInvInit == FInit => UInv
<1> SUFFICES ASSUME FInit PROVE UInv
  OBVIOUS
<1>1. Inv
  BY InitInv DEF FInit
<1> QED
  BY <1>1 DEF FInit, Init, UInv, BetweenInv

\* REST stays inside the printer's file, whatever commands run between uploads.
THEOREM ResumeAmongCommands == FSpec => []ResumeOffsetExists
<1>1. UInv => ResumeOffsetExists
  BY DEF UInv, Inv
<1> QED
  BY <1>1, UInvInit, UInvStep, PTL DEF FSpec

CInv == UInv /\ ContentInv /\ DeliveredWhole

\* What the printer holds of the local file survives the commands between two uploads.
LEMMA CInvStep == CInv /\ [FNext]_fvars => CInv'
<1> SUFFICES ASSUME CInv, [FNext]_fvars PROVE CInv'
  OBVIOUS
<1>0. UInv'
  BY UInvStep DEF CInv
<1> USE SizeAssumption DEF CInv
<1>1. CASE UploadFile
  <2>1. ContentInv' /\ DeliveredWhole'
    BY <1>1, ContentStep DEF UploadFile, DInv, UInv
  <2> QED
    BY <1>0, <2>1
<1>2. CASE UploadEnds \/ Stopped \/ DeleteFile
  BY <1>0, <1>2 DEF UploadEnds, Stopped, DeleteFile, Here, End, transfer, locals, remote, UInv, BetweenInv,
                    Inv, DataTypes, OffsetInv, ContentInv, DeliveredWhole, Exists
<1>4. ASSUME UNCHANGED <<pc, uploaded, result, content, size>>, cpc # "store" \/ UNCHANGED sizeVerified
      PROVE  CInv'
  BY <1>0, <1>4 DEF UInv, BetweenInv, ContentInv, DeliveredWhole
<1>5. CASE DryRun \/ PrintingThisFile \/ Login \/ Retrieve \/ Compare \/ ReplaceDest \/ CleanPart
  BY <1>4, <1>5 DEF DryRun, PrintingThisFile, Login, Retrieve, Compare, ReplaceDest, CleanPart,
                    Here, Quiet, transfer, vars, locals, remote
<1>6. CASE CmdUpload \/ CmdDelete \/ CmdFiles \/ Download
  BY <1>4, <1>6 DEF CmdUpload, CmdDelete, CmdFiles, Download, Begin, vars, locals, remote
<1>7. CASE PrintStarts \/ PrintEnds \/ UNCHANGED fvars
  BY <1>4, <1>7 DEF PrintStarts, PrintEnds, fvars, fileVars, vars, locals, remote
<1> QED
  BY <1>1, <1>2, <1>5, <1>6, <1>7 DEF FNext, Commanding

\* The same promise for every upload of a printer object that runs any uploads,
\* deletions, listings and downloads one after another.
THEOREM EveryUploadDelivers ==
  ASSUME NoTrustedPrefix
  PROVE  FSpec => []DeliveredWhole
<1>1. FInit => CInv
  BY UInvInit, InitContent DEF FInit, CInv
<1>2. CInv => DeliveredWhole
  BY DEF CInv
<1> QED
  BY <1>1, <1>2, CInvStep, PTL DEF FSpec

\* The types of the file commands.
Sizes == [what : {"absent", "old", "ours", "other"}, bytes : Nat]
FTypes ==
  /\ cpc \in {"idle", "dry", "ask", "store", "delete", "login", "retr", "size", "replace", "clean"}
  /\ command \in {"none", "upload", "delete", "files", "download"}
  /\ ended \in {"none", "ok", "file", "network", "printer", "confirm", "stopped"}
  /\ printing \in Jobs \cup {"nothing"}
  /\ dest \in Sizes /\ before \in Sizes
  /\ part \in {"none", "there", "stuck"} /\ written \in Nat /\ commands \in 0 .. MaxCommands
FFlags == blind \in BOOLEAN /\ compared \in BOOLEAN /\ attempted \in BOOLEAN

\* Every step keeps the Boolean variables Boolean.
LEMMA FlagsStep == FFlags /\ [FNext]_fvars => FFlags'
<1> SUFFICES ASSUME FFlags, [FNext]_fvars PROVE FFlags'
  OBVIOUS
<1>1. blind' \in BOOLEAN
  BY Zenon DEF FFlags, FNext, Commanding, CmdUpload, DryRun, PrintingThisFile, UploadFile,
     UploadEnds, CmdDelete,
     DeleteFile, CmdFiles, Download, Login, Retrieve, Compare, ReplaceDest, CleanPart, Stopped, PrintStarts, PrintEnds,
     Begin, Quiet, fileVars, fvars
<1>3. compared' \in BOOLEAN
  BY Zenon DEF FFlags, FNext, Commanding, CmdUpload, DryRun, PrintingThisFile, UploadFile,
     UploadEnds, CmdDelete,
     DeleteFile, CmdFiles, Download, Login, Retrieve, Compare, ReplaceDest, CleanPart, Stopped, PrintStarts, PrintEnds,
     Begin, sink, fileVars, fvars
<1>4. attempted' \in BOOLEAN
  <2>1. CASE UploadFile
    BY <2>1, AttemptedStep DEF UploadFile, FFlags, AttemptedType
  <2>2. CASE UploadEnds \/ Stopped
    BY <2>2, Zenon DEF UploadEnds, Stopped
  <2>3. CASE ~UploadFile /\ ~UploadEnds /\ ~Stopped
    BY <2>3, Zenon DEF FFlags, FNext, Commanding, CmdUpload, DryRun, PrintingThisFile, CmdDelete,
       DeleteFile, CmdFiles, Download, Login, Retrieve, Compare, ReplaceDest, CleanPart, Stopped, PrintStarts, PrintEnds,
       Begin, Quiet, transfer, locals, vars, fvars
  <2> QED
    BY <2>1, <2>2, <2>3
<1> QED
  BY <1>1, <1>3, <1>4 DEF FFlags

\* Every step keeps the other variables in their types.
LEMMA FTypesStep == FTypes /\ UInv /\ [FNext]_fvars => FTypes'
<1> SUFFICES ASSUME FTypes, UInv, [FNext]_fvars PROVE FTypes'
  OBVIOUS
<1>0. size \in Nat /\ content \in {"absent", "ours", "other"} /\ \A n \in 0 .. size : n \in Nat
  BY DEF UInv, Inv, DataTypes
<1> USE <1>0, FilesAssumption DEF FilesAssumption, FTypes, Jobs, Begin, End, Go, Here, sink
<1>1. CASE CmdUpload
  BY <1>1 DEF CmdUpload
<1>2. CASE DryRun
  BY <1>2 DEF DryRun
<1>3. CASE PrintingThisFile
  BY <1>3 DEF PrintingThisFile
<1>4. CASE UploadFile
  BY <1>4 DEF UploadFile, fileVars
<1>5. CASE UploadEnds
  BY <1>5 DEF UploadEnds
<1>6. CASE CmdDelete
  BY <1>6 DEF CmdDelete
<1>7. CASE DeleteFile
  BY <1>7 DEF DeleteFile
<1>8. CASE CmdFiles
  BY <1>8 DEF CmdFiles
<1>9. CASE Download
  BY <1>9 DEF Download
<1>10. CASE Login
  BY <1>10 DEF Login
<1>11. CASE Retrieve
  BY <1>11 DEF Retrieve
<1>12. CASE Compare
  BY <1>12 DEF Compare
<1>13. CASE ReplaceDest
  BY <1>13 DEF ReplaceDest, Local, Sizes
<1>14. CASE CleanPart
  BY <1>14 DEF CleanPart
<1>15. CASE PrintStarts
  BY <1>15 DEF PrintStarts
<1>16. CASE PrintEnds
  BY <1>16 DEF PrintEnds
<1>17. CASE UNCHANGED fvars
  BY <1>17 DEF fvars, fileVars
<1>18. CASE Stopped
  BY <1>18 DEF Stopped
<1> QED
  BY <1>1, <1>2, <1>3, <1>4, <1>5, <1>6, <1>7, <1>8, <1>9, <1>10, <1>11, <1>12, <1>13,
     <1>14, <1>15, <1>16, <1>17, <1>18 DEF FNext, Commanding

\* What the snapshots keep: a stream is read no further than it takes, and the streamer
\* not asked too often.
SRest ==
  /\ settings \in [Shooters -> Settings]
  /\ reads \in [Shooters -> 0 .. MaxReads] /\ valid \in [Shooters -> 0 .. SkipFrames + 1]
  /\ tries \in [Shooters -> 0 .. MaxTries]
  /\ container \in {"none", "starting", "up"} /\ out \in {"old", "stale", "fresh", "page"}
SPlace(s) ==
  /\ spc[s] = "done" <=> exit[s] # "none"
  /\ spc[s] \in {"grab", "read"} => valid[s] <= SkipFrames
  /\ spc[s] \in {"write", "replace"} => frame[s] # "none"
SFlags == cut \in [Shooters -> BOOLEAN] /\ distrust \in [Shooters -> BOOLEAN]

STInv == SRest /\ SFlags /\ \A s \in Shooters : SPlace(s)

\* One entry of a table of flags is set.
LEMMA SetFlag ==
  ASSUME NEW S, NEW f \in [S -> BOOLEAN], NEW s, NEW v \in BOOLEAN
  PROVE  [f EXCEPT ![s] = v] \in [S -> BOOLEAN]
  OBVIOUS

\* The two histories stay tables of flags.
LEMMA SFlagsStep == SFlags /\ SRest /\ [SNext]_svars => SFlags'
<1> SUFFICES ASSUME SFlags, SRest, [SNext]_svars PROVE SFlags'
  OBVIOUS
<1>1. cut' = cut \/ \E s \in Shooters : cut' = [cut EXCEPT ![s] = TRUE]
  BY Zenon DEF SNext, Shooting, Grab, ReadFrame, GoodFrame, BadFrame, LastFrame, StreamBreaks,
     Gate, Inspect,
     Remove, Run, Ready, Capture, WriteTemp, Replace, Report, Interrupted, StreamerComesUp, StreamerDies, Stream, own, svars
<1>2. distrust' = distrust \/ \E s \in Shooters : distrust' = [distrust EXCEPT ![s] = settings[s].pin]
  BY Zenon DEF SNext, Shooting, Grab, ReadFrame, GoodFrame, BadFrame, LastFrame, StreamBreaks,
     TlsFails, Gate,
     Inspect, Remove, Run, Ready, Capture, WriteTemp, Replace, Report, Interrupted, StreamerComesUp, StreamerDies, Stream,
     own, svars
<1>3. \A s \in Shooters : settings[s].pin \in BOOLEAN
  BY DEF SRest, Settings
<1> QED
  BY <1>1, <1>2, <1>3, SetFlag, Zenon DEF SFlags

\* Counts and shared things stay in their types.
LEMMA SRestStep == SInv /\ STInv /\ [SNext]_svars => SRest'
<1> SUFFICES ASSUME SInv, STInv, [SNext]_svars PROVE SRest'
  OBVIOUS
<1> USE SnapshotAssumption
    DEF SnapshotAssumption, SInv, ShapeInv, STInv, SRest, SPlace, SAt, Stream, Shared
<1>1. ASSUME NEW s \in Shooters, Grab(s) PROVE SRest'
  BY <1>1 DEF Grab
<1>2. ASSUME NEW s \in Shooters, ReadFrame(s) PROVE SRest'
  <2>0. UNCHANGED <<settings, tries, container, out>> /\ spc[s] = "read"
    BY <1>2 DEF ReadFrame
  <2>1. CASE GoodFrame(s)
    BY <2>0, <2>1 DEF GoodFrame
  <2>2. CASE BadFrame(s)
    BY <2>0, <2>2 DEF BadFrame
  <2>3. CASE LastFrame(s)
    BY <2>0, <2>3 DEF LastFrame
  <2>4. CASE StreamBreaks(s)
    BY <2>0, <2>4 DEF StreamBreaks
  <2> QED
    BY <1>2, <2>1, <2>2, <2>3, <2>4 DEF ReadFrame
<1>3. ASSUME NEW s \in Shooters, Gate(s) \/ Inspect(s) \/ WriteTemp(s) \/ Report(s) \/ Interrupted(s) PROVE SRest'
  BY <1>3 DEF Gate, Inspect, WriteTemp, Report, Interrupted
<1>5. ASSUME NEW s \in Shooters, Remove(s) \/ Run(s) PROVE SRest'
  BY <1>5 DEF Remove, Run
<1>7. ASSUME NEW s \in Shooters, Ready(s) PROVE SRest'
  BY <1>7 DEF Ready
<1>8. ASSUME NEW s \in Shooters, Capture(s) PROVE SRest'
  BY <1>8 DEF Capture
<1>10. ASSUME NEW s \in Shooters, Replace(s) PROVE SRest'
  BY <1>10 DEF Replace
<1>12. CASE StreamerComesUp \/ StreamerDies
  BY <1>12 DEF StreamerComesUp, StreamerDies, own
<1>13. CASE UNCHANGED svars
  BY <1>13 DEF svars, own
<1> QED
  BY <1>1, <1>2, <1>3, <1>5, <1>7, <1>8, <1>10, <1>12, <1>13 DEF SNext, Shooting

\* A process has ended just when it has a result, reads no frame too many, and
\* writes one it has.
LEMMA SPlaceStep ==
  ASSUME SInv, STInv, [SNext]_svars, NEW q \in Shooters
  PROVE  SPlace(q)'
<1> USE SnapshotAssumption
    DEF SnapshotAssumption, SInv, ShapeInv, STInv, SRest, SPlace, SAt, SGo, SEnd, Stream, Places
<1>1. ASSUME NEW s \in Shooters, Grab(s) PROVE SPlace(q)'
  BY <1>1 DEF Grab, TlsFails
<1>2. ASSUME NEW s \in Shooters, ReadFrame(s) PROVE SPlace(q)'
  <2>0. spc[s] = "read"
    BY <1>2 DEF ReadFrame
  <2>1. CASE GoodFrame(s)
    BY <2>0, <2>1 DEF GoodFrame, Returned
  <2>2. CASE BadFrame(s)
    BY <2>0, <2>2 DEF BadFrame
  <2>3. CASE LastFrame(s)
    BY <2>0, <2>3 DEF LastFrame, Returned
  <2>4. CASE StreamBreaks(s)
    BY <2>0, <2>4 DEF StreamBreaks, TlsFails
  <2> QED
    BY <1>2, <2>1, <2>2, <2>3, <2>4 DEF ReadFrame
<1>3. ASSUME NEW s \in Shooters, Gate(s) PROVE SPlace(q)'
  BY <1>3 DEF Gate
<1>4. ASSUME NEW s \in Shooters, Inspect(s) PROVE SPlace(q)'
  BY <1>4 DEF Inspect
<1>5. ASSUME NEW s \in Shooters, Remove(s) \/ Run(s) PROVE SPlace(q)'
  BY <1>5 DEF Remove, Run
<1>7. ASSUME NEW s \in Shooters, Ready(s) PROVE SPlace(q)'
  BY <1>7 DEF Ready
<1>8. ASSUME NEW s \in Shooters, Capture(s) PROVE SPlace(q)'
  BY <1>8 DEF Capture
<1>9. ASSUME NEW s \in Shooters, WriteTemp(s) PROVE SPlace(q)'
  BY <1>9 DEF WriteTemp
<1>10. ASSUME NEW s \in Shooters, Replace(s) PROVE SPlace(q)'
  BY <1>10 DEF Replace
<1>11. ASSUME NEW s \in Shooters, Report(s) PROVE SPlace(q)'
  BY <1>11 DEF Report
<1>14. ASSUME NEW s \in Shooters, Interrupted(s) PROVE SPlace(q)'
  BY <1>14 DEF Interrupted
<1>12. CASE StreamerComesUp \/ StreamerDies
  BY <1>12 DEF StreamerComesUp, StreamerDies, own
<1>13. CASE UNCHANGED svars
  BY <1>13 DEF svars, own
<1> QED
  BY <1>1, <1>2, <1>3, <1>4, <1>5, <1>7, <1>8, <1>9, <1>10, <1>11, <1>12, <1>13, <1>14
  DEF SNext, Shooting

FilesInv == UInv /\ FFlags /\ FTypes /\ SInv /\ STInv

\* The printer object and the processes as they start.
LEMMA FilesInit == FInit /\ SInit => FilesInv
<1> SUFFICES ASSUME FInit, SInit PROVE FilesInv
  OBVIOUS
<1>1. UInv /\ SInv
  BY UInvInit, SInitInv
<1>2. FFlags
  BY Zenon DEF FInit, Init, FFlags
<1>3. FTypes
  BY FilesAssumption DEF FilesAssumption, FInit, FTypes, Local, Sizes
<1>4. SFlags
  BY Zenon DEF SInit, SFlags
<1>5. SRest /\ \A s \in Shooters : SPlace(s)
  BY SnapshotAssumption DEF SnapshotAssumption, SInit, SRest, SPlace
<1> QED
  BY <1>1, <1>2, <1>3, <1>4, <1>5 DEF FilesInv, STInv

\* The file commands and the snapshots, every variable in its type: the attempts of an
\* upload, the headers and frames of a stream and the tries for a streamer are bounded.
THEOREM FilesTypeCorrect == MCSpec => []FilesTypes
<1>1. MCInit => FilesInv
  BY FilesInit DEF MCInit
<1>2. FilesInv /\ [MCNext]_all => FilesInv'
  <2> SUFFICES ASSUME FilesInv, [MCNext]_all PROVE FilesInv'
    OBVIOUS
  <2>1. [FNext]_fvars /\ [SNext]_svars
    BY DEF MCNext, all
  <2>2. UInv' /\ FFlags' /\ FTypes'
    BY <2>1, UInvStep, FlagsStep, FTypesStep DEF FilesInv
  <2>3. SInv'
    BY <2>1, ShapeStep, SnapshotStep DEF FilesInv, SInv
  <2>4. SFlags' /\ SRest'
    BY <2>1, SFlagsStep, SRestStep DEF FilesInv, STInv
  <2>5. \A q \in Shooters : SPlace(q)'
    BY <2>1, SPlaceStep DEF FilesInv
  <2> QED
    BY <2>2, <2>3, <2>4, <2>5 DEF FilesInv, STInv
<1>3. FilesInv => FilesTypes
  <2> SUFFICES ASSUME FilesInv PROVE FilesTypes
    OBVIOUS
  <2>1. TypeOK
    BY DEF FilesInv, UInv, Inv, FFlags, TypeOK
  <2>2. FTypeOK
    <3>1. {blind, compared} \subseteq BOOLEAN
      BY Zenon DEF FilesInv, FFlags
    <3> QED
      BY <3>1 DEF FilesInv, FTypes, Sizes, UInv, BetweenInv, FTypeOK
  <2>3. STypeOK
    <3>1. {cut, distrust} \subseteq [Shooters -> BOOLEAN]
      BY Zenon DEF FilesInv, STInv, SFlags
    <3> QED
      BY <3>1 DEF FilesInv, SInv, ShapeInv, STInv, SRest, SPlace, STypeOK
  <2> QED
    BY <2>1, <2>2, <2>3 DEF FilesTypes
<1> QED
  BY <1>1, <1>2, <1>3, PTL DEF MCSpec
=============================================================================
