------------------------------- MODULE Wizard -------------------------------
(***************************************************************************)
(* plate go: cmd_go (interactive/session.py) and the prepare pipeline of   *)
(* interactive/core.py.  One action per prompt or step; the user or Ctrl-C *)
(* may stop it at any of them, and the finally of _run_go cleans up.       *)
(*                                                                         *)
(* The printer's AMS may show anything at each read.  Wording, presets and *)
(* the printer question's text are left out; the job is JobPipeline.       *)
(***************************************************************************)
EXTENDS AmsFeed

CONSTANTS
  Readings,  \* what the AMS may show
  Sources    \* of the file: a url, or a local model, archive or printer-ready file

ASSUME SourcesAssumption == Sources \subseteq {"url", "model", "archive", "ready"}

MaxAttempts == 3   \* _MAX_URL_ATTEMPTS

VARIABLES
  step, exit,      \* the step to take next; how the wizard ended
  configured,      \* the printer has an address
  attempt,         \* sources asked for
  source, file,    \* the source given; the kind of file the pipeline holds
  at,              \* where that file is
  own,             \* the user's own local file is where it was
  dir,             \* the temporary working directory exists
  material, det,   \* the material chosen, the detection it was offered with
  sliced,          \* the file was sliced here, for that material
  starts,          \* the job is to start the print
  delivered,       \* the job succeeded
  shown, fed       \* history: the report of the detection; the print sent

wvars == <<step, exit, configured, attempt, source, file, at, own, dir, material, det,
          sliced, starts, delivered, shown, fed>>

NotFed == [slot |-> Nothing, checked |-> Nothing]
WKinds == {"none", "model", "archive", "ready", "printable"}
Places == {"nowhere", "own", "inside", "moved", "kept"}

WInit ==
  /\ step = "preflight" /\ exit = "running"
  /\ configured \in BOOLEAN
  /\ attempt = 0 /\ source = "none" /\ file = "none" /\ at = "nowhere"
  /\ own = TRUE /\ dir = FALSE
  /\ material = Default /\ det = NoDetection /\ sliced = FALSE
  /\ starts = FALSE /\ delivered = FALSE
  /\ shown = Nothing /\ fed = NotFed

asked  == <<configured, attempt, source>>
work   == <<file, at, own, dir, sliced>>
choice == <<material, det, shown>>
job    == <<starts, delivered, fed>>

\* The finally of _run_go follows every way out.
Leave(how) == step' = "cleanup" /\ exit' = how
Go(next) == step' = next /\ UNCHANGED exit

----------------------------------------------------------------------------

\* No printer: setup is offered, and its result is looked at, not trusted.
Preflight ==
  /\ step = "preflight"
  /\ \/ configured /\ UNCHANGED configured
     \/ ~configured /\ configured' \in BOOLEAN
  /\ \/ configured' /\ Go("source")
     \/ Leave("failed")                    \* still no address, or no usable slicer
  /\ UNCHANGED <<attempt, source, work, choice, job>>

AskSource ==
  /\ step = "source"
  /\ \/ attempt < MaxAttempts /\ source' \in Sources /\ Go("printer") /\ UNCHANGED attempt
     \/ /\ attempt < MaxAttempts
        /\ attempt' = attempt + 1 /\ UNCHANGED <<source, step, exit>>
     \/ attempt = MaxAttempts /\ Leave("failed") /\ UNCHANGED <<attempt, source>>
  /\ UNCHANGED <<configured, work, choice, job>>

AskPrinter ==
  /\ step = "printer"
  /\ Go("detect") \/ Leave("done")
  /\ UNCHANGED <<asked, work, choice, job>>

DetectMaterial ==
  /\ step = "detect"
  /\ shown' \in Readings \cup {Nothing}
  /\ det' = Detect(shown')
  /\ Go("material")
  /\ UNCHANGED <<asked, work, material, job>>

\* Material, quality and supports; the detected material is the default.
AskPresets ==
  /\ step = "material"
  /\ material' \in Materials
  /\ Go("prepare")
  /\ UNCHANGED <<asked, work, det, shown, job>>

\* _step_prepare makes the directory; a URL is downloaded, a local file used in place.
Fetch ==
  /\ step = "prepare"
  /\ dir' = TRUE
  /\ \/ /\ source = "url"
        /\ \/ file' \in {"model", "ready"} /\ at' = "inside" /\ Go("extract")
           \/ Leave("failed") /\ UNCHANGED <<file, at>>
     \/ source # "url" /\ file' = source /\ at' = "own" /\ Go("extract")
  /\ UNCHANGED <<asked, own, sliced, choice, job>>

Extract ==
  /\ step = "extract"
  /\ \/ file # "archive" /\ Go("slice") /\ UNCHANGED <<file, at>>
     \/ file = "archive" /\ file' \in {"model", "ready"} /\ at' = "inside" /\ Go("slice")
     \/ file = "archive" /\ Leave("failed") /\ UNCHANGED <<file, at>>
  /\ UNCHANGED <<asked, own, dir, sliced, choice, job>>

\* A printer-ready file is taken as it is, without the material.
Slice ==
  /\ step = "slice"
  /\ \/ /\ file = "model"
        /\ \/ file' = "printable" /\ at' = "inside" /\ sliced' = TRUE /\ Go("confirm")
           \/ Leave("failed") /\ UNCHANGED <<file, at, sliced>>
     \/ file # "model" /\ Go("confirm") /\ UNCHANGED <<file, at, sliced>>
  /\ UNCHANGED <<asked, own, dir, choice, job>>

----------------------------------------------------------------------------

\* preserve_printable: only a file inside the directory is moved out; where that
\* fails it stays, and cleanup_workdir spares the directory.
Preserve ==
  /\ \/ at # "inside" /\ UNCHANGED at
     \/ at = "inside" /\ at' \in {"moved", "kept"}
  /\ UNCHANGED own

\* Start now, only upload, or neither.
AskConfirm ==
  /\ step = "confirm"
  /\ \/ starts' \in BOOLEAN /\ Go("check") /\ UNCHANGED <<at, own>>
     \/ Preserve /\ Leave("done") /\ UNCHANGED starts
  /\ UNCHANGED <<asked, file, dir, sliced, choice, delivered, fed>>

State == [material |-> material, det |-> det]

\* ams_change_problem; fed.checked is the report the print may rely on.
CheckAms ==
  /\ step = "check"
  /\ \E rep \in Readings \cup {Nothing} :
       \/ /\ starts /\ ChangeProblem(State, rep)
          /\ Preserve /\ Leave("failed") /\ UNCHANGED fed
       \/ /\ ~(starts /\ ChangeProblem(State, rep))
          /\ fed' = [fed EXCEPT !.checked = IF FeedSlot(State) = Nothing THEN @ ELSE rep]
          /\ Go("job") /\ UNCHANGED <<at, own>>
  /\ UNCHANGED <<asked, file, dir, sliced, choice, starts, delivered>>

\* Bug: a failed upload costs the slice.
RunJobLosing ==
  /\ step = "job"
  /\ fed' = IF starts THEN [fed EXCEPT !.slot = FeedSlot(State)] ELSE fed
  /\ \/ delivered' = TRUE /\ Leave("done")
     \/ Leave("failed") /\ UNCHANGED delivered
  /\ UNCHANGED <<asked, work, choice, starts>>

\* cmd_job.  A failure keeps the file as a decline does.
RunJob ==
  /\ step = "job"
  /\ fed' = IF starts THEN [fed EXCEPT !.slot = FeedSlot(State)] ELSE fed
  /\ \/ delivered' = TRUE /\ Leave("done") /\ UNCHANGED <<at, own>>
     \/ Preserve /\ Leave("failed") /\ UNCHANGED delivered
  /\ UNCHANGED <<asked, file, dir, sliced, choice, starts>>

\* A prompt is aborted, or Ctrl-C.
Stop ==
  /\ step \notin {"cleanup", "over"}
  /\ Leave("stopped")
  /\ UNCHANGED <<asked, work, choice, job>>

\* cleanup_workdir
Cleanup ==
  /\ step = "cleanup"
  /\ dir' = (dir /\ at = "kept")
  /\ step' = "over"
  /\ UNCHANGED <<exit, asked, file, at, own, sliced, choice, job>>

Ask == AskSource \/ AskPrinter \/ AskPresets \/ AskConfirm
Prepare == Fetch \/ Extract \/ Slice
Work == Preflight \/ DetectMaterial \/ Prepare \/ CheckAms \/ RunJob \/ Cleanup

WNext == Ask \/ Work \/ Stop

WSpec == WInit /\ [][WNext]_wvars

----------------------------------------------------------------------------

WTypeOK ==
  /\ step \in {"preflight", "source", "printer", "detect", "material", "prepare", "extract",
               "slice", "confirm", "check", "job", "cleanup", "over"}
  /\ exit \in {"running", "done", "failed", "stopped"}
  /\ configured \in BOOLEAN /\ own \in BOOLEAN /\ dir \in BOOLEAN
  /\ sliced \in BOOLEAN /\ starts \in BOOLEAN /\ delivered \in BOOLEAN
  /\ attempt \in 0..MaxAttempts /\ source \in Sources \cup {"none"}
  /\ file \in WKinds /\ at \in Places
  /\ material \in Materials /\ det.material \in Materials \cup {Nothing}

\* A finished slice survives a failure and a decline (session.py: "losing it to a
\* flaky upload would waste the minutes it took"): it is on the printer or kept.
SliceSurvives ==
  step = "over" /\ sliced /\ exit # "stopped" => delivered \/ at \in {"moved", "kept"}

\* The working directory is gone at the end, however the wizard ended, unless the
\* file could not be moved out of it.
NoWorkdirLeft == step = "over" /\ dir => at = "kept"

\* The user's own file is never moved (core.py: "never move or overwrite").
OwnFileStays == own

\* An archive never reaches the printer as it is: its model is sliced with the
\* material chosen (core.py: "silently discarding the chosen material").
ArchiveIsOpened == step \in {"confirm", "check", "job"} => file \in {"printable", "ready"}

\* However the wizard ends, the user's file, the slice and the disk are as they should be.
WorkKept == SliceSurvives /\ NoWorkdirLeft /\ OwnFileStays /\ ArchiveIsOpened

\* A tray offered for the print was active in the report, with that material.
DetectionIsReal ==
  det.slot # Nothing =>
    /\ shown # Nothing /\ shown.now = det.slot
    /\ shown.tray[det.slot] = det.material

\* A print that feeds from the AMS started after a second read that still showed
\* that tray active, with the material chosen.
WizardFedAsPrepared ==
  fed.slot # Nothing =>
    /\ fed.checked # Nothing
    /\ fed.checked.now = fed.slot
    /\ fed.checked.tray[fed.slot] = material
=============================================================================
