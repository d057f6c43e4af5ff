---------------------------- MODULE JobPipeline ----------------------------
(***************************************************************************)
(* plate job / send --json (job/orchestrate.py _run_job with its helpers in*)
(* job/support.py and job/predict.py, and the envelope written by          *)
(* cli.py): download -> extract -> slice -> upload -> print, as an agent   *)
(* drives it: an optional --dry-run first, the real run, a retry while the *)
(* envelope says printed: false, and the next_command of a job that only   *)
(* uploaded (plate print, commands/print_cmd.py).  Any step may fail, and  *)
(* Ctrl-C may arrive at any step.                                          *)
(*                                                                         *)
(* The four step handlers are seen from the pipeline: they succeed, refuse *)
(* the file, or fail.  External: the network, OrcaSlicer, which when it    *)
(* succeeds writes a 3MF with plate 1 within the heater limits, and the    *)
(* printer, which rejects a plate that its file does not have.  The answer *)
(* of a print start is PrintStart's verdict, without the late connection   *)
(* that module refutes.  Left out: checks of names and options that both   *)
(* runs make first and alike, BAMBU_KEEP_WORKDIR, Ctrl-C during clean-up.  *)
(***************************************************************************)
EXTENDS Naturals, FiniteSets

CONSTANTS
  Sources,    \* where the model is: "local", "url"
  Archived,   \* whether it is inside a ZIP archive
  MaxRuns     \* bound: commands the agent runs

ASSUME JobAssumption ==
  /\ Sources \subseteq {"local", "url"}
  /\ Archived \subseteq BOOLEAN
  /\ MaxRuns \in Nat

VARIABLES
  source, guess, args, \* the request; guess is the kind a URL shows offline
  given,               \* the file the source denotes
  mode, runs,          \* the command the agent runs, and how many it ran
  pc, file, leftover,  \* _run_job: the file in hand, a private workdir on disk
  plate, sliced,       \* plate: the summary's, or 0
  outcome, raised,     \* how the command ended; fields of the raised error
  envelope, emitted,   \* what stdout carries
  preview,             \* what the last --dry-run announced
  remote, asked,       \* plates of the uploaded file; plate the printer was sent
  started, ended       \* jobs the printer took, and those of them it failed

request == <<source, guess, args, given>>
agent   == <<mode, runs, preview>>
work    == <<file, leftover, plate, sliced>>
report  == <<outcome, raised, envelope, emitted>>
printer == <<remote, asked, started, ended>>
vars == <<request, agent, pc, work, report, printer>>

Plates == {1, 2}
Kinds  == {"model", "3mf", "gcode", "other"}

\* A 3MF may hold no sliced plate; only G-code can exceed the heater limits.
Files ==
  { f \in [kind: Kinds, archived: BOOLEAN, plates: SUBSET Plates,
           empty: BOOLEAN, hot: BOOLEAN] :
      /\ f.kind # "3mf" => f.plates = {}
      /\ f.empty => f.plates = {} /\ ~f.hot
      /\ f.hot => f.kind = "gcode" \/ f.plates # {} }

Args == [plate: {0} \cup Plates, confirm: BOOLEAN, uploadOnly: BOOLEAN,
         output: {"none", "ok", "bad"}]

Fields  == [printed: {"absent", "false", "null", "true"}, code: BOOLEAN]
Silent  == [printed |-> "absent", code |-> FALSE]
PCs == {"idle", "source", "download", "extract", "classify", "slice", "upload",
        "uploaded", "print", "finally", "main"}

TypeOK ==
  /\ source \in Sources /\ guess \in Kinds \cup {"zip"} /\ args \in Args
  /\ given \in Files /\ file \in Files
  /\ mode \in {"none", "dry", "real", "print"} /\ runs \in 0..MaxRuns
  /\ pc \in PCs
  /\ leftover \in BOOLEAN /\ sliced \in BOOLEAN
  /\ plate \in {0} \cup Plates /\ asked \in {0} \cup Plates
  /\ outcome \in {"none", "ok", "refused", "failed", "interrupted"}
  /\ raised \in Fields
  /\ envelope \in [status: {"none", "ok", "error"}, fields: Fields]
  /\ emitted \in 0..1
  /\ preview \in [ok: BOOLEAN, slice: {"yes", "no", "unsaid"}, print: BOOLEAN]
  /\ remote \subseteq Plates
  /\ started \in 0..MaxRuns /\ ended \in 0..started

\* A direct link shows the kind of its file; a model page or an ?id= link shows
\* none and is taken for a model.
Guesses(s, f) ==
  IF s = "url" THEN {"model", IF f.archived THEN "zip" ELSE f.kind} ELSE {f.kind}

Init ==
  /\ source \in Sources /\ args \in Args
  /\ given \in { f \in Files : f.archived \in Archived }
  /\ guess \in Guesses(source, given)
  /\ file = given
  /\ mode = "none" /\ runs = 0 /\ pc = "idle"
  /\ leftover = FALSE /\ sliced = FALSE /\ plate = 0
  /\ outcome = "none" /\ raised = Silent
  /\ envelope = [status |-> "none", fields |-> Silent] /\ emitted = 0
  /\ preview = [ok |-> FALSE, slice |-> "no", print |-> FALSE]
  /\ remote = {} /\ asked = 0 /\ started = 0 /\ ended = 0

----------------------------------------------------------------------------
(* Helpers. *)

Dry == mode = "dry"
WouldPrint == args.confirm /\ ~args.uploadOnly
PlainFields(p) == [printed |-> p, code |-> FALSE]

\* emit_json: one JSON document on stdout.
Emit(status, fields) ==
  /\ envelope' = [status |-> status, fields |-> fields]
  /\ emitted' = emitted + 1

\* _emit_job_ok, then return.
Succeed(printed) ==
  /\ outcome' = "ok" /\ UNCHANGED raised
  /\ Emit("ok", PlainFields(printed))
  /\ pc' = "finally"

\* _emit_job_failure, then raise.
FailJob(how, fields) ==
  /\ outcome' = how /\ raised' = Silent
  /\ Emit("error", fields)
  /\ pc' = "finally"

\* _job_fail: the request or its file is not acceptable.
Refuse == FailJob("refused", PlainFields("false"))

\* A step's handler raised: the network, the slicer, the disk.
StepFailed == FailJob("failed", PlainFields("false"))

\* _ext_would_slice, the predicate both runs share.
WouldSlice(kind) == kind = "model"

\* A --dry-run that found nothing wrong.  A ZIP behind a URL stays unopened.
Preview(kind) ==
  /\ preview' = [ok |-> TRUE, print |-> WouldPrint,
                 slice |-> IF kind = "zip" THEN "unsaid"
                           ELSE IF WouldSlice(kind) THEN "yes" ELSE "no"]
  /\ Succeed("false")

Continue(l) == pc' = l /\ UNCHANGED report

----------------------------------------------------------------------------
(* The agent. *)

MayRun(m) ==
  \/ m = "dry"  /\ mode = "none"
  \/ m = "real" /\ mode = "none"
  \/ m = "real" /\ mode = "dry" /\ outcome = "ok"
  \/ /\ m = "real" /\ mode = "real" /\ envelope.status = "error"
     /\ envelope.fields.printed = "false"
  \/ /\ m = "print" /\ mode = "real" /\ outcome = "ok"
     /\ envelope.fields.printed = "false"

\* cli.main starts a command.  next_command carries the summary's plate, or the
\* request's when the job chose none; print defaults to plate 1.
Run(m) ==
  /\ pc = "idle" /\ runs < MaxRuns /\ MayRun(m)
  /\ mode' = m /\ runs' = runs + 1
  /\ pc' = IF m = "print" THEN "print" ELSE "source"
  /\ IF m = "print" THEN UNCHANGED <<file, plate, sliced>>
                    ELSE file' = given /\ plate' = 0 /\ sliced' = FALSE
  /\ outcome' = "none" /\ raised' = Silent
  /\ envelope' = [status |-> "none", fields |-> Silent] /\ emitted' = 0
  /\ UNCHANGED <<request, preview, leftover, printer>>

----------------------------------------------------------------------------
(* _run_job. *)

\* A URL under --dry-run: nothing is fetched, everything is predicted.
PreviewUrl ==
  /\ pc = "source" /\ source = "url" /\ Dry
  /\ IF guess = "other" \/ args.output = "bad"
     THEN Refuse /\ UNCHANGED preview
     ELSE Preview(guess)
  /\ UNCHANGED <<request, mode, runs, work, printer>>

\* A URL in a real run: the output directory, or a private one.
PrepareDownload ==
  /\ pc = "source" /\ source = "url" /\ ~Dry
  /\ leftover' = (args.output = "none")
  /\ IF args.output = "bad" THEN Refuse ELSE Continue("download")
  /\ UNCHANGED <<request, agent, file, plate, sliced, printer>>

\* The download step extracts a ZIP itself, and refuses what is empty or of
\* another type.
Download ==
  /\ pc = "download"
  /\ \/ StepFailed /\ UNCHANGED file
     \/ /\ given.kind # "other" /\ ~given.empty
        /\ file' = [given EXCEPT !.archived = FALSE]
        /\ Continue("classify")
  /\ UNCHANGED <<request, agent, leftover, plate, sliced, printer>>

\* A local file.  Only what will be sliced or extracted needs a directory.
OpenLocal ==
  /\ pc = "source" /\ source = "local"
  /\ LET needsDir == WouldSlice(given.kind) \/ given.archived IN
       /\ leftover' = (needsDir /\ args.output = "none" /\ ~Dry)
       /\ \/ needsDir /\ args.output = "bad" /\ Refuse
          \/ /\ ~(needsDir /\ args.output = "bad")
             /\ Continue(IF given.archived THEN "extract" ELSE "classify")
  /\ UNCHANGED <<request, agent, file, plate, sliced, printer>>

\* No supported, non-empty member; or, under --dry-run only, a member over the
\* heater limits.
MemberRefused ==
  \/ file.kind = "other" \/ file.empty
  \/ Dry /\ file.hot

\* A ZIP archive: select the member, and stop there under --dry-run.
Extract ==
  /\ pc = "extract"
  /\ \/ MemberRefused /\ Refuse /\ UNCHANGED <<preview, file>>
     \/ ~MemberRefused /\ Dry /\ Preview(file.kind) /\ UNCHANGED file
     \/ ~MemberRefused /\ ~Dry /\ StepFailed /\ UNCHANGED <<preview, file>>
     \/ /\ ~MemberRefused /\ ~Dry
        /\ file' = [file EXCEPT !.archived = FALSE]
        /\ Continue("classify") /\ UNCHANGED preview
  /\ UNCHANGED <<request, mode, runs, leftover, plate, sliced, printer>>

\* Bug: a --plate the 3MF does not have falls back instead of failing.
ChoosePlateAnyway(p) ==
  p = IF args.plate # 0 THEN args.plate ELSE IF 1 \in file.plates THEN 1 ELSE 2

\* _choose_plate: the requested plate, else plate 1, else the first one sliced.
ChoosePlate(p) ==
  /\ p \in file.plates
  /\ args.plate # 0 => p = args.plate
  /\ args.plate = 0 /\ 1 \in file.plates => p = 1

\* What both runs refuse of a file that needs no further extraction.
Acceptable ==
  \/ file.kind = "model" /\ args.plate \in {0, 1}
  \/ file.kind = "3mf" /\ \E p \in Plates : ChoosePlate(p)
  \/ file.kind = "gcode"

\* Bug: --dry-run skips the checks the upload will make.
DryRefusedNever == FALSE

\* What --dry-run refuses on behalf of the slicer and of the upload.
DryRefused == file.empty \/ file.hot

\* The slice branch and the print-ready branch, up to their first step.
Classify ==
  /\ pc = "classify"
  /\ \/ ~Acceptable /\ Refuse /\ UNCHANGED <<preview, plate>>
     \/ /\ Acceptable
        /\ IF file.kind = "3mf" THEN \E p \in Plates : ChoosePlate(p) /\ plate' = p
                              ELSE UNCHANGED plate
        /\ \/ Dry /\ DryRefused /\ Refuse /\ UNCHANGED preview
           \/ Dry /\ ~DryRefused /\ Preview(file.kind)
           \/ ~Dry /\ WouldSlice(file.kind) /\ Continue("slice") /\ UNCHANGED preview
           \/ ~Dry /\ ~WouldSlice(file.kind) /\ Continue("upload") /\ UNCHANGED preview
  /\ UNCHANGED <<request, mode, runs, file, leftover, sliced, printer>>

\* The slice step.  An empty model never slices.
Slice ==
  /\ pc = "slice"
  /\ \/ StepFailed /\ UNCHANGED <<file, sliced>>
     \/ /\ ~file.empty
        /\ file' = [file EXCEPT !.kind = "3mf", !.plates = {1}]
        /\ sliced' = TRUE
        /\ Continue("upload")
  /\ UNCHANGED <<request, agent, leftover, plate, printer>>

UploadRefuses == file.empty \/ file.hot

\* A file the printer already held may survive, be deleted, or be replaced.
RemoteAfterFailure == IF UploadRefuses THEN {remote} ELSE {remote, {}, file.plates}

\* The upload step: refuses an empty or a hot file; it fails for one the printer
\* is printing, and may fail at any byte.
Upload ==
  /\ pc = "upload"
  /\ \/ UploadRefuses /\ Refuse /\ UNCHANGED <<remote, asked>>
     \/ /\ ~UploadRefuses /\ StepFailed
        /\ remote' \in RemoteAfterFailure /\ UNCHANGED asked
     \/ /\ ~UploadRefuses /\ Continue("uploaded")
        /\ remote' = file.plates /\ asked' = 0
  /\ UNCHANGED <<request, agent, work, started, ended>>

\* --upload-only, or no --confirm: done, with a next_command.
Uploaded ==
  /\ pc = "uploaded"
  /\ IF WouldPrint THEN Continue("print") ELSE Succeed("false")
  /\ UNCHANGED <<request, agent, work, printer>>

(* The print step, of a job or of its own. *)

Verdicts == {"unsent", "unconfirmed", "rejected", "failed", "started"}

\* The plate in the payload.
PrintPlate == IF plate # 0 THEN plate ELSE IF args.plate # 0 THEN args.plate ELSE 1

\* What the printer may have done when the verdict is v.
Outcome(v) ==
  /\ asked' = IF v = "unsent" THEN asked ELSE PrintPlate
  /\ started' \in IF v \in {"started", "failed"} THEN {started + 1}
                  ELSE IF v = "unconfirmed" THEN {started, started + 1} ELSE {started}
  /\ ended' = IF v = "failed" THEN ended + 1 ELSE ended

\* record_error_detail: what execute_print_command notes about a failure.
Recorded(v) == [printed |-> IF v = "unconfirmed" THEN "null" ELSE "false",
                code    |-> v = "failed"]

\* The error it raises carries those fields only when the answer never came.
Raised(v) == IF v = "unconfirmed" THEN Recorded(v) ELSE Silent

\* Bug: a command that went out unanswered is reported as not printed.
SummaryAfterFlat(v) == [printed |-> "false", code |-> FALSE]

\* _last_error_for prefers the raised error to the recorded detail; printed is
\* None when it says the command was sent.
SummaryAfter(v) ==
  [printed |-> IF Raised(v).printed = "null" THEN "null" ELSE "false",
   code    |-> Raised(v).code]

StartPrint ==
  /\ pc = "print"
  /\ \E v \in Verdicts :
       /\ Outcome(v)
       /\ \/ v = "started" /\ mode = "real" /\ Succeed("true")
          \/ /\ v = "started" /\ mode = "print"
             /\ outcome' = "ok" /\ Emit("ok", PlainFields("true"))
             /\ pc' = "main" /\ UNCHANGED raised
          \/ /\ v # "started" /\ mode = "real"
             /\ FailJob("failed", SummaryAfter(v))
          \/ /\ v # "started" /\ mode = "print"
             /\ outcome' = "failed" /\ raised' = Raised(v)
             /\ pc' = "main" /\ UNCHANGED <<envelope, emitted>>
  /\ UNCHANGED <<request, agent, work, remote>>

\* Bug: only a job that worked cleans up.
FinallyOnSuccess ==
  /\ pc = "finally"
  /\ leftover' = (leftover /\ outcome # "ok")
  /\ pc' = "main"
  /\ UNCHANGED <<request, agent, file, plate, sliced, report, printer>>

\* finally: every private workdir is removed.
Finally ==
  /\ pc = "finally"
  /\ leftover' = FALSE
  /\ pc' = "main"
  /\ UNCHANGED <<request, agent, file, plate, sliced, report, printer>>

----------------------------------------------------------------------------
(* cli.main. *)

\* Bug: the envelope is written without asking whether one already was.
MainTwice ==
  /\ pc = "main"
  /\ pc' = "idle"
  /\ IF outcome # "ok" /\ emitted <= 1
     THEN Emit("error", raised) ELSE UNCHANGED <<envelope, emitted>>
  /\ UNCHANGED <<request, agent, work, outcome, raised, printer>>

\* Bug: no handler for KeyboardInterrupt.
MainUninterrupted ==
  /\ pc = "main"
  /\ pc' = "idle"
  /\ IF outcome = "failed" /\ emitted = 0
     THEN Emit("error", raised) ELSE UNCHANGED <<envelope, emitted>>
  /\ UNCHANGED <<request, agent, work, outcome, raised, printer>>

\* An error whose envelope nobody wrote yet gets one, from the raised error alone.
Main ==
  /\ pc = "main"
  /\ pc' = "idle"
  /\ IF outcome # "ok" /\ emitted = 0
     THEN Emit("error", raised) ELSE UNCHANGED <<envelope, emitted>>
  /\ UNCHANGED <<request, agent, work, outcome, raised, printer>>

\* KeyboardInterrupt in any step.  A print command may be out by then, and a
\* replaced file gone.
Interrupt ==
  /\ pc \notin {"idle", "finally", "main"}
  /\ outcome' = "interrupted" /\ raised' = Silent
  /\ pc' = IF mode = "print" THEN "main" ELSE "finally"
  /\ IF pc = "print" THEN Outcome("unsent") \/ Outcome("unconfirmed")
                     ELSE UNCHANGED <<asked, started, ended>>
  /\ IF pc = "upload" THEN remote' \in RemoteAfterFailure ELSE UNCHANGED remote
  /\ UNCHANGED <<request, agent, work, envelope, emitted>>

----------------------------------------------------------------------------

Next ==
  \/ \E m \in {"dry", "real", "print"} : Run(m)
  \/ PreviewUrl \/ PrepareDownload \/ Download \/ OpenLocal \/ Extract \/ Classify
  \/ Slice \/ Upload \/ Uploaded \/ StartPrint \/ Finally \/ Main \/ Interrupt

Spec == Init /\ [][Next]_vars

----------------------------------------------------------------------------
(* Properties. *)

Done == pc = "idle" /\ mode # "none"

\* A --json command leaves exactly one JSON document on stdout, and it says
\* "error" for every command that did not succeed, a Ctrl-C included: the job,
\* its steps and cli.main all write envelopes, behind one flag.
OneEnvelope ==
  /\ emitted <= 1
  /\ Done => emitted = 1 /\ (envelope.status = "ok" <=> outcome = "ok")

\* However a job ends, no private working directory is left on disk.
NoWorkdirLeft == Done => ~leftover

\* The printer is only ever told to print a plate its file has, whether the job
\* prints or the next_command it handed out does.
PlateIsSliced == asked # 0 /\ remote # {} => asked \in remote

\* An agent that retries only what was reported as printed: false never has two
\* jobs running (docstring of _abort_unconfirmed), Ctrl-C or not.
AtMostOneJob == started - ended <= 1

\* A dry run that reports success for a file it could open promises that the
\* real run will not refuse the same request, at any of its steps.
DryOkMeansAccepted ==
  mode = "real" /\ preview.ok /\ source = "local" /\ ~given.archived
    => outcome # "refused"

\* No flag makes the real run refuse what the dry run let pass: "it must not
\* report success for flags that will later be rejected" (comment in _run_job).
\* A 3MF that holds no sliced plate is the file's fault, not a flag's.  TLC refutes it:
\* the dry run of a ZIP returns before the plate is looked at.
DryOkMeansFlagsAccepted ==
  mode = "real" /\ preview.ok /\ outcome = "refused"
    => file.kind = "3mf" /\ file.plates = {}

\* would_slice and would_print of a dry run are what the real run then does
\* (docstring of _ext_would_slice), unless a link hid the kind of its file.
PreviewAgrees ==
  mode = "real" /\ preview.ok /\ outcome = "ok" /\ guess \in {"zip", given.kind}
    => /\ preview.slice = "yes" => sliced
       /\ preview.slice = "no" => ~sliced
       /\ preview.print <=> envelope.fields.printed = "true"

\* What a dry run tells an agent is what the real run then does.
DryRunIsTrue == DryOkMeansAccepted /\ PreviewAgrees

\* When a print fails with a code the printer reported, the error envelope
\* carries that code (docs/api.md, "Exit codes").
ErrorCodeReported ==
  [][ended' > ended /\ emitted' = 1 => envelope'.fields.code]_vars
=============================================================================
