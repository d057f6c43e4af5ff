------------------------- MODULE JobPipeline_proofs -------------------------
(***************************************************************************)
(* What _run_job and cli.main owe an agent, for every request, every file, *)
(* every failure or Ctrl-C, and any number of commands: one envelope, no   *)
(* directory left behind, never two jobs, and only plates the file has.    *)
(***************************************************************************)
EXTENDS MC_Job, Setup_proofs, TLAPS

Shape == [kind: Kinds, archived: BOOLEAN, plates: SUBSET Plates,
          empty: BOOLEAN, hot: BOOLEAN]

\* The types the arguments need.
Types ==
  /\ given \in Files
  /\ args \in Args
  /\ emitted \in Nat
  /\ started \in Nat /\ ended \in Nat

UnderWay == pc \notin {"idle", "finally", "main"}

\* A command under way has told nothing yet; only a Ctrl-C and a failed plate
\* print reach main with their envelope still to be written.
EnvelopeInv ==
  /\ UnderWay => emitted = 0 /\ outcome = "none"
  /\ pc \in {"finally", "main"} => outcome # "none"
  /\ outcome = "ok" => emitted = 1
  /\ emitted <= 1
  /\ emitted = 1 => (envelope.status = "ok" <=> outcome = "ok")
  /\ Done => emitted = 1

\* Only _run_job owns a directory, and its finally clause gives it up.
WorkdirInv ==
  /\ pc \in {"idle", "main"} => ~leftover
  /\ mode = "print" => pc \in {"idle", "print", "main"} /\ ~leftover

\* What the agent reads, or will read, about the print.
Told == IF emitted = 1 THEN envelope.fields.printed ELSE raised.printed

\* A job is running only after a print step whose report forbids a retry.
JobInv ==
  /\ pc \in {"download", "slice", "upload", "uploaded", "print"} => mode # "dry"
  /\ pc # "idle" => mode # "none"
  /\ mode \in {"none", "dry", "real", "print"}
  /\ ended <= started /\ started <= ended + 1
  /\ mode \in {"none", "dry"} \/ UnderWay => started = ended
  /\ mode = "real" /\ started # ended => Told # "false"

\* The plates the printer's file may have, and those of the file in hand.
Target == IF given.kind = "model" THEN {1} ELSE given.plates

FileInv ==
  /\ pc \in {"source", "download", "extract", "classify"}
       => plate = 0 /\ file.kind = given.kind /\ file.plates = given.plates
  /\ pc = "slice" => given.kind = "model"
  /\ pc \in {"upload", "uploaded"} => file.plates = Target

\* From here on a plate is chosen, for this command or for the next_command.
Chosen ==
  \/ pc \in {"slice", "upload", "uploaded", "print"}
  \/ mode = "print"
  \/ mode = "real" /\ outcome = "ok"

\* The plate to print, what the printer was asked to print and what it holds
\* agree across retries, since every run chooses from the same file.
PlateInv ==
  /\ plate \in {0} \cup Plates
  /\ Chosen /\ Target # {} => PrintPlate \in Target
  /\ asked # 0 /\ Target # {} => asked \in Target
  /\ remote = {} \/ remote = Target

\* A local file that is opened as it is: both runs see all of it.
Plain == source = "local" /\ ~given.archived

\* What the checks of both runs ask of such a file and of its flags.
Fit ==
  /\ ~(given.kind = "model" /\ args.output = "bad") /\ ~given.empty /\ ~given.hot
  /\ \/ given.kind = "model" /\ args.plate \in {0, 1}
     \/ given.kind = "3mf" /\ \E p \in given.plates : args.plate \in {0, p}
     \/ given.kind = "gcode"

\* What a dry run announced follows from the request, and for a plain file from its fitness.
PreviewInv ==
  /\ mode = "none" => ~preview.ok
  /\ preview.ok =>
       /\ preview.print <=> WouldPrint
       /\ guess \in {"zip", given.kind} =>
            /\ preview.slice = "yes" => given.kind = "model"
            /\ preview.slice = "no" => given.kind # "model"
       /\ Plain => Fit

\* How far a run came tells what its file passed, and whether it was sliced.
RunInv ==
  /\ pc \in {"source", "download", "extract", "classify", "slice", "upload"} =>
       file.empty = given.empty /\ file.hot = given.hot
  /\ Plain => pc \notin {"download", "extract"}
  /\ Plain /\ pc = "classify" => ~(given.kind = "model" /\ args.output = "bad")
  /\ pc \in {"source", "download", "extract", "classify", "slice"} => ~sliced
  /\ pc \in {"upload", "uploaded"} \/ (mode = "real" /\ (pc = "print" \/ outcome = "ok")) =>
       (sliced <=> given.kind = "model")
  /\ mode = "real" /\ pc = "print" => WouldPrint
  /\ mode = "real" /\ outcome = "ok" => (envelope.fields.printed = "true" <=> WouldPrint)
  /\ mode = "real" /\ preview.ok /\ Plain => outcome # "refused"

\* The types, by what they speak of: the run, what it tells, and the printer.
RunTypes ==
  /\ source \in Sources /\ guess \in Kinds \cup {"zip"} /\ args \in Args /\ given \in Files
  /\ mode \in {"none", "dry", "real", "print"} /\ runs \in 0..MaxRuns /\ pc \in PCs
  /\ plate \in {0} \cup Plates

FlagTypes == leftover \in BOOLEAN /\ sliced \in BOOLEAN

ReportTypes ==
  /\ outcome \in {"none", "ok", "refused", "failed", "interrupted"} /\ raised \in Fields
  /\ envelope \in [status: {"none", "ok", "error"}, fields: Fields]

PreviewTypes == preview \in [ok: BOOLEAN, slice: {"yes", "no", "unsaid"}, print: BOOLEAN]

\* A command starts one job at most.
PrinterTypes ==
  /\ remote \subseteq Plates /\ asked \in {0} \cup Plates
  /\ started <= runs /\ (UnderWay => started < runs)

----------------------------------------------------------------------------

\* A ZIP's member keeps its properties; what the slicer writes has plate 1.
LEMMA Copies ==
  ASSUME NEW f \in Shape
  PROVE  /\ [f EXCEPT !.archived = FALSE] \in Shape
         /\ [f EXCEPT !.archived = FALSE].kind = f.kind
         /\ [f EXCEPT !.archived = FALSE].plates = f.plates
         /\ [f EXCEPT !.kind = "3mf", !.plates = {1}] \in Shape
         /\ [f EXCEPT !.kind = "3mf", !.plates = {1}].plates = {1}
<1>1. [f EXCEPT !.archived = FALSE] \in Shape
  BY DEF Shape
<1>2. [f EXCEPT !.kind = "3mf", !.plates = {1}] \in Shape
  BY DEF Shape, Kinds, Plates
<1> QED
  BY <1>1, <1>2 DEF Shape

\* A file the source denotes is a file record.
LEMMA GivenShape == given \in Files => given \in Shape
  BY DEF Files, Shape

\* The first file in hand is the given one.
LEMMA InitShape == Init => file \in Shape
  BY GivenShape DEF Init

\* The file in hand is the given one, its archive's member, or a sliced 3MF.
LEMMA ShapeStep ==
  ASSUME given \in Files, file \in Shape, [Next]_vars
  PROVE  file' \in Shape
<1>1. given \in Shape
  BY GivenShape
<1>2. ASSUME NEW m \in {"dry", "real", "print"}, Run(m) PROVE file' \in Shape
  BY <1>1, <1>2 DEF Run
<1>3. CASE Download
  <2>1. file' = file \/ file' = [given EXCEPT !.archived = FALSE]
    BY <1>3 DEF Download
  <2> QED
    BY <1>1, <2>1, Copies
<1>4. CASE Extract
  <2>1. file' = file \/ file' = [file EXCEPT !.archived = FALSE]
    BY <1>4 DEF Extract
  <2> QED
    BY <2>1, Copies
<1>5. CASE Slice
  <2>1. file' = file \/ file' = [file EXCEPT !.kind = "3mf", !.plates = {1}]
    BY <1>5 DEF Slice
  <2> QED
    BY <2>1, Copies
<1>6. CASE \/ PreviewUrl \/ PrepareDownload \/ OpenLocal \/ Classify \/ Upload
           \/ Uploaded \/ StartPrint \/ Finally \/ Main \/ Interrupt
  BY <1>6 DEF PreviewUrl, PrepareDownload, OpenLocal, Classify, Upload, Uploaded,
     StartPrint, Finally, Main, Interrupt, work
<1>7. CASE UNCHANGED vars
  BY <1>7 DEF vars, work
<1> QED
  BY <1>2, <1>3, <1>4, <1>5, <1>6, <1>7 DEF Next

\* A request is one of the modelled requests, and nothing has run.
LEMMA InitTypes == Init => Types
<1> SUFFICES ASSUME Init PROVE Types
  OBVIOUS
<1> QED
  BY DEF Init, Types

\* No command changes the request, and the counters stay natural numbers.
LEMMA TypesStep == Types /\ [Next]_vars => Types'
<1> SUFFICES ASSUME Types, [Next]_vars PROVE Types'
  OBVIOUS
<1> USE DEF Types, request, printer
<1>1. ASSUME NEW m \in {"dry", "real", "print"}, Run(m) PROVE Types'
  BY <1>1 DEF Run
<1>2. CASE PreviewUrl
  BY <1>2 DEF PreviewUrl, Refuse, FailJob, Preview, Succeed, Emit
<1>3. CASE PrepareDownload
  BY <1>3 DEF PrepareDownload, Refuse, FailJob, Emit, Continue, report
<1>4. CASE Download
  BY <1>4 DEF Download, StepFailed, FailJob, Emit, Continue, report
<1>5. CASE OpenLocal
  BY <1>5 DEF OpenLocal, Refuse, FailJob, Emit, Continue, report
<1>6. CASE Extract
  BY <1>6 DEF Extract, Refuse, StepFailed, FailJob, Preview, Succeed, Emit, Continue, report
<1>7. CASE Classify
  BY <1>7 DEF Classify, Refuse, FailJob, Preview, Succeed, Emit, Continue, report
<1>8. CASE Slice
  BY <1>8 DEF Slice, StepFailed, FailJob, Emit, Continue, report
<1>9. CASE Upload
  BY <1>9 DEF Upload, Refuse, StepFailed, FailJob, Emit, Continue, report
<1>10. CASE Uploaded
  BY <1>10 DEF Uploaded, Succeed, Emit, Continue, report
<1>11. CASE StartPrint
  BY <1>11 DEF StartPrint, Outcome, Succeed, FailJob, Emit
<1>12. CASE Finally
  BY <1>12 DEF Finally, report
<1>13. CASE Main
  BY <1>13 DEF Main, Emit
<1>14. CASE Interrupt
  BY <1>14 DEF Interrupt, Outcome
<1>15. CASE UNCHANGED vars
  BY <1>15 DEF vars, report
<1> QED
  BY <1>1, <1>2, <1>3, <1>4, <1>5, <1>6, <1>7, <1>8, <1>9, <1>10, <1>11, <1>12,
     <1>13, <1>14, <1>15 DEF Next

\* Every exit of _run_job writes its envelope or raises for main, and main
\* writes only where none was written.
LEMMA EnvelopeStep ==
  ASSUME Types, EnvelopeInv, [Next]_vars
  PROVE  EnvelopeInv'
<1> USE DEF EnvelopeInv, UnderWay, Done, Types, request, agent, work, printer
<1>1. ASSUME NEW m \in {"dry", "real", "print"}, Run(m) PROVE EnvelopeInv'
  BY <1>1 DEF Run
<1>2. CASE PreviewUrl
  BY <1>2 DEF PreviewUrl, Refuse, FailJob, Preview, Succeed, Emit
<1>3. CASE PrepareDownload
  BY <1>3 DEF PrepareDownload, Refuse, FailJob, Emit, Continue, report
<1>4. CASE Download
  BY <1>4 DEF Download, StepFailed, FailJob, Emit, Continue, report
<1>5. CASE OpenLocal
  BY <1>5 DEF OpenLocal, Refuse, FailJob, Emit, Continue, report
<1>6. CASE Extract
  BY <1>6 DEF Extract, Refuse, StepFailed, FailJob, Preview, Succeed, Emit, Continue, report
<1>7. CASE Classify
  BY <1>7 DEF Classify, Refuse, FailJob, Preview, Succeed, Emit, Continue, report
<1>8. CASE Slice
  BY <1>8 DEF Slice, StepFailed, FailJob, Emit, Continue, report
<1>9. CASE Upload
  BY <1>9 DEF Upload, Refuse, StepFailed, FailJob, Emit, Continue, report, UploadRefuses
<1>10. CASE Uploaded
  BY <1>10 DEF Uploaded, Succeed, Emit, Continue, report
<1>11. CASE StartPrint
  BY <1>11 DEF StartPrint, Outcome, Succeed, FailJob, Emit
<1>12. CASE Finally
  BY <1>12 DEF Finally, report
<1>13. CASE Main
  BY <1>13 DEF Main, Emit
<1>14. CASE Interrupt
  BY <1>14 DEF Interrupt, Outcome
<1>15. CASE UNCHANGED vars
  BY <1>15 DEF vars, report
<1> QED
  BY <1>1, <1>2, <1>3, <1>4, <1>5, <1>6, <1>7, <1>8, <1>9, <1>10, <1>11, <1>12,
     <1>13, <1>14, <1>15 DEF Next

\* A directory is made only inside _run_job, every exit of which passes its
\* finally clause.
LEMMA WorkdirStep ==
  ASSUME WorkdirInv, [Next]_vars
  PROVE  WorkdirInv'
<1> USE DEF WorkdirInv, request, agent, work, printer
<1>1. ASSUME NEW m \in {"dry", "real", "print"}, Run(m) PROVE WorkdirInv'
  BY <1>1 DEF Run, MayRun
<1>2. CASE PreviewUrl
  BY <1>2 DEF PreviewUrl, Refuse, FailJob, Preview, Succeed, Emit
<1>3. CASE PrepareDownload
  BY <1>3 DEF PrepareDownload, Refuse, FailJob, Emit, Continue, report
<1>4. CASE Download
  BY <1>4 DEF Download, StepFailed, FailJob, Emit, Continue, report
<1>5. CASE OpenLocal
  BY <1>5 DEF OpenLocal, Refuse, FailJob, Emit, Continue, report
<1>6. CASE Extract
  BY <1>6 DEF Extract, Refuse, StepFailed, FailJob, Preview, Succeed, Emit, Continue, report
<1>7. CASE Classify
  BY <1>7 DEF Classify, Refuse, FailJob, Preview, Succeed, Emit, Continue, report
<1>8. CASE Slice
  BY <1>8 DEF Slice, StepFailed, FailJob, Emit, Continue, report
<1>9. CASE Upload
  BY <1>9 DEF Upload, Refuse, StepFailed, FailJob, Emit, Continue, report
<1>10. CASE Uploaded
  BY <1>10 DEF Uploaded, Succeed, Emit, Continue, report
<1>11. CASE StartPrint
  BY <1>11 DEF StartPrint, Outcome, Succeed, FailJob, Emit
<1>12. CASE Finally
  BY <1>12 DEF Finally, report
<1>13. CASE Main
  BY <1>13 DEF Main, Emit
<1>14. CASE Interrupt
  BY <1>14 DEF Interrupt, Outcome
<1>15. CASE UNCHANGED vars
  BY <1>15 DEF vars, report
<1> QED
  BY <1>1, <1>2, <1>3, <1>4, <1>5, <1>6, <1>7, <1>8, <1>9, <1>10, <1>11, <1>12,
     <1>13, <1>14, <1>15 DEF Next

\* A print that may have started is reported as printed: true or null, or with
\* no printed field by main's Ctrl-C handler.
LEMMA JobStep ==
  ASSUME Types /\ EnvelopeInv, JobInv, [Next]_vars
  PROVE  JobInv'
<1> USE DEF JobInv, Told, Done, EnvelopeInv, UnderWay, Types, Dry, request, agent,
        work, printer, PlainFields, Silent
<1>1. ASSUME NEW m \in {"dry", "real", "print"}, Run(m) PROVE JobInv'
  BY <1>1 DEF Run, MayRun
<1>2. CASE PreviewUrl
  BY <1>2 DEF PreviewUrl, Refuse, FailJob, Preview, Succeed, Emit
<1>3. CASE PrepareDownload
  BY <1>3 DEF PrepareDownload, Refuse, FailJob, Emit, Continue, report
<1>4. CASE Download
  BY <1>4 DEF Download, StepFailed, FailJob, Emit, Continue, report
<1>5. CASE OpenLocal
  BY <1>5 DEF OpenLocal, Refuse, FailJob, Emit, Continue, report
<1>6. CASE Extract
  BY <1>6 DEF Extract, Refuse, StepFailed, FailJob, Preview, Succeed, Emit, Continue, report
<1>7. CASE Classify
  BY <1>7 DEF Classify, Refuse, FailJob, Preview, Succeed, Emit, Continue, report
<1>8. CASE Slice
  BY <1>8 DEF Slice, StepFailed, FailJob, Emit, Continue, report
<1>9. CASE Upload
  BY <1>9 DEF Upload, Refuse, StepFailed, FailJob, Emit, Continue, report
<1>10. CASE Uploaded
  BY <1>10 DEF Uploaded, Succeed, Emit, Continue, report
<1>11. CASE StartPrint
  <2>1. mode \in {"real", "print"} /\ UNCHANGED mode /\ started = ended /\ emitted = 0
    BY <1>11 DEF StartPrint
  <2>2. PICK v \in Verdicts :
          /\ Outcome(v)
          /\ \/ v = "started" /\ mode = "real" /\ Succeed("true")
             \/ mode = "print" /\ pc' = "main"
             \/ v # "started" /\ mode = "real" /\ FailJob("failed", SummaryAfter(v))
    BY <1>11 DEF StartPrint
  <2>3. ended' \in Nat /\ started' \in Nat /\ ended' <= started' /\ started' <= ended' + 1
    BY <2>1, <2>2 DEF Outcome, Verdicts
  <2>4. ASSUME mode = "real", started' # ended' PROVE Told' # "false"
    <3>1. v \in {"started", "unconfirmed"}
      BY <2>1, <2>2, <2>4 DEF Outcome, Verdicts
    <3>2. CASE v = "started"
      BY <2>1, <2>2, <2>4, <3>2 DEF Succeed, Emit
    <3>3. CASE v = "unconfirmed"
      <4>1. Raised(v).printed = "null"
        BY <3>3 DEF Raised, Recorded
      <4>2. SummaryAfter(v).printed = "null"
        BY <4>1 DEF SummaryAfter
      <4> QED
        BY <2>1, <2>2, <2>4, <3>3, <4>2 DEF FailJob, Emit
    <3> QED
      BY <3>1, <3>2, <3>3
  <2>5. pc' \in {"finally", "main"}
    BY <2>2 DEF Succeed, FailJob
  <2> QED
    BY <2>1, <2>3, <2>4, <2>5
<1>12. CASE Finally
  BY <1>12 DEF Finally, report
<1>13. CASE Main
  BY <1>13 DEF Main, Emit
<1>14. CASE Interrupt
  BY <1>14 DEF Interrupt, Outcome
<1>15. CASE UNCHANGED vars
  BY <1>15 DEF vars, report
<1> QED
  BY <1>1, <1>2, <1>3, <1>4, <1>5, <1>6, <1>7, <1>8, <1>9, <1>10, <1>11, <1>12,
     <1>13, <1>14, <1>15 DEF Next

\* Download, extraction and slicing hand on the file that was asked for.
LEMMA FileStep ==
  ASSUME Types, file \in Shape, FileInv, [Next]_vars
  PROVE  FileInv'
<1> USE DEF FileInv, Types, Files, Target, Dry, WouldSlice, request, agent, work, printer
<1>1. ASSUME NEW m \in {"dry", "real", "print"}, Run(m) PROVE FileInv'
  BY <1>1 DEF Run
<1>2. CASE PreviewUrl
  BY <1>2 DEF PreviewUrl, Refuse, FailJob, Preview, Succeed, Emit
<1>3. CASE PrepareDownload
  BY <1>3 DEF PrepareDownload, Refuse, FailJob, Emit, Continue, report
<1>4. CASE Download
  <2>1. \/ file' = file /\ pc' = "finally"
        \/ file' = [given EXCEPT !.archived = FALSE] /\ pc' = "classify" /\ pc = "download"
    BY <1>4 DEF Download, StepFailed, FailJob, Emit, Continue, report
  <2>2. given' = given /\ plate' = plate
    BY <1>4 DEF Download
  <2> QED
    BY <2>1, <2>2, GivenShape, Copies
<1>5. CASE OpenLocal
  BY <1>5 DEF OpenLocal, Refuse, FailJob, Emit, Continue, report
<1>6. CASE Extract
  <2>1. \/ file' = file /\ pc' = "finally"
        \/ file' = [file EXCEPT !.archived = FALSE] /\ pc' = "classify" /\ pc = "extract"
    BY <1>6 DEF Extract, Refuse, StepFailed, FailJob, Preview, Succeed, Emit, Continue, report
  <2>2. given' = given /\ plate' = plate
    BY <1>6 DEF Extract
  <2> QED
    BY <2>1, <2>2, GivenShape, Copies
<1>7. CASE Classify
  BY <1>7 DEF Classify, Refuse, FailJob, Preview, Succeed, Emit, Continue, report, Acceptable
<1>8. CASE Slice
  <2>1. \/ file' = file /\ pc' = "finally"
        \/ file' = [file EXCEPT !.kind = "3mf", !.plates = {1}] /\ pc' = "upload" /\ pc = "slice"
    BY <1>8 DEF Slice, StepFailed, FailJob, Emit, Continue, report
  <2>2. given' = given /\ plate' = plate
    BY <1>8 DEF Slice
  <2> QED
    BY <2>1, <2>2, GivenShape, Copies
<1>9. CASE Upload
  BY <1>9 DEF Upload, Refuse, StepFailed, FailJob, Emit, Continue, report
<1>10. CASE Uploaded
  BY <1>10 DEF Uploaded, Succeed, Emit, Continue, report
<1>11. CASE StartPrint
  BY <1>11 DEF StartPrint, Outcome, Succeed, FailJob, Emit
<1>12. CASE Finally
  BY <1>12 DEF Finally, report
<1>13. CASE Main
  BY <1>13 DEF Main, Emit
<1>14. CASE Interrupt
  BY <1>14 DEF Interrupt, Outcome
<1>15. CASE UNCHANGED vars
  BY <1>15 DEF vars, report
<1> QED
  BY <1>1, <1>2, <1>3, <1>4, <1>5, <1>6, <1>7, <1>8, <1>9, <1>10, <1>11, <1>12,
     <1>13, <1>14, <1>15 DEF Next

\* A refused, failed or retried upload leaves the chosen plate valid.
LEMMA PlateStep ==
  ASSUME Types /\ EnvelopeInv /\ JobInv /\ FileInv, PlateInv, [Next]_vars
  PROVE  PlateInv'
<1> USE DEF PlateInv, Chosen, PrintPlate, FileInv, JobInv, EnvelopeInv, UnderWay, Types,
        Files, Args, Plates, Kinds, Target, Dry, WouldSlice, request, agent, work, printer
<1>1. ASSUME NEW m \in {"dry", "real", "print"}, Run(m) PROVE PlateInv'
  BY <1>1 DEF Run, MayRun
<1>2. CASE PreviewUrl
  BY <1>2 DEF PreviewUrl, Refuse, FailJob, Preview, Succeed, Emit
<1>3. CASE PrepareDownload
  BY <1>3 DEF PrepareDownload, Refuse, FailJob, Emit, Continue, report
<1>4. CASE Download
  BY <1>4 DEF Download, StepFailed, FailJob, Emit, Continue, report
<1>5. CASE OpenLocal
  BY <1>5 DEF OpenLocal, Refuse, FailJob, Emit, Continue, report
<1>6. CASE Extract
  BY <1>6 DEF Extract, Refuse, StepFailed, FailJob, Preview, Succeed, Emit, Continue, report
<1>7. CASE Classify
  BY <1>7 DEF Classify, Refuse, FailJob, Preview, Succeed, Emit, Continue, report, Acceptable, ChoosePlate
<1>8. CASE Slice
  BY <1>8 DEF Slice, StepFailed, FailJob, Emit, Continue, report
<1>9. CASE Upload
  BY <1>9 DEF Upload, Refuse, StepFailed, FailJob, Emit, Continue, report, RemoteAfterFailure
<1>10. CASE Uploaded
  BY <1>10 DEF Uploaded, Succeed, Emit, Continue, report
<1>11. CASE StartPrint
  BY <1>11 DEF StartPrint, Outcome, Succeed, FailJob, Emit
<1>12. CASE Finally
  BY <1>12 DEF Finally, report
<1>13. CASE Main
  BY <1>13 DEF Main, Emit
<1>14. CASE Interrupt
  BY <1>14 DEF Interrupt, Outcome, RemoteAfterFailure
<1>15. CASE UNCHANGED vars
  BY <1>15 DEF vars, report
<1> QED
  BY <1>1, <1>2, <1>3, <1>4, <1>5, <1>6, <1>7, <1>8, <1>9, <1>10, <1>11, <1>12,
     <1>13, <1>14, <1>15 DEF Next

\* What a successful dry run writes down.
LEMMA PreviewSays ==
  ASSUME NEW kind, Preview(kind)
  PROVE  /\ preview'.ok /\ preview'.print = WouldPrint
         /\ preview'.slice = "yes" => kind = "model"
         /\ preview'.slice = "no" => kind \notin {"model", "zip"}
         /\ pc' = "finally" /\ outcome' = "ok"
<1>1. preview'.slice = IF kind = "zip" THEN "unsaid" ELSE IF WouldSlice(kind) THEN "yes" ELSE "no"
  BY DEF Preview
<1>2. preview'.ok /\ preview'.print = WouldPrint
  BY DEF Preview
<1>3. QED
  BY <1>1, <1>2 DEF WouldSlice, Preview, Succeed

\* A dry run announces what it worked out of the request and of the file itself.
LEMMA PreviewStep ==
  ASSUME Types, FileInv, RunInv, EnvelopeInv, PreviewInv, [Next]_vars
  PROVE  PreviewInv'
<1> USE DEF PreviewInv, Plain, Fit, FileInv, RunInv, EnvelopeInv, UnderWay, Types, Files, Dry,
        WouldPrint, WouldSlice, request, agent, work, printer
<1>1. ASSUME NEW m \in {"dry", "real", "print"}, Run(m) PROVE PreviewInv'
  BY <1>1 DEF Run, MayRun
<1>2. CASE PreviewUrl
  <2>1. source = "url" /\ UNCHANGED <<source, guess, args, given, mode>> /\ Dry
    BY <1>2 DEF PreviewUrl
  <2>2. CASE UNCHANGED preview
    BY <2>1, <2>2
  <2>3. CASE Preview(guess)
    BY <2>1, <2>3, PreviewSays
  <2>4. QED
    BY <1>2, <2>2, <2>3 DEF PreviewUrl
<1>3. CASE PrepareDownload
  BY <1>3 DEF PrepareDownload, Refuse, FailJob, Emit, Continue, report
<1>4. CASE Download
  BY <1>4 DEF Download, StepFailed, FailJob, Emit, Continue, report
<1>5. CASE OpenLocal
  BY <1>5 DEF OpenLocal, Refuse, FailJob, Emit, Continue, report
<1>6. CASE Extract
  <2>1. UNCHANGED <<source, guess, args, given, mode>> /\ pc = "extract"
    BY <1>6 DEF Extract
  <2>2. CASE UNCHANGED preview
    BY <2>1, <2>2
  <2>3. CASE Preview(file.kind) /\ Dry
    <3>1. ~Plain /\ file.kind = given.kind
      BY <2>1
    <3>2. QED
      BY <2>1, <2>3, <3>1, PreviewSays
  <2>4. QED
    BY <1>6, <2>2, <2>3 DEF Extract, Continue, report
<1>7. CASE Classify
  <2>1. UNCHANGED <<source, guess, args, given, mode>> /\ pc = "classify"
    BY <1>7 DEF Classify
  <2>2. CASE UNCHANGED preview
    BY <2>1, <2>2
  <2>3. CASE Preview(file.kind) /\ Dry /\ Acceptable /\ ~DryRefused
    <3>1. Plain => Fit
      BY <2>1, <2>3 DEF Acceptable, ChoosePlate, DryRefused
    <3>2. Plain' = Plain /\ Fit' = Fit /\ WouldPrint' = WouldPrint /\ file.kind = given.kind
      BY <2>1
    <3>3. QED
      BY <2>1, <2>3, <3>1, <3>2, PreviewSays
  <2>4. QED
    BY <1>7, <2>2, <2>3 DEF Classify
<1>8. CASE Slice
  BY <1>8 DEF Slice, StepFailed, FailJob, Emit, Continue, report
<1>9. CASE Upload
  BY <1>9 DEF Upload, Refuse, StepFailed, FailJob, Emit, Continue, report
<1>10. CASE Uploaded
  BY <1>10 DEF Uploaded, Succeed, Emit, Continue, report
<1>11. CASE StartPrint
  BY <1>11 DEF StartPrint, Outcome, Succeed, FailJob, Emit
<1>12. CASE Finally
  BY <1>12 DEF Finally, report
<1>13. CASE Main
  BY <1>13 DEF Main, Emit
<1>14. CASE Interrupt
  BY <1>14 DEF Interrupt, Outcome
<1>15. CASE UNCHANGED vars
  BY <1>15 DEF vars, report
<1> QED
  BY <1>1, <1>2, <1>3, <1>4, <1>5, <1>6, <1>7, <1>8, <1>9, <1>10, <1>11, <1>12,
     <1>13, <1>14, <1>15 DEF Next

\* The real run passes the same checks, slices what it said, and prints if it said so.
LEMMA RunStep ==
  ASSUME Types, file \in Shape, FileInv, EnvelopeInv, JobInv, PreviewInv, RunInv, [Next]_vars
  PROVE  RunInv'
<1> USE DEF PreviewInv, Plain, Fit, FileInv, RunInv, EnvelopeInv, JobInv, UnderWay, Types, Dry,
        WouldPrint, WouldSlice, PlainFields, request, agent, work, printer
<1>1. ASSUME NEW m \in {"dry", "real", "print"}, Run(m) PROVE RunInv'
  BY <1>1 DEF Run, MayRun
<1>2. CASE PreviewUrl
  BY <1>2 DEF PreviewUrl, Refuse, FailJob, Preview, Succeed, Emit
<1>3. CASE PrepareDownload
  BY <1>3 DEF PrepareDownload, Refuse, FailJob, Emit, Continue, report
<1>4. CASE Download
  <2>1. /\ \/ file' = file /\ pc' = "finally" /\ outcome' = "failed"
           \/ file' = [given EXCEPT !.archived = FALSE] /\ pc' = "classify" /\ outcome' = outcome
        /\ UNCHANGED <<source, args, given, mode, preview, sliced>> /\ pc = "download"
    BY <1>4 DEF Download, StepFailed, FailJob, Continue, report
  <2>2. [given EXCEPT !.archived = FALSE].empty = given.empty /\ [given EXCEPT !.archived = FALSE].hot = given.hot
    BY GivenShape DEF Shape
  <2>3. QED
    BY <2>1, <2>2
<1>5. CASE OpenLocal
  BY <1>5 DEF OpenLocal, Refuse, FailJob, Emit, Continue, report
<1>6. CASE Extract
  <2>1. /\ \/ file' = file /\ pc' = "finally"
           \/ file' = [file EXCEPT !.archived = FALSE] /\ pc' = "classify" /\ outcome' = outcome
        /\ UNCHANGED <<source, args, given, mode, sliced>> /\ pc = "extract"
        /\ mode = "real" => outcome' # "ok" /\ preview' = preview
    BY <1>6, PreviewSays DEF Extract, Refuse, StepFailed, FailJob, Preview, Succeed, Continue, report
  <2>2. [file EXCEPT !.archived = FALSE].empty = file.empty /\ [file EXCEPT !.archived = FALSE].hot = file.hot
    BY DEF Shape
  <2>3. ~Plain
    BY <2>1
  <2>4. QED
    BY <2>1, <2>2, <2>3
<1>7. CASE Classify
  <2>1. /\ UNCHANGED <<source, args, given, mode, file, sliced>> /\ pc = "classify"
        /\ outcome = "none" /\ file.kind = given.kind /\ file.plates = given.plates
    BY <1>7 DEF Classify
  <2>2. CASE ~Acceptable /\ Refuse /\ UNCHANGED preview
    <3>1. ~(preview.ok /\ Plain)
      BY <2>1, <2>2 DEF Acceptable, ChoosePlate, Plates, Files
    <3>2. QED
      BY <2>1, <2>2, <3>1 DEF Refuse, FailJob
  <2>3. CASE Dry /\ (Refuse \/ Preview(file.kind))
    <3>1. mode = "dry" /\ pc' = "finally"
      BY <2>3, PreviewSays DEF Refuse, FailJob
    <3>2. QED
      BY <2>1, <3>1
  <2>4. CASE /\ ~Dry /\ UNCHANGED preview
             /\ pc' = (IF WouldSlice(file.kind) THEN "slice" ELSE "upload") /\ outcome' = outcome
    BY <2>1, <2>4
  <2>5. QED
    BY <1>7, <2>2, <2>3, <2>4 DEF Classify, Continue, report
<1>8. CASE Slice
  <2>1. /\ \/ file' = file /\ pc' = "finally" /\ outcome' = "failed" /\ sliced' = sliced
           \/ /\ file' = [file EXCEPT !.kind = "3mf", !.plates = {1}]
              /\ pc' = "upload" /\ outcome' = outcome /\ sliced'
        /\ UNCHANGED <<source, args, given, mode, preview>> /\ pc = "slice"
    BY <1>8 DEF Slice, StepFailed, FailJob, Continue, report
  <2>2. /\ [file EXCEPT !.kind = "3mf", !.plates = {1}].empty = file.empty
        /\ [file EXCEPT !.kind = "3mf", !.plates = {1}].hot = file.hot
    BY DEF Shape
  <2>3. QED
    BY <2>1, <2>2
<1>9. CASE Upload
  BY <1>9 DEF Upload, Refuse, StepFailed, FailJob, Emit, Continue, report, UploadRefuses
<1>10. CASE Uploaded
  BY <1>10 DEF Uploaded, Succeed, Emit, Continue, report
<1>11. CASE StartPrint
  BY <1>11 DEF StartPrint, Outcome, Succeed, FailJob, Emit
<1>12. CASE Finally
  BY <1>12 DEF Finally, report
<1>13. CASE Main
  BY <1>13 DEF Main, Emit
<1>14. CASE Interrupt
  BY <1>14 DEF Interrupt, Outcome
<1>15. CASE UNCHANGED vars
  BY <1>15 DEF vars, report
<1> QED
  BY <1>1, <1>2, <1>3, <1>4, <1>5, <1>6, <1>7, <1>8, <1>9, <1>10, <1>11, <1>12,
     <1>13, <1>14, <1>15 DEF Next

\* Every way a step may answer leaves what stdout carries well typed.
LEMMA FieldsTyped ==
  /\ Silent \in Fields
  /\ \A p \in {"absent", "false", "null", "true"} : PlainFields(p) \in Fields
  /\ \A v : SummaryAfter(v) \in Fields /\ Raised(v) \in Fields
<1>1. Silent \in Fields
  BY DEF Silent, Fields
<1>2. \A p \in {"absent", "false", "null", "true"} : PlainFields(p) \in Fields
  BY DEF PlainFields, Fields
<1>3. ASSUME NEW v
      PROVE  Raised(v) \in Fields
  <2>1. [printed |-> "null", code |-> FALSE] \in Fields
    BY DEF Fields
  <2>2. CASE v = "unconfirmed"
    <3>1. (v = "failed") = FALSE
      BY <2>2
    <3>2. Recorded(v) = [printed |-> "null", code |-> FALSE]
      BY <2>2, <3>1 DEF Recorded
    <3>3. QED
      BY <2>1, <2>2, <3>2 DEF Raised
  <2>3. QED
    BY <1>1, <2>2 DEF Raised
<1>4. ASSUME NEW v
      PROVE  SummaryAfter(v) \in Fields
  <2>1. Raised(v).code \in BOOLEAN
    BY <1>3 DEF Fields
  <2>2. /\ SummaryAfter(v).printed \in {"null", "false"}
        /\ SummaryAfter(v) = [printed |-> SummaryAfter(v).printed, code |-> Raised(v).code]
    BY DEF SummaryAfter
  <2>3. QED
    BY <2>1, <2>2 DEF Fields
<1> QED
  BY <1>1, <1>2, <1>3, <1>4

\* Whichever way a command answers, its report has its type.
LEMMA AnswerTyped ==
  ASSUME ReportTypes,
         \/ UNCHANGED report
         \/ Refuse \/ StepFailed
         \/ \E p \in {"absent", "false", "null", "true"} : Succeed(p)
         \/ \E f \in Fields : FailJob("failed", f)
  PROVE  ReportTypes'
<1>1. CASE UNCHANGED report
  BY <1>1 DEF ReportTypes, report
<1>2. ASSUME NEW how \in {"refused", "failed"}, NEW f \in Fields, FailJob(how, f)
      PROVE  ReportTypes'
  BY <1>2, FieldsTyped DEF FailJob, Emit, ReportTypes
<1>3. ASSUME NEW p \in {"absent", "false", "null", "true"}, Succeed(p)
      PROVE  ReportTypes'
  BY <1>3, FieldsTyped DEF Succeed, Emit, ReportTypes
<1> QED
  BY <1>1, <1>2, <1>3, FieldsTyped DEF Refuse, StepFailed

\* A dry run announces a well-typed preview.
LEMMA PreviewTyped ==
  ASSUME args \in Args, NEW kind, Preview(kind)
  PROVE  PreviewTypes'
<1>1. WouldPrint \in BOOLEAN
  BY DEF WouldPrint, Args
<1>2. (IF kind = "zip" THEN "unsaid" ELSE IF WouldSlice(kind) THEN "yes" ELSE "no") \in {"yes", "no", "unsaid"}
  OBVIOUS
<1>3. \E w \in BOOLEAN, a \in {"yes", "no", "unsaid"} : preview' = [ok |-> TRUE, print |-> w, slice |-> a]
  BY <1>1, <1>2 DEF Preview
<1> QED
  BY <1>3 DEF PreviewTypes

\* The commands an agent runs, and the steps and plates of each.
LEMMA RunTypesStep ==
  ASSUME Types, file \in Shape, RunTypes, [Next]_vars
  PROVE  RunTypes'
<1> USE DEF RunTypes, Types, PCs, Plates, request, agent, work, printer
<1>1. ASSUME NEW m \in {"dry", "real", "print"}, Run(m) PROVE RunTypes'
  BY <1>1, JobAssumption DEF Run, MayRun, JobAssumption
<1>2. CASE PreviewUrl
  BY <1>2 DEF PreviewUrl, Refuse, FailJob, Preview, Succeed, Emit
<1>3. CASE PrepareDownload
  BY <1>3 DEF PrepareDownload, Refuse, FailJob, Emit, Continue, report
<1>4. CASE Download
  BY <1>4 DEF Download, StepFailed, FailJob, Emit, Continue, report
<1>5. CASE OpenLocal
  BY <1>5 DEF OpenLocal, Refuse, FailJob, Emit, Continue, report
<1>6. CASE Extract
  BY <1>6 DEF Extract, Refuse, StepFailed, FailJob, Preview, Succeed, Emit, Continue, report
<1>7. CASE Classify
  BY <1>7 DEF Classify, Refuse, FailJob, Preview, Succeed, Emit, Continue, report
<1>8. CASE Slice
  BY <1>8 DEF Slice, StepFailed, FailJob, Emit, Continue, report
<1>9. CASE Upload
  BY <1>9 DEF Upload, Refuse, StepFailed, FailJob, Emit, Continue, report
<1>10. CASE Uploaded
  BY <1>10 DEF Uploaded, Succeed, Emit, Continue, report
<1>11. CASE StartPrint
  BY <1>11 DEF StartPrint, Outcome, Succeed, FailJob, Emit
<1>12. CASE Finally
  BY <1>12 DEF Finally, report
<1>13. CASE Main
  BY <1>13 DEF Main, Emit
<1>14. CASE Interrupt
  BY <1>14 DEF Interrupt, Outcome
<1>15. CASE UNCHANGED vars
  BY <1>15 DEF vars, report
<1> QED
  BY <1>1, <1>2, <1>3, <1>4, <1>5, <1>6, <1>7, <1>8, <1>9, <1>10, <1>11, <1>12,
     <1>13, <1>14, <1>15 DEF Next

\* A working directory and a slice are there or not.
LEMMA FlagTypesStep ==
  ASSUME Types, FlagTypes, [Next]_vars
  PROVE  FlagTypes'
<1> USE DEF FlagTypes, request, agent, work, printer
<1>1. ASSUME NEW m \in {"dry", "real", "print"}, Run(m) PROVE FlagTypes'
  BY <1>1 DEF Run, MayRun
<1>2. CASE PreviewUrl
  BY <1>2 DEF PreviewUrl, Refuse, FailJob, Preview, Succeed, Emit
<1>3. CASE PrepareDownload
  BY <1>3 DEF PrepareDownload, Refuse, FailJob, Emit, Continue, report
<1>4. CASE Download
  BY <1>4 DEF Download, StepFailed, FailJob, Emit, Continue, report
<1>5. CASE OpenLocal
  BY <1>5 DEF OpenLocal, Refuse, FailJob, Emit, Continue, report
<1>6. CASE Extract
  BY <1>6 DEF Extract, Refuse, StepFailed, FailJob, Preview, Succeed, Emit, Continue, report
<1>7. CASE Classify
  BY <1>7 DEF Classify, Refuse, FailJob, Preview, Succeed, Emit, Continue, report
<1>8. CASE Slice
  BY <1>8 DEF Slice, StepFailed, FailJob, Emit, Continue, report
<1>9. CASE Upload
  BY <1>9 DEF Upload, Refuse, StepFailed, FailJob, Emit, Continue, report
<1>10. CASE Uploaded
  BY <1>10 DEF Uploaded, Succeed, Emit, Continue, report
<1>11. CASE StartPrint
  BY <1>11 DEF StartPrint, Outcome, Succeed, FailJob, Emit
<1>12. CASE Finally
  BY <1>12 DEF Finally, report
<1>13. CASE Main
  BY <1>13 DEF Main, Emit
<1>14. CASE Interrupt
  BY <1>14 DEF Interrupt, Outcome
<1>15. CASE UNCHANGED vars
  BY <1>15 DEF vars, report
<1> QED
  BY <1>1, <1>2, <1>3, <1>4, <1>5, <1>6, <1>7, <1>8, <1>9, <1>10, <1>11, <1>12,
     <1>13, <1>14, <1>15 DEF Next

\* What stdout carries.
LEMMA ReportTypesStep ==
  ASSUME ReportTypes, [Next]_vars
  PROVE  ReportTypes'
<1>1. ASSUME NEW m \in {"dry", "real", "print"}, Run(m) PROVE ReportTypes'
  BY <1>1, FieldsTyped DEF Run, ReportTypes
<1>2. CASE PreviewUrl
  <2>1. Refuse \/ Succeed("false")
    BY <1>2 DEF PreviewUrl, Preview
  <2> QED
    BY <2>1, AnswerTyped
<1>3. CASE PrepareDownload
  <2>1. Refuse \/ UNCHANGED report
    BY <1>3 DEF PrepareDownload, Continue
  <2> QED
    BY <2>1, AnswerTyped
<1>4. CASE Download
  <2>1. StepFailed \/ UNCHANGED report
    BY <1>4 DEF Download, Continue
  <2> QED
    BY <2>1, AnswerTyped
<1>5. CASE OpenLocal
  <2>1. Refuse \/ UNCHANGED report
    BY <1>5 DEF OpenLocal, Continue
  <2> QED
    BY <2>1, AnswerTyped
<1>6. CASE Extract
  <2>1. Refuse \/ StepFailed \/ Succeed("false") \/ UNCHANGED report
    BY <1>6 DEF Extract, Preview, Continue
  <2> QED
    BY <2>1, AnswerTyped
<1>7. CASE Classify
  <2>1. Refuse \/ Succeed("false") \/ UNCHANGED report
    BY <1>7 DEF Classify, Preview, Continue
  <2> QED
    BY <2>1, AnswerTyped
<1>8. CASE Slice
  <2>1. StepFailed \/ UNCHANGED report
    BY <1>8 DEF Slice, Continue
  <2> QED
    BY <2>1, AnswerTyped
<1>9. CASE Upload
  <2>1. Refuse \/ StepFailed \/ UNCHANGED report
    BY <1>9 DEF Upload, Continue
  <2> QED
    BY <2>1, AnswerTyped
<1>10. CASE Uploaded
  <2>1. Succeed("false") \/ UNCHANGED report
    BY <1>10 DEF Uploaded, Continue
  <2> QED
    BY <2>1, AnswerTyped
<1>11. CASE StartPrint
  <2>1. PICK v \in Verdicts :
          \/ Succeed("true") \/ FailJob("failed", SummaryAfter(v))
          \/ outcome' = "ok" /\ Emit("ok", PlainFields("true")) /\ UNCHANGED raised
          \/ outcome' = "failed" /\ raised' = Raised(v) /\ UNCHANGED envelope
    BY <1>11 DEF StartPrint
  <2>2. CASE Succeed("true") \/ FailJob("failed", SummaryAfter(v))
    BY <2>2, AnswerTyped, FieldsTyped
  <2>3. CASE outcome' = "ok" /\ Emit("ok", PlainFields("true")) /\ UNCHANGED raised
    BY <2>3, FieldsTyped DEF Emit, ReportTypes
  <2>4. CASE outcome' = "failed" /\ raised' = Raised(v) /\ UNCHANGED envelope
    BY <2>4, FieldsTyped DEF ReportTypes
  <2> QED
    BY <2>1, <2>2, <2>3, <2>4
<1>12. CASE Finally
  BY <1>12 DEF Finally, report, ReportTypes
<1>13. CASE Main
  BY <1>13 DEF Main, Emit, ReportTypes
<1>14. CASE Interrupt
  BY <1>14, FieldsTyped DEF Interrupt, ReportTypes
<1>15. CASE UNCHANGED vars
  BY <1>15 DEF vars, report, ReportTypes
<1> QED
  BY <1>1, <1>2, <1>3, <1>4, <1>5, <1>6, <1>7, <1>8, <1>9, <1>10, <1>11, <1>12,
     <1>13, <1>14, <1>15 DEF Next

\* What a dry run announces.
LEMMA PreviewTypesStep ==
  ASSUME Types, PreviewTypes, [Next]_vars
  PROVE  PreviewTypes'
<1> USE DEF request, agent
<1>1. ASSUME NEW m \in {"dry", "real", "print"}, Run(m) PROVE PreviewTypes'
  BY <1>1 DEF Run, PreviewTypes
<1>2. CASE PreviewUrl
  <2>1. UNCHANGED preview \/ Preview(guess)
    BY <1>2 DEF PreviewUrl
  <2>2. CASE UNCHANGED preview
    BY <2>2 DEF PreviewTypes
  <2> QED
    BY <2>1, <2>2, PreviewTyped DEF Types
<1>3. CASE PrepareDownload
  BY <1>3 DEF PrepareDownload, PreviewTypes
<1>4. CASE Download
  BY <1>4 DEF Download, PreviewTypes
<1>5. CASE OpenLocal
  BY <1>5 DEF OpenLocal, PreviewTypes
<1>6. CASE Extract
  <2>1. UNCHANGED preview \/ Preview(file.kind)
    BY <1>6 DEF Extract, Continue
  <2>2. CASE UNCHANGED preview
    BY <2>2 DEF PreviewTypes
  <2> QED
    BY <2>1, <2>2, PreviewTyped DEF Types
<1>7. CASE Classify
  <2>1. UNCHANGED preview \/ Preview(file.kind)
    BY <1>7 DEF Classify, Continue
  <2>2. CASE UNCHANGED preview
    BY <2>2 DEF PreviewTypes
  <2> QED
    BY <2>1, <2>2, PreviewTyped DEF Types
<1>8. CASE Slice
  BY <1>8 DEF Slice, PreviewTypes
<1>9. CASE Upload
  BY <1>9 DEF Upload, PreviewTypes
<1>10. CASE Uploaded
  BY <1>10 DEF Uploaded, PreviewTypes
<1>11. CASE StartPrint
  BY <1>11 DEF StartPrint, PreviewTypes
<1>12. CASE Finally
  BY <1>12 DEF Finally, PreviewTypes
<1>13. CASE Main
  BY <1>13 DEF Main, PreviewTypes
<1>14. CASE Interrupt
  BY <1>14 DEF Interrupt, PreviewTypes
<1>15. CASE UNCHANGED vars
  BY <1>15 DEF vars, PreviewTypes
<1> QED
  BY <1>1, <1>2, <1>3, <1>4, <1>5, <1>6, <1>7, <1>8, <1>9, <1>10, <1>11, <1>12,
     <1>13, <1>14, <1>15 DEF Next

\* What the printer was told.
LEMMA PrinterTypesStep ==
  ASSUME Types, file \in Shape, RunTypes, PrinterTypes, [Next]_vars
  PROVE  PrinterTypes'
<1> USE DEF PrinterTypes, RunTypes, Types, UnderWay, Shape, Args, Plates, PrintPlate, request, agent, work, printer
<1>1. ASSUME NEW m \in {"dry", "real", "print"}, Run(m) PROVE PrinterTypes'
  BY <1>1 DEF Run, MayRun
<1>2. CASE PreviewUrl
  BY <1>2 DEF PreviewUrl, Refuse, FailJob, Preview, Succeed, Emit
<1>3. CASE PrepareDownload
  BY <1>3 DEF PrepareDownload, Refuse, FailJob, Emit, Continue, report
<1>4. CASE Download
  BY <1>4 DEF Download, StepFailed, FailJob, Emit, Continue, report
<1>5. CASE OpenLocal
  BY <1>5 DEF OpenLocal, Refuse, FailJob, Emit, Continue, report
<1>6. CASE Extract
  BY <1>6 DEF Extract, Refuse, StepFailed, FailJob, Preview, Succeed, Emit, Continue, report
<1>7. CASE Classify
  BY <1>7 DEF Classify, Refuse, FailJob, Preview, Succeed, Emit, Continue, report
<1>8. CASE Slice
  BY <1>8 DEF Slice, StepFailed, FailJob, Emit, Continue, report
<1>9. CASE Upload
  BY <1>9 DEF Upload, Refuse, StepFailed, FailJob, Emit, Continue, report, RemoteAfterFailure
<1>10. CASE Uploaded
  BY <1>10 DEF Uploaded, Succeed, Emit, Continue, report
<1>11. CASE StartPrint
  BY <1>11 DEF StartPrint, Outcome, Succeed, FailJob, Emit
<1>12. CASE Finally
  BY <1>12 DEF Finally, report
<1>13. CASE Main
  BY <1>13 DEF Main, Emit
<1>14. CASE Interrupt
  <2>1. /\ UNCHANGED <<runs, plate, args>> /\ pc' \in {"main", "finally"} /\ UnderWay
        /\ remote' = remote \/ remote' \in {remote, {}, file.plates}
    BY <1>14 DEF Interrupt, RemoteAfterFailure
  <2>2. UNCHANGED <<asked, started>> \/ Outcome("unsent") \/ Outcome("unconfirmed")
    BY <1>14 DEF Interrupt
  <2>3. asked' \in {0} \cup Plates /\ started' \in {started, started + 1}
    BY <2>2 DEF Outcome
  <2>4. remote' \subseteq Plates
    BY <2>1
  <2>5. started' <= runs' /\ ~UnderWay'
    BY <2>1, <2>3
  <2> QED
    BY <2>3, <2>4, <2>5
<1>15. CASE UNCHANGED vars
  BY <1>15 DEF vars, report
<1> QED
  BY <1>1, <1>2, <1>3, <1>4, <1>5, <1>6, <1>7, <1>8, <1>9, <1>10, <1>11, <1>12,
     <1>13, <1>14, <1>15 DEF Next

\* The file in hand is one the model knows: only a file that is not empty is sliced.
LEMMA FileTypesStep ==
  ASSUME given \in Files, file \in Files, [Next]_vars
  PROVE  file' \in Files
<1>1. \A f \in Files : f \in Shape
  BY DEF Files, Shape
<1>2. ASSUME NEW f \in Files
      PROVE  [f EXCEPT !.archived = FALSE] \in Files
  <2> DEFINE g == [f EXCEPT !.archived = FALSE]
  <2>1. g \in Shape /\ g.kind = f.kind /\ g.plates = f.plates /\ g.empty = f.empty /\ g.hot = f.hot
    BY <1>1 DEF Shape
  <2> HIDE DEF g
  <2> QED
    BY <2>1 DEF Files, Shape
<1>3. ASSUME ~file.empty
      PROVE  [file EXCEPT !.kind = "3mf", !.plates = {1}] \in Files
  <2> DEFINE g == [file EXCEPT !.kind = "3mf", !.plates = {1}]
  <2>1. g \in Shape /\ g.kind = "3mf" /\ g.plates = {1} /\ g.empty = file.empty
    BY <1>1 DEF Shape, Kinds, Plates
  <2> HIDE DEF g
  <2> QED
    BY <1>3, <2>1 DEF Files, Shape
<1>4. \/ file' \in {file, given, [given EXCEPT !.archived = FALSE], [file EXCEPT !.archived = FALSE]}
      \/ ~file.empty /\ file' = [file EXCEPT !.kind = "3mf", !.plates = {1}]
  <2>1. ASSUME NEW m \in {"dry", "real", "print"}, Run(m) PROVE file' \in {file, given}
    BY <2>1 DEF Run
  <2>2. CASE Download
    BY <2>2 DEF Download
  <2>3. CASE Extract
    BY <2>3 DEF Extract
  <2>4. CASE Slice
    BY <2>4 DEF Slice
  <2>5. CASE \/ PreviewUrl \/ PrepareDownload \/ OpenLocal \/ Classify \/ Upload
             \/ Uploaded \/ StartPrint \/ Finally \/ Main \/ Interrupt
    BY <2>5 DEF PreviewUrl, PrepareDownload, OpenLocal, Classify, Upload, Uploaded,
       StartPrint, Finally, Main, Interrupt, work
  <2>6. CASE UNCHANGED vars
    BY <2>6 DEF vars, work
  <2> QED
    BY <2>1, <2>2, <2>3, <2>4, <2>5, <2>6 DEF Next
<1> QED
  BY <1>2, <1>3, <1>4

----------------------------------------------------------------------------

IInv ==
  /\ Types /\ file \in Shape
  /\ EnvelopeInv /\ WorkdirInv /\ JobInv /\ FileInv /\ PlateInv /\ PreviewInv /\ RunInv

\* The agent starts with nothing run, printed or uploaded.
LEMMA InitInv == Init => IInv
<1> SUFFICES ASSUME Init PROVE IInv
  OBVIOUS
<1>1. Types /\ file \in Shape
  BY InitTypes, InitShape
<1>2. EnvelopeInv /\ WorkdirInv
  BY DEF Init, EnvelopeInv, WorkdirInv, UnderWay, Done
<1>3. JobInv
  BY DEF Init, JobInv, UnderWay, Told
<1>4. FileInv /\ PlateInv
  BY DEF Init, FileInv, PlateInv, Chosen
<1>5. PreviewInv /\ RunInv
  BY DEF Init, PreviewInv, RunInv
<1> QED
  BY <1>1, <1>2, <1>3, <1>4, <1>5 DEF IInv

\* No step of the job, of main or of the agent breaks the invariant.
LEMMA InvStep == IInv /\ [Next]_vars => IInv'
<1> SUFFICES ASSUME IInv, [Next]_vars PROVE IInv'
  OBVIOUS
<1>1. Types' /\ EnvelopeInv' /\ WorkdirInv' /\ JobInv'
  BY TypesStep, EnvelopeStep, WorkdirStep, JobStep DEF IInv
<1>2. file' \in Shape
  BY ShapeStep DEF IInv, Types
<1>3. FileInv' /\ PlateInv'
  BY FileStep, PlateStep DEF IInv
<1>4. PreviewInv' /\ RunInv'
  BY PreviewStep, RunStep DEF IInv
<1> QED
  BY <1>1, <1>2, <1>3, <1>4 DEF IInv

\* The invariant holds throughout.
LEMMA Invariance == Spec => []IInv
  BY InitInv, InvStep, PTL DEF Spec

\* Every --json command leaves exactly one envelope, and it says "ok" exactly
\* when the command succeeded.
THEOREM ExactlyOneEnvelope == Spec => []OneEnvelope
<1>1. IInv => OneEnvelope
  BY DEF IInv, EnvelopeInv, OneEnvelope, Done
<1> QED
  BY <1>1, Invariance, PTL

\* However a job ends, its private working directories are gone.
THEOREM WorkdirsRemoved == Spec => []NoWorkdirLeft
<1>1. IInv => NoWorkdirLeft
  BY DEF IInv, WorkdirInv, NoWorkdirLeft, Done
<1> QED
  BY <1>1, Invariance, PTL

\* An agent that retries only on printed: false never has two jobs running.
THEOREM NeverTwoJobs == Spec => []AtMostOneJob
<1>1. IInv => AtMostOneJob
  BY DEF IInv, Types, JobInv, AtMostOneJob
<1> QED
  BY <1>1, Invariance, PTL

\* The plate the printer is told to print is one its file has, through the job
\* and through the next_command it hands out.
THEOREM PlateExists == Spec => []PlateIsSliced
<1>1. IInv => PlateIsSliced
  BY DEF IInv, PlateInv, PlateIsSliced
<1> QED
  BY <1>1, Invariance, PTL

\* What a dry run tells an agent is what the real run then does (DryRunIsTrue): a plain
\* file it accepts is not refused at any later step, and the run slices and prints
\* exactly if the dry run said so.
THEOREM DryRunsTellTheTruth == Spec => []DryRunIsTrue
<1>1. IInv => DryRunIsTrue
  <2> SUFFICES ASSUME IInv PROVE DryRunIsTrue
    OBVIOUS
  <2>1. DryOkMeansAccepted
    BY DEF IInv, RunInv, Plain, DryOkMeansAccepted
  <2>2. PreviewAgrees
    BY DEF IInv, PreviewInv, RunInv, PreviewAgrees
  <2> QED
    BY <2>1, <2>2 DEF DryRunIsTrue
<1> QED
  BY <1>1, Invariance, PTL

----------------------------------------------------------------------------
(* Type correctness. *)

AllTypes ==
  /\ RunTypes /\ FlagTypes /\ ReportTypes /\ PreviewTypes /\ PrinterTypes /\ file \in Files

JobPipelineInv == IInv /\ AllTypes

\* The agent starts with everything well typed.
LEMMA InitAllTypes == Init => JobPipelineInv
<1> SUFFICES ASSUME Init PROVE JobPipelineInv
  OBVIOUS
<1>1. RunTypes /\ FlagTypes /\ file \in Files
  <2>1. given \in Files /\ file = given
    BY DEF Init
  <2>2. guess \in Kinds \cup {"zip"}
    <3>1. given.kind \in Kinds
      BY <2>1, GivenShape DEF Shape
    <3>2. guess \in {"model", "zip", given.kind}
      BY DEF Init, Guesses
    <3> QED
      BY <3>1, <3>2 DEF Kinds
  <2>3. /\ source \in Sources /\ args \in Args
        /\ mode \in {"none", "dry", "real", "print"} /\ runs \in 0..MaxRuns
        /\ pc \in PCs /\ plate \in {0} \cup Plates
    BY JobAssumption DEF Init, JobAssumption, PCs
  <2>4. leftover \in BOOLEAN /\ sliced \in BOOLEAN
    BY Zenon DEF Init
  <2> QED
    BY <2>1, <2>2, <2>3, <2>4 DEF Init, RunTypes, FlagTypes
<1>2. ReportTypes /\ PreviewTypes
  BY FieldsTyped DEF Init, ReportTypes, PreviewTypes
<1>3. PrinterTypes
  BY DEF Init, PrinterTypes, UnderWay
<1> QED
  BY <1>1, <1>2, <1>3, InitInv DEF JobPipelineInv, AllTypes

\* And no step changes that.
LEMMA AllTypesStep == JobPipelineInv /\ [Next]_vars => JobPipelineInv'
<1> SUFFICES ASSUME JobPipelineInv, [Next]_vars PROVE JobPipelineInv'
  OBVIOUS
<1>1. Types /\ file \in Shape /\ given \in Files
  BY DEF JobPipelineInv, IInv, Types
<1>2. RunTypes' /\ FlagTypes' /\ ReportTypes' /\ PreviewTypes' /\ PrinterTypes'
  BY <1>1, RunTypesStep, FlagTypesStep, ReportTypesStep, PreviewTypesStep, PrinterTypesStep
  DEF JobPipelineInv, AllTypes
<1>3. file' \in Files
  BY <1>1, FileTypesStep DEF JobPipelineInv, AllTypes
<1> QED
  BY <1>2, <1>3, InvStep DEF JobPipelineInv, AllTypes

\* So every variable has its type (TypeOK).
LEMMA TypesFollow == JobPipelineInv => TypeOK
<1> SUFFICES ASSUME JobPipelineInv PROVE TypeOK
  OBVIOUS
<1>1. /\ source \in Sources /\ guess \in Kinds \cup {"zip"} /\ args \in Args
      /\ given \in Files /\ file \in Files
      /\ mode \in {"none", "dry", "real", "print"} /\ runs \in 0..MaxRuns
      /\ pc \in PCs /\ plate \in {0} \cup Plates
  BY DEF JobPipelineInv, AllTypes, RunTypes
<1>2. /\ leftover \in BOOLEAN /\ sliced \in BOOLEAN
      /\ outcome \in {"none", "ok", "refused", "failed", "interrupted"} /\ raised \in Fields
      /\ envelope \in [status: {"none", "ok", "error"}, fields: Fields]
      /\ preview \in [ok: BOOLEAN, slice: {"yes", "no", "unsaid"}, print: BOOLEAN]
  BY DEF JobPipelineInv, AllTypes, FlagTypes, ReportTypes, PreviewTypes
<1>3. emitted \in 0..1
  BY DEF JobPipelineInv, IInv, Types, EnvelopeInv
<1>4. /\ remote \subseteq Plates /\ asked \in {0} \cup Plates
      /\ started \in 0..MaxRuns /\ ended \in 0..started
  BY <1>1, JobAssumption DEF JobPipelineInv, AllTypes, IInv, Types, JobInv, PrinterTypes, JobAssumption
<1> QED
  BY <1>1, <1>2, <1>3, <1>4 DEF TypeOK

\* Every variable of the agent's commands, and of setup and the migration beside them,
\* has its type (JobTypes), for any number of commands, files, printers and codes.
THEOREM JobTypeCorrect == MCSpec => []JobTypes
<1>1. MCInit => JobPipelineInv /\ SetupInv
  BY InitAllTypes, SetupInitInv DEF MCInit
<1>2. JobPipelineInv /\ SetupInv /\ [MCNext]_all => (JobPipelineInv /\ SetupInv)'
  <2> SUFFICES ASSUME JobPipelineInv, SetupInv, [MCNext]_all PROVE JobPipelineInv' /\ SetupInv'
    OBVIOUS
  <2>1. [Next]_vars /\ [SetupNext]_setupVars
    BY DEF MCNext, all
  <2> QED
    BY <2>1, AllTypesStep, SetupInvStep
<1>3. JobPipelineInv /\ SetupInv => JobTypes
  BY TypesFollow DEF SetupInv, JobTypes
<1> QED
  BY <1>1, <1>2, <1>3, PTL DEF MCSpec
=============================================================================
