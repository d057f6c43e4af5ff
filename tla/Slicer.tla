------------------------------- MODULE Slicer -------------------------------
(***************************************************************************)
(* plate slice: cmd_slice (slicer/cmd.py), step_convert.py, profiles.py,   *)
(* the run of OrcaSlicer (orca.py) and the judgement of what it made       *)
(* (output.py).  Several runs of the same model write the same output      *)
(* file, one after another or at the same time.                            *)
(*                                                                         *)
(* OrcaSlicer is external: it may write anything or nothing, exit with or  *)
(* without an error, hang, or leave a helper in its process group that     *)
(* holds its output open after it, for a while or for ever.                *)
(* Ctrl-C is taken where a step waits or reads files.  Two writes of the   *)
(* output differ in time or size, so a file is known by the run that wrote *)
(* it.  Progress, messages and the profiles' contents are left out.        *)
(***************************************************************************)
EXTENDS SliceOptions

CONSTANTS Runs, Nothing,
  Before,      \* what the output file may be beforehand, Nothing included
  Requests     \* [overrides, base, profiles, quality]

VARIABLES
  request,
  pc, step,    \* the next step of a run; its model is a STEP file
  profile,     \* the process profile it slices with
  temp,        \* the temporary files and directories there are
  held,        \* of them, those the run knows of and will remove
  child,       \* OrcaSlicer: "none", "running", "exited", "reaped" by poll(), "killed"
  pipe,        \* something holds OrcaSlicer's output open
  code,        \* its return code: "zero", "error", or "noise" of a display
  made,        \* the file in the private directory
  snap,        \* pre_snapshot
  out,         \* the output file
  outcome, reported,   \* how the run ended; the file it reports
  hit          \* history: the step at which Ctrl-C came

local == <<request, step>>
vars == <<local, pc, profile, temp, held, child, pipe, code, made, snap, out, outcome, reported, hit>>

Kinds == {"empty", "corrupt", "model", "plates"}
Valid(kind) == kind \in {"model", "plates"}      \* _is_valid_sliced_3mf

\* A kind of file, written by a run while others were under way.
File(kind, by, with) == [is |-> kind, by |-> by, with |-> with]

\* Nothing is no file; an override has one of the forms and kinds of keys told apart.
ASSUME SlicerAssumption ==
  LET Overrides == [key : Keys, value : [form : Forms, items : Seq(Seq(Texts))]]
      Files     == [is : Kinds, by : Runs \cup {Nothing}, with : SUBSET Runs]
  IN  /\ Nothing \notin Files /\ Before \subseteq Files \cup {Nothing}
      /\ \A q \in Requests : q.overrides \in [Sources -> [Sections -> SUBSET Overrides]]

Steps == {"start", "convert", "process", "filament", "machine", "workdir", "launch", "launched",
          "watch", "close", "move", "replace", "cleanup", "abandon", "finalize", "remove", "over"}

InitRuns ==
  /\ step \in [Runs -> BOOLEAN]
  /\ pc = [r \in Runs |-> "start"] /\ profile = [r \in Runs |-> Nothing]
  /\ temp = [r \in Runs |-> {}] /\ held = [r \in Runs |-> {}]
  /\ child = [r \in Runs |-> "none"] /\ pipe = [r \in Runs |-> FALSE]
  /\ code = [r \in Runs |-> "zero"] /\ made = [r \in Runs |-> Nothing]
  /\ snap = [r \in Runs |-> Nothing]
  /\ out \in Before
  /\ outcome = [r \in Runs |-> "none"] /\ reported = [r \in Runs |-> Nothing]
  /\ hit = [r \in Runs |-> "none"]

Init == request \in Requests /\ InitRuns

Active == {r \in Runs : pc[r] \notin {"start", "over"}}

----------------------------------------------------------------------------

Goto(r, label) == pc' = [pc EXCEPT ![r] = label]

\* An error is raised: the finally of cmd_slice follows, and no judgement.
Fail(r) == Goto(r, "abandon") /\ UNCHANGED <<local, outcome, reported, hit>>
Go(r, label) == Goto(r, label) /\ UNCHANGED <<local, outcome, reported, hit>>

Make(r, names) == temp' = [temp EXCEPT ![r] = @ \cup names]
Hold(r, names) == held' = [held EXCEPT ![r] = @ \cup names]
Drop(r, names) == temp' = [temp EXCEPT ![r] = @ \ names]

orca == <<child, pipe, code, made>>
files == <<snap, out>>

\* The arguments are checked before anything is made.
Start(r) ==
  /\ pc[r] = "start"
  /\ \/ Go(r, IF step[r] THEN "convert" ELSE "process") /\ Accepted(request.overrides)
     \/ Goto(r, "over") /\ outcome' = [outcome EXCEPT ![r] = "failed"] /\ UNCHANGED <<local, reported, hit>>
  /\ UNCHANGED <<profile, temp, held, orca, files>>

\* _convert_step_to_stl: its directory passes to the run only on success.
Convert(r) ==
  /\ pc[r] = "convert"
  /\ \/ Go(r, "process") /\ Make(r, {"step"}) /\ Hold(r, {"step"})
     \/ Fail(r) /\ UNCHANGED <<temp, held>>
  /\ UNCHANGED <<profile, orca, files>>

\* The printer's profiles are looked up, then _create_temp_profiles makes the first file.
Process(r) ==
  /\ pc[r] = "process"
  /\ \/ \E p \in ProcessProfiles(request.profiles, request.quality) :
          profile' = [profile EXCEPT ![r] = p] /\ Make(r, {"proc"}) /\ Go(r, "filament")
     \/ Fail(r) /\ UNCHANGED <<profile, temp>>
  /\ UNCHANGED <<held, orca, files>>

\* The second one; an error removes both, and the run knows of them when both are there.
Filament(r) ==
  /\ pc[r] = "filament"
  /\ \/ Make(r, {"fil"}) /\ Hold(r, {"proc", "fil"}) /\ Go(r, "machine")
     \/ Drop(r, {"proc"}) /\ UNCHANGED held /\ Fail(r)
  /\ UNCHANGED <<profile, orca, files>>

Machine(r) ==
  /\ pc[r] = "machine"
  /\ \/ Make(r, {"mach"}) /\ Hold(r, {"mach"}) /\ Go(r, "workdir")
     \/ UNCHANGED <<temp, held>> /\ Fail(r)
  /\ UNCHANGED <<profile, orca, files>>

\* Bug: the file there before is looked at only after OrcaSlicer has run.
WorkdirBlind(r) ==
  /\ pc[r] = "workdir"
  /\ \/ Make(r, {"work"}) /\ Hold(r, {"work"}) /\ Go(r, "launch")
     \/ UNCHANGED <<temp, held>> /\ Fail(r)
  /\ UNCHANGED <<profile, orca, files>>

\* OrcaSlicer's private directory, and _output_snapshot.
Workdir(r) ==
  /\ pc[r] = "workdir"
  /\ \/ /\ Make(r, {"work"}) /\ Hold(r, {"work"}) /\ Go(r, "launch")
        /\ snap' = [snap EXCEPT ![r] = out]
     \/ UNCHANGED <<temp, held, snap>> /\ Fail(r)
  /\ UNCHANGED <<profile, orca, out>>

Launch(r) ==
  /\ pc[r] = "launch"
  /\ \/ /\ child' = [child EXCEPT ![r] = "running"] /\ pipe' = [pipe EXCEPT ![r] = TRUE]
        /\ Go(r, "launched")
     \/ UNCHANGED <<child, pipe>> /\ Fail(r)
  /\ UNCHANGED <<profile, temp, held, code, made, files>>

\* The reader threads are started, and the watch loop is entered.
Watch(r) ==
  /\ pc[r] = "launched" /\ Go(r, "watch")
  /\ UNCHANGED <<profile, temp, held, orca, files>>

\* _kill_proc_tree: the group is found by the process at its head, so once that is
\* reaped nobody is killed, and a helper goes on to hold the output open.
KillTree(r) ==
  /\ child' = [child EXCEPT ![r] = IF @ = "reaped" THEN @ ELSE "killed"]
  /\ pipe' = [pipe EXCEPT ![r] = @ /\ child[r] = "reaped"]
  /\ UNCHANGED <<code, made>>

\* proc.poll() has an exit code.  The loop is left when the readers are at the end too.
Reap(r) ==
  /\ child[r] \in {"exited", "reaped"}
  /\ child' = [child EXCEPT ![r] = "reaped"] /\ UNCHANGED <<pipe, code, made>>
  /\ Go(r, IF pipe[r] THEN "watch" ELSE "move")

\* Bug: the time is not looked at once OrcaSlicer has exited.
PollPatient(r) ==
  /\ pc[r] = "watch"
  /\ Reap(r) \/ (child[r] = "running" /\ KillTree(r) /\ Go(r, "close"))
  /\ UNCHANGED <<profile, temp, held, files>>

\* Bug: the private directory goes before the file is moved out of it.
PollCleaning(r) ==
  /\ pc[r] = "watch"
  /\ Reap(r) \/ (KillTree(r) /\ Go(r, "close"))
  /\ Drop(r, {"work"}) /\ held' = [held EXCEPT ![r] = @ \ {"work"}]
  /\ UNCHANGED <<profile, files>>

\* OrcaSlicer has exited and its output is read to the end, or the time is up.
Poll(r) ==
  /\ pc[r] = "watch"
  /\ Reap(r) \/ (KillTree(r) /\ Go(r, "close"))
  /\ UNCHANGED <<profile, temp, held, files>>

\* stream.close() waits for the reader of that stream, and the reader for the output's end.
Close(r) ==
  /\ pc[r] = "close" /\ ~pipe[r] /\ Fail(r)
  /\ UNCHANGED <<profile, temp, held, orca, files>>

\* _classify_slice_result, for a file that is there and fresh.
Judged(return, kind) ==
  CASE return = "zero" /\ Valid(kind) -> "ok"
    [] return = "zero" -> "remove"
    [] return = "noise" /\ Valid(kind) -> "ok"
    [] OTHER -> "failed"

\* Bug: whatever OrcaSlicer wrote takes the place of the output.
MoveAlways(r) ==
  /\ pc[r] = "move"
  /\ IF made[r] = Nothing THEN Go(r, "cleanup") /\ UNCHANGED made
     ELSE Go(r, "replace") /\ UNCHANGED made
  /\ UNCHANGED <<profile, temp, held, child, pipe, code, files>>

\* A file that would be refused does not take the place of one that is there.
Move(r) ==
  /\ pc[r] = "move"
  /\ IF made[r] = Nothing THEN Go(r, "cleanup") /\ UNCHANGED made
     ELSE IF out # Nothing /\ Judged(code[r], made[r]) # "ok"
     THEN Go(r, "cleanup") /\ made' = [made EXCEPT ![r] = Nothing]
     ELSE Go(r, "replace") /\ UNCHANGED made
  /\ UNCHANGED <<profile, temp, held, child, pipe, code, files>>

Replace(r) ==
  /\ pc[r] = "replace" /\ Go(r, "cleanup")
  /\ out' = File(made[r], r, Active) /\ made' = [made EXCEPT ![r] = Nothing]
  /\ UNCHANGED <<profile, temp, held, child, pipe, code, snap>>

\* The finally: the private directory, the profiles and the converted model go.
Cleanup(r) ==
  /\ pc[r] \in {"cleanup", "abandon"}
  /\ Drop(r, held[r])
  /\ held' = [held EXCEPT ![r] = {}] /\ made' = [made EXCEPT ![r] = Nothing]
  /\ Goto(r, IF pc[r] = "cleanup" THEN "finalize" ELSE "over")
  /\ outcome' = [outcome EXCEPT ![r] = IF pc[r] = "abandon" THEN "failed" ELSE @]
  /\ UNCHANGED <<local, profile, child, pipe, code, files, reported, hit>>

\* _finalize_slice: a file that was there before the run is stale.
Finalize(r) ==
  /\ pc[r] = "finalize"
  /\ LET verdict == IF out = Nothing \/ out = snap[r] THEN "failed" ELSE Judged(code[r], out.is)
     IN  /\ Goto(r, IF verdict = "remove" THEN "remove" ELSE "over")
         /\ outcome' = [outcome EXCEPT ![r] = IF verdict = "remove" THEN @ ELSE verdict]
         /\ reported' = [reported EXCEPT ![r] = IF verdict = "ok" THEN out ELSE Nothing]
  /\ UNCHANGED <<local, profile, temp, held, orca, files, hit>>

\* An empty or corrupt output is removed.
RemoveOutput(r) ==
  /\ pc[r] = "remove" /\ out' = Nothing
  /\ Goto(r, "over") /\ outcome' = [outcome EXCEPT ![r] = "failed"]
  /\ UNCHANGED <<local, profile, temp, held, orca, snap, reported, hit>>

\* Ctrl-C.  The watch loop kills OrcaSlicer and closes its output, if no second Ctrl-C comes
\* between the two; where the output is judged nothing is left to do.
Interrupt(r) ==
  /\ pc[r] \notin {"start", "over", "cleanup", "abandon"}
  /\ hit' = [hit EXCEPT ![r] = pc[r]]
  /\ IF pc[r] \in {"finalize", "remove"}
     THEN Goto(r, "over") /\ outcome' = [outcome EXCEPT ![r] = "failed"]
     ELSE Goto(r, IF pc[r] = "watch" THEN "close" ELSE "abandon") /\ UNCHANGED outcome
  /\ IF pc[r] = "watch" THEN KillTree(r) ELSE UNCHANGED orca
  /\ \/ UNCHANGED temp
     \/ pc[r] = "filament" /\ Make(r, {"fil"})
     \/ pc[r] = "machine" /\ Make(r, {"mach"})
  /\ UNCHANGED <<local, profile, held, files, reported>>

----------------------------------------------------------------------------
(* OrcaSlicer. *)

Write(r) ==
  /\ child[r] = "running" /\ "work" \in temp[r]
  /\ \E kind \in Kinds : made' = [made EXCEPT ![r] = kind]
  /\ UNCHANGED <<local, pc, profile, temp, held, child, pipe, code, files, outcome, reported, hit>>

Exit(r) ==
  /\ child[r] = "running"
  /\ child' = [child EXCEPT ![r] = "exited"]
  /\ \E c \in {"zero", "error", "noise"} : code' = [code EXCEPT ![r] = c]
  /\ \E open \in BOOLEAN : pipe' = [pipe EXCEPT ![r] = open]
  /\ UNCHANGED <<local, pc, profile, temp, held, made, files, outcome, reported, hit>>

\* The helper ends, or lets go of the output.
HelperEnds(r) ==
  /\ pipe[r] /\ child[r] \in {"exited", "reaped"} /\ pipe' = [pipe EXCEPT ![r] = FALSE]
  /\ UNCHANGED <<local, pc, profile, temp, held, child, code, made, files, outcome, reported, hit>>

Prepare(r) == Start(r) \/ Convert(r) \/ Process(r) \/ Filament(r) \/ Machine(r) \/ Workdir(r)
Finish(r) == Launch(r) \/ Watch(r) \/ Poll(r) \/ Close(r) \/ Move(r) \/ Replace(r) \/ Cleanup(r)
             \/ Finalize(r) \/ RemoveOutput(r)

Next == \E r \in Runs : Prepare(r) \/ Finish(r) \/ Interrupt(r) \/ Write(r) \/ Exit(r) \/ HelperEnds(r)

Spec == Init /\ [][Next]_vars

\* gmsh and OrcaSlicer are waited for with a timeout; nothing is assumed of OrcaSlicer.
Fairness == \A r \in Runs : WF_vars(Prepare(r) \/ Finish(r))
FairSpec == Spec /\ Fairness

----------------------------------------------------------------------------

TypeOK ==
  /\ \A r \in Runs :
       /\ pc[r] \in Steps /\ held[r] \subseteq temp[r]
       /\ temp[r] \subseteq {"step", "proc", "fil", "mach", "work"}
       /\ made[r] # Nothing => "work" \in temp[r]
       /\ (pc[r] = "over") <=> (outcome[r] \in {"ok", "failed"})
  /\ out # Nothing => out.is \in Kinds /\ out.with \subseteq Runs

\* A run that is over leaves no temporary file or directory, no OrcaSlicer and no helper that
\* holds its output, except what Ctrl-C leaves while a profile is written (its handlers catch
\* Exception only), between the start of OrcaSlicer and the loop that kills it, or before the
\* output is closed.
NothingLeft ==
  \A r \in Runs : pc[r] = "over" =>
    /\ \/ temp[r] = {}
       \/ hit[r] = "filament" /\ temp[r] \subseteq {"proc", "fil"}
       \/ hit[r] = "machine" /\ temp[r] = {"mach"}
    /\ child[r] = "running" => hit[r] = "launched"
    /\ pipe[r] => hit[r] \in {"launched", "close"}

\* A slice reported as done is this run's, or that of a run that wrote it meanwhile; never
\* one that was there before (output.py: "refusing to reuse the stale").
ReportedIsNew ==
  \A r \in Runs : outcome[r] = "ok" =>
    /\ Valid(reported[r].is)
    /\ reported[r].by = r \/ r \in reported[r].with

\* However a run ends: what it reports is its own, and nothing else of it is left.
EndsClean == NothingLeft /\ ReportedIsNew

\* A good output is replaced or removed only by a run that has a good one, or that was
\* already under way when the good one came (cmd.py: "A failed run must not overwrite an
\* earlier good output").
GoodOutputKept ==
  [][out # Nothing /\ Valid(out.is) /\ out' # out =>
       \/ out' # Nothing /\ Valid(out'.is)
       \/ \E r \in out.with : pc'[r] # pc[r]]_vars

\* The profile is one for this printer, of the height asked for when that was a number,
\* and with the name asked for where the printer has one of that name.
ProfileAsAsked ==
  \A r \in Runs : profile[r] # Nothing =>
    LET q == request.quality  p == profile[r]
    IN  /\ p.mine \/ p.fits
        /\ q.numeric => p.height = q.height
        /\ (\E o \in request.profiles : Usable(o) /\ o.height = q.height /\ o.word = q.word)
             => p.height = q.height /\ p.word = q.word

\* Whatever OrcaSlicer is given, from whichever option and in whatever form: a temperature
\* is within the limits, and G-code, scripts and printer settings are the profiles' own.
OverridesSafe ==
  \A r \in Runs : child[r] # "none" =>
    \A o \in Written(request.overrides, request.base) :
      /\ o.key \notin {"script", "machine"}
      /\ o.key \in TemperatureKeys =>
           o.value.form # "object" /\ AllTexts(o.value) # {} /\ AllTexts(o.value) \subseteq Allowed(o.key)

\* Every run comes to an end, though OrcaSlicer or a helper of it may hang ("Raises
\* subprocess.TimeoutExpired when the slice exceeds slicer_timeout").
Finishes == \A r \in Runs : <>(pc[r] = "over")

\* Every run comes to an end, unless it is closing an output that a helper of OrcaSlicer,
\* which has exited itself, never lets go of.
FinishesUnlessHeld ==
  \A r \in Runs : <>(pc[r] = "over") \/ <>[](pc[r] = "close" /\ pipe[r] /\ child[r] = "reaped")
=============================================================================
