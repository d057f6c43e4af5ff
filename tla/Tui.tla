-------------------------------- MODULE Tui --------------------------------
(***************************************************************************)
(* The terminal UI (tui/app.py, tui/screens, PipelineService): prepare     *)
(* screens, the settings screen, the confirmation modal and its job, and   *)
(* the threads that read the AMS, slice and print.                         *)
(*                                                                         *)
(* A handler of the UI is one action: its screen runs it, and the          *)
(* callback of a dismissed screen, on one queue in order.  Threads step    *)
(* between handlers and hand their result to the UI with call_from_thread, *)
(* which still works while the app is closing, until the threads are       *)
(* joined.  A modal takes the app's keys.  Textual is external; layout and *)
(* wording are left out, and the dashboard is in StatusHold.               *)
(*                                                                         *)
(* Screens and runs are pools: an object nothing refers to any more is     *)
(* free to stand for the next one, so there is no bound on how many there  *)
(* are in all, only on how many there are at one time.                     *)
(***************************************************************************)
EXTENDS AmsFeed, Sequences, FiniteSets, SequencesExt

CONSTANTS
  Reports,      \* what the AMS may show
  Kinds,        \* of the files prepared, see NewRun
  Nobody,       \* neither a screen nor a run
  Screens, Runs, MaxDepth   \* bounds: screens and runs at one time, stack depth

ASSUME NobodyAssumption == Nobody \notin Screens \cup Runs
ASSUME KindsAssumption == Kinds \subseteq {"sliced", "downloaded", "own"}

VARIABLES
  phase, inFlight,   \* the app: running, closing, ended; _job_in_flight
  stack,             \* its screens, the top one last
  scr,               \* the prepare screens
  run,               \* the prepare runs, each with its working directory
  modal,             \* the confirmation modal
  ams,               \* what the AMS shows
  sent, lost         \* history: the print the job has just sent; a declined file was lost

vars == <<phase, inFlight, stack, scr, run, modal, ams, sent, lost>>

\* The next member of a pool that is free, if any.
Least(pool, Free(_)) == {n \in pool : Free(n) /\ \A k \in pool : Free(k) => n <= k}

NewScreen ==
  [open |-> TRUE, material |-> Default, touched |-> FALSE, det |-> NoDetection,
   detecting |-> TRUE,
   preparing |-> FALSE, work |-> Nobody, result |-> Nobody, handed |-> Nobody]

NoScreen == [NewScreen EXCEPT !.open = FALSE, !.detecting = FALSE]

NoModal == [open |-> FALSE, run |-> Nobody, owns |-> FALSE, job |-> "idle",
            confirm |-> FALSE, failed |-> FALSE, checked |-> Nothing]

NoRun == [screen |-> Nobody, stage |-> "free", material |-> Default, det |-> NoDetection,
          ok |-> FALSE, kind |-> "sliced", dir |-> FALSE, current |-> TRUE]

\* kind: sliced here; printer-ready and downloaded; or the user's own file.
\* current: sliced with the settings its screen has now (history).
NewRun(p) == [NoRun EXCEPT !.screen = p, !.stage = "queued", !.material = scr[p].material,
                           !.dir = TRUE]

NoPrint == [slot |-> Nothing, checked |-> Nothing, material |-> Default, kind |-> "sliced"]

Init ==
  /\ phase = "running" /\ inFlight = FALSE
  /\ stack = <<[kind |-> "dashboard", of |-> Nobody]>>
  /\ scr = [p \in Screens |-> NoScreen] /\ run = [r \in Runs |-> NoRun] /\ modal = NoModal
  /\ ams \in Reports
  /\ sent = NoPrint /\ lost = FALSE

----------------------------------------------------------------------------
(* The app. *)

Top == Last(stack)
Pop == Front(stack)
App == phase = "running"
On(kind) == App /\ Top.kind = kind
OnScreen(p) == On("prepare") /\ Top.of = p

\* An app key reaches no binding while a modal is on top.
AppKey == App /\ Top.kind \notin {"confirm", "help"}

Push(kind, of) ==
  /\ Len(stack) < MaxDepth
  /\ stack' = Append(stack, [kind |-> kind, of |-> of])

Unused(p) == ~scr[p].open /\ ~scr[p].detecting /\ \A r \in Runs : run[r].screen # p

\* The setup is usable; where it is not, a screen says so and keeps nothing.
NewPrint ==
  /\ AppKey /\ Top.kind # "prepare"
  /\ \E p \in Least(Screens, Unused) :
       /\ Push("prepare", p)
       /\ scr' = [scr EXCEPT ![p] = NewScreen]
  /\ UNCHANGED <<phase, inFlight, run, modal, ams, sent, lost>>

OpenMonitor ==
  /\ AppKey /\ Top.kind # "monitor"
  /\ Push("monitor", Nobody)
  /\ UNCHANGED <<phase, inFlight, scr, run, modal, ams, sent, lost>>

Help ==
  /\ App /\ Top.kind # "help"
  /\ ~(Top.kind = "confirm" /\ modal.job # "idle")
  /\ Push("help", Nobody)
  /\ UNCHANGED <<phase, inFlight, scr, run, modal, ams, sent, lost>>

CloseOverlay ==
  /\ App /\ Top.kind \in {"help", "monitor"}
  /\ stack' = Pop
  /\ UNCHANGED <<phase, inFlight, scr, run, modal, ams, sent, lost>>

\* cleanup_workdir.  An idle run is then of no more use; a busy one goes on, but
\* what it was started with no longer matters, since its result is dropped.
Cleaned(r) ==
  IF run[r].stage = "over" THEN NoRun
  ELSE [NoRun EXCEPT !.screen = run[r].screen, !.stage = run[r].stage]

\* _discard_workdir of the screens ps
Discarding(ps) ==
  [r \in Runs |-> IF \E p \in ps : scr[p].work = r THEN Cleaned(r) ELSE run[r]]

\* _left_screen; what is kept is what the AMS thread still needs.
Unmounted(p) == [NoScreen EXCEPT !.detecting = scr[p].detecting]

Closing ==
  /\ phase' = "closing" /\ stack' = <<>>
  /\ scr' = [p \in Screens |-> Unmounted(p)]
  /\ run' = LET rest == Discarding(Screens)
            IN  IF modal.open /\ modal.owns
                THEN [rest EXCEPT ![modal.run] = Cleaned(modal.run)] ELSE rest
  /\ modal' = [modal EXCEPT !.open = FALSE, !.owns = FALSE]
  /\ UNCHANGED <<inFlight, ams, sent, lost>>

\* Every screen is unmounted; a modal that owns a run deletes its directory.
Quit == App /\ ~inFlight /\ Closing

\* app.run returns once its threads are joined.
Ended ==
  /\ phase = "closing" /\ modal.job = "idle"
  /\ \A r \in Runs : run[r].stage \in {"free", "over"}
  /\ \A p \in Screens : ~scr[p].detecting
  /\ phase' = "ended"
  /\ UNCHANGED <<inFlight, stack, scr, run, modal, ams, sent, lost>>

----------------------------------------------------------------------------
(* A prepare screen. *)

Back(p) ==
  /\ OnScreen(p)
  /\ stack' = Pop
  /\ scr' = [scr EXCEPT ![p] = Unmounted(p)]
  /\ run' = Discarding({p})
  /\ UNCHANGED <<phase, inFlight, modal, ams, sent, lost>>

\* The AMS thread reads the printer (a read may fail) and hands the result over,
\* in one step: what happens between the two can as well happen after it.  A
\* choice of the user's is left alone; the press of the detection itself is told
\* apart from it.
Detection(p) ==
  /\ scr[p].detecting
  /\ \E rep \in {ams, Nothing} :
       LET seen == Detect(rep)
           s == [scr[p] EXCEPT !.detecting = FALSE]
       IN  scr' = [scr EXCEPT ![p] =
             IF ~s.open THEN s
             ELSE [s EXCEPT !.det = seen,
                            !.material = IF seen.material # Nothing /\ ~s.touched
                                         THEN seen.material ELSE @]]
  /\ UNCHANGED <<phase, inFlight, stack, run, modal, ams, sent, lost>>

Pick(p) ==
  /\ OnScreen(p)
  /\ \E mat \in Materials \ {scr[p].material} :
        scr' = [scr EXCEPT ![p].material = mat, ![p].touched = TRUE]
  /\ UNCHANGED <<phase, inFlight, stack, run, modal, ams, sent, lost>>

\* Bug: the directory of an earlier run is forgotten.
StartPrepareForgetting(p) ==
  /\ OnScreen(p) /\ ~scr[p].preparing
  /\ \E r \in Least(Runs, LAMBDA q : run[q].stage = "free") :
       /\ run' = [run EXCEPT ![r] = NewRun(p)]
       /\ scr' = [scr EXCEPT ![p].work = r, ![p].result = Nobody, ![p].preparing = TRUE]
  /\ UNCHANGED <<phase, inFlight, stack, modal, ams, sent, lost>>

\* The source is valid; what an earlier run left is deleted first.
StartPrepare(p) ==
  /\ OnScreen(p) /\ ~scr[p].preparing
  /\ \E r \in Least(Runs, LAMBDA q : Discarding({p})[q].stage = "free") :
       /\ run' = [Discarding({p}) EXCEPT ![r] = NewRun(p)]
       /\ scr' = [scr EXCEPT ![p].work = r, ![p].result = Nobody, ![p].preparing = TRUE]
  /\ UNCHANGED <<phase, inFlight, stack, modal, ams, sent, lost>>

\* The settings of a printer-ready file, or of a run under way, are locked.
SettingsLocked(p) ==
  scr[p].preparing \/ (scr[p].result # Nobody /\ run[scr[p].result].kind # "sliced")

OpenSettings(p) ==
  /\ OnScreen(p) /\ ~SettingsLocked(p)
  /\ Push("settings", p)
  /\ UNCHANGED <<phase, inFlight, scr, run, modal, ams, sent, lost>>

Outdated(runs, p) ==
  [r \in Runs |-> IF runs[r].screen = p THEN [runs[r] EXCEPT !.current = FALSE] ELSE runs[r]]

\* _settings_closed: a preview describes the old slice and is dropped.
ApplySettings(p) ==
  /\ On("settings") /\ Top.of = p
  /\ stack' = Pop
  /\ IF scr[p].result = Nobody
     THEN run' = Outdated(run, p) /\ UNCHANGED scr
     ELSE /\ run' = Outdated(Discarding({p}), p)
          /\ scr' = [scr EXCEPT ![p].result = Nobody, ![p].work = Nobody]
  /\ UNCHANGED <<phase, inFlight, modal, ams, sent, lost>>

CancelSettings ==
  /\ On("settings")
  /\ stack' = Pop
  /\ UNCHANGED <<phase, inFlight, scr, run, modal, ams, sent, lost>>

----------------------------------------------------------------------------
(* The prepare thread. *)

\* The detection is read here, after the material was frozen.
PrepareBegin(r) ==
  /\ run[r].stage = "queued"
  /\ run' = [run EXCEPT ![r].stage = "working", ![r].det = scr[run[r].screen].det]
  /\ UNCHANGED <<phase, inFlight, stack, scr, modal, ams, sent, lost>>

\* PipelineService.prepare cleans up after a failure.  Where the user has left and
\* the directory was deleted under the thread, a later step may create it again.
PrepareEnd(r) ==
  /\ run[r].stage = "working"
  /\ \/ run' = [run EXCEPT ![r].stage = "done", ![r].dir = FALSE]
     \/ /\ ~scr[run[r].screen].open
        /\ run' = [run EXCEPT ![r].stage = "done", ![r].dir = TRUE]
     \/ /\ scr[run[r].screen].open
        /\ \E kind \in Kinds :
             run' = [run EXCEPT ![r].stage = "done", ![r].ok = TRUE, ![r].kind = kind]
  /\ UNCHANGED <<phase, inFlight, stack, scr, modal, ams, sent, lost>>

Delivered(r) ==
  LET p == run[r].screen IN
  /\ run' = [run EXCEPT ![r].stage = "over"]
  /\ scr' = [scr EXCEPT ![p].preparing = FALSE, ![p].result = IF run[r].ok THEN r ELSE Nobody]

\* Bug: a result that comes too late is ignored.
IgnoreLateResult(r) ==
  /\ run[r].stage = "done"
  /\ \/ scr[run[r].screen].open /\ Delivered(r)
     \/ ~scr[run[r].screen].open /\ run' = [run EXCEPT ![r].stage = "over"] /\ UNCHANGED scr
  /\ UNCHANGED <<phase, inFlight, stack, modal, ams, sent, lost>>

\* _apply_result, on the UI thread: dropped if the user has left.
ApplyResult(r) ==
  /\ run[r].stage = "done"
  /\ \/ scr[run[r].screen].open /\ Delivered(r)
     \/ ~scr[run[r].screen].open /\ run' = [run EXCEPT ![r] = NoRun] /\ UNCHANGED scr
  /\ UNCHANGED <<phase, inFlight, stack, modal, ams, sent, lost>>

----------------------------------------------------------------------------
(* The confirmation modal, pushed by the prepare screen that hands it the run. *)

Opened(p) ==
  /\ OnScreen(p) /\ scr[p].result # Nobody /\ ~scr[p].preparing
  /\ Push("confirm", p)
  /\ modal' = [NoModal EXCEPT !.open = TRUE, !.owns = TRUE, !.run = scr[p].result]

\* Bug: the screen keeps its handle on the directory.
OpenConfirmSharing(p) ==
  /\ Opened(p)
  /\ scr' = [scr EXCEPT ![p].handed = scr[p].result, ![p].result = Nobody]
  /\ UNCHANGED <<phase, inFlight, run, ams, sent, lost>>

\* open_confirm and take_result
OpenConfirm(p) ==
  /\ Opened(p)
  /\ scr' = [scr EXCEPT ![p].handed = scr[p].result, ![p].result = Nobody, ![p].work = Nobody]
  /\ UNCHANGED <<phase, inFlight, run, ams, sent, lost>>

\* Esc: the screen adopts its run again.
ConfirmBack ==
  /\ On("confirm") /\ modal.job = "idle"
  /\ modal' = NoModal /\ stack' = Pop
  /\ LET p == Top.of
         r == scr[p].handed
     IN  scr' = [scr EXCEPT ![p].work = r, ![p].result = r, ![p].handed = Nobody]
  /\ UNCHANGED <<phase, inFlight, run, ams, sent, lost>>

\* Where preserve_printable leaves the file: moved out, inside the directory when
\* the move fails, or where it was when it is the user's own.
Preserved(r) == IF run[r].kind = "own" THEN {"own"} ELSE {"moved", "inside"}

\* cleanup_workdir spares a file that was deliberately left inside.
Spared(place) == place = "inside"

\* Cancel.  The directory with a spared file is nobody's any more.
Decline ==
  LET r == modal.run IN
  /\ On("confirm") /\ modal.job = "idle"
  /\ \E place \in Preserved(r) :
       lost' = (lost \/ (place = "inside" /\ ~Spared(place)) \/ (place = "moved" /\ ~run[r].dir))
  /\ run' = [run EXCEPT ![r] = NoRun]
  /\ modal' = NoModal /\ stack' = Pop
  /\ scr' = [scr EXCEPT ![Top.of].handed = Nobody]
  /\ UNCHANGED <<phase, inFlight, ams, sent>>

StartJob ==
  /\ On("confirm") /\ modal.job = "idle"
  /\ \E confirm \in BOOLEAN :
        modal' = [modal EXCEPT !.job = "checking", !.confirm = confirm]
  /\ inFlight' = TRUE
  /\ UNCHANGED <<phase, stack, scr, run, ams, sent, lost>>

\* Bug: the AMS is not read again.
JobUnchecked ==
  /\ modal.job = "checking"
  /\ modal' = [modal EXCEPT !.job = "sending", !.checked = ams]
  /\ UNCHANGED <<phase, inFlight, stack, scr, run, ams, sent, lost>>

\* The job thread: ams_change_problem, then cmd_job.
JobCheck ==
  /\ modal.job = "checking"
  /\ \E rep \in {ams, Nothing} :
       IF modal.confirm /\ ChangeProblem(run[modal.run], rep)
       THEN modal' = [modal EXCEPT !.job = "done", !.failed = TRUE]
       ELSE modal' = [modal EXCEPT !.job = "sending", !.checked = rep]
  /\ UNCHANGED <<phase, inFlight, stack, scr, run, ams, sent, lost>>

\* cmd_job succeeds, fails with nothing sent, or fails with the print sent.
JobSend ==
  /\ modal.job = "sending"
  /\ \E failed \in BOOLEAN :
       /\ modal' = [modal EXCEPT !.job = "done", !.failed = failed, !.checked = Nothing]
       /\ \/ (failed \/ ~modal.confirm) /\ UNCHANGED sent
          \/ /\ modal.confirm
             /\ LET r == run[modal.run] IN
                sent' = [slot |-> FeedSlot(r), checked |-> modal.checked,
                         material |-> r.material, kind |-> r.kind]
  /\ UNCHANGED <<phase, inFlight, stack, scr, run, ams, lost>>

\* _ensure_on_top
ModalAt == SelectInSeq(stack, LAMBDA s : s.kind = "confirm")

\* _job_done, on the UI thread, and _confirm_closed after a success.
JobDone ==
  /\ modal.job = "done"
  /\ inFlight' = FALSE
  /\ IF modal.failed
     THEN /\ modal' = [modal EXCEPT !.job = "idle", !.confirm = FALSE, !.failed = FALSE]
          /\ stack' = SubSeq(stack, 1, ModalAt)
          /\ UNCHANGED <<scr, run>>
     ELSE /\ run' = [run EXCEPT ![modal.run] = NoRun]
          /\ scr' = IF ModalAt = 0 THEN scr
                    ELSE [scr EXCEPT ![stack[ModalAt].of].handed = Nobody]
          /\ modal' = NoModal
          /\ stack' = SubSeq(stack, 1, ModalAt - 1) \o
                      (IF modal.confirm THEN <<[kind |-> "monitor", of |-> Nobody]>> ELSE <<>>)
  /\ sent' = NoPrint
  /\ UNCHANGED <<phase, ams, lost>>

----------------------------------------------------------------------------
(* The printer: a spool is swapped or another tray is loaded. *)

Swap ==
  /\ phase # "ended"
  /\ \E rep \in Reports \ {ams} : ams' = rep
  /\ UNCHANGED <<phase, inFlight, stack, scr, run, modal, sent, lost>>

User ==
  \/ NewPrint \/ OpenMonitor \/ Help \/ CloseOverlay \/ Quit
  \/ CancelSettings \/ ConfirmBack \/ Decline \/ StartJob
  \/ \E p \in Screens : \/ Back(p) \/ Pick(p) \/ StartPrepare(p) \/ OpenSettings(p)
                        \/ ApplySettings(p) \/ OpenConfirm(p)

Threads ==
  \/ JobCheck \/ JobSend \/ JobDone \/ Ended
  \/ \E p \in Screens : Detection(p)
  \/ \E r \in Runs : PrepareBegin(r) \/ PrepareEnd(r) \/ ApplyResult(r)

Next == User \/ Threads \/ Swap

Spec == Init /\ [][Next]_vars

----------------------------------------------------------------------------

TypeOK ==
  /\ phase \in {"running", "closing", "ended"} /\ inFlight \in BOOLEAN
  /\ \A i \in 1..Len(stack) :
       /\ stack[i].kind \in {"dashboard", "prepare", "settings", "confirm", "monitor", "help"}
       /\ stack[i].of \in {Nobody} \cup Screens
  /\ \A p \in Screens :
       /\ scr[p].material \in Materials
       /\ scr[p].detecting \in BOOLEAN
       /\ {scr[p].work, scr[p].result, scr[p].handed} \subseteq {Nobody} \cup Runs
  /\ \A r \in Runs :
       /\ run[r].screen \in {Nobody} \cup Screens
       /\ run[r].stage \in {"free", "queued", "working", "done", "over"}
       /\ run[r].dir \in BOOLEAN /\ run[r].kind \in {"sliced"} \cup Kinds
  /\ modal.job \in {"idle", "checking", "sending", "done"}
  /\ modal.run \in {Nobody} \cup Runs

ModalOwns(r) == modal.open /\ modal.owns /\ modal.run = r
ScreensOwning(r) == {p \in Screens : scr[p].open /\ scr[p].work = r}

\* The working directory of a run belongs to one screen or to the modal
\* (confirm.py: "While this modal is open it is the sole owner"), or its thread
\* still has to deliver; otherwise it is gone.
DirHasOneOwner ==
  \A r \in Runs :
    /\ Cardinality(ScreensOwning(r)) <= IF ModalOwns(r) THEN 0 ELSE 1
    /\ run[r].dir /\ run[r].stage = "over" => ModalOwns(r) \/ ScreensOwning(r) # {}

\* A preview on display is of a file that is still there, and was sliced with the
\* settings of its screen (prepare.py: "that preview describes the old slice").
PreviewIsCurrent ==
  \A p \in Screens : LET r == scr[p].result IN
    r # Nobody => (run[r].dir \/ run[r].kind = "own") /\ run[r].current

\* The file a job uploads is there until the job is over, whatever the user does.
JobHasFile ==
  modal.job \in {"checking", "sending"} => run[modal.run].dir \/ run[modal.run].kind = "own"

\* Declining loses no work (core.py: "must never silently delete work").
DeclinedFileSurvives == ~lost

\* A print that feeds from the AMS was started after a read that showed the tray
\* active and filled with the material the file was prepared for, although the
\* detection, the user's choice, the slice and a swap come in any order.
FedAsPrepared ==
  sent.slot # Nothing =>
    /\ sent.checked # Nothing
    /\ sent.checked.now = sent.slot
    /\ sent.checked.tray[sent.slot] = sent.material

\* Nothing covers a modal whose job is under way: it could not be dismissed.
BusyModalOnTop == modal.open /\ modal.job # "idle" => Top.kind = "confirm"

\* A working directory has one owner and the files in use are there, however the
\* threads, the screens and the confirmation interleave.
WorkdirOwned ==
  DirHasOneOwner /\ PreviewIsCurrent /\ JobHasFile /\ DeclinedFileSurvives /\ BusyModalOnTop

\* core.py:571 of the tray the AMS feeds: "that slot holds exactly what was
\* sliced for".  TLC refutes it: a printer-ready file was sliced elsewhere.
FedWhatWasSliced == sent.slot # Nothing => sent.kind = "sliced"
=============================================================================
