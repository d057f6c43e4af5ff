# platecli in TLA+

platecli (`src/bambu_cli`) drives Bambu Lab printers on the local network, from
a command line (`plate`) and a terminal UI. It downloads or opens a model,
slices it with OrcaSlicer, stores the result on the printer over FTPS and
starts the print over MQTT; humans use the UI, scripts and agents use `--json`.

The parts of a job that are expensive to get wrong are the ones a test hardly
reaches: a command that is published twice because a reconnect raced the
caller, an answer `printed: false` for a print that starts, a file that arrived
with the right size and the wrong bytes, a second print started by a retry.
This directory models those parts, checks them with TLC on small instances and
proves the most important facts with TLAPS for every value of the constants.

Contents: 1 the system, 2 the modules, 3 the runs, 4 bounds and fairness,
5 the proofs, 6 what the code does differently from what it says, 7 what is
not modelled, 8 the plan. `PROJECT.json` maps every definition to its source
lines and lists components, runs, hazards, mutants and theorems.

## 1. The system

| Component | State it keeps | Operations | Hard because | Correct means |
|---|---|---|---|---|
| Held MQTT session (`protocols/mqtt_session.py`) | the paho client, `_live`, merged print state, pending payload, once-flag, wait events; `_op_lock` and `_state_lock` | `send_command`, `get_status`, `get_version`, `close`; callbacks on paho's network thread | two threads on every flag; late callbacks while `loop_stop` joins | a command out at most once, its result true, no stale status, every call returns |
| One-shot MQTT (`mqtt_cmd.py`, `mqtt_print.py`, `mqtt_monitor.py`) | closures shared with callbacks of one client | `send_command`, `get_status`, `execute_print_command`, `monitor_status` | timeout against a late CONNACK, PUBACK or report | what is reported is what the printer did |
| Printer facade (`printer.py`) | cached session, `last_size_verified`, resume offset | `upload_file`, `download_file`, `list_files`, `delete_file`, `hold_mqtt`/`release_mqtt` | any FTPS call may fail at any byte; retries resume | the printer's file is the local file |
| Job pipeline (`job/`) | the file in hand, private work directories, summary and envelope | download, extract, slice, upload, print; `--dry-run` predicts them | failure or Ctrl-C at every step; an agent reads the envelope and retries | one envelope, no leftovers, never two prints, prediction equals run |
| CLI entry (`cli.py`, `utils.py`, `jsonio.py`, `errors.py`, `contracts/`) | the "already emitted" flag and recorded error detail | parse, dispatch, map errors to exit codes and envelopes | several writers of one document | exactly one JSON document per command |
| Commands (`commands/`) | none | files, print, device, gcode, status, doctor, snapshot | `upload` checks a printer state that may change | refuse what the job refuses |
| Terminal UI (`tui/`) | screens, workers, `StatusService`, detected material and slot, the prepared work directory | navigate, prepare, confirm, settings, monitor | workers finish after the screen is gone; ownership of the directory moves | directory removed once and never in use; no second print by accident |
| Wizard (`interactive/`) | answers, detected AMS state | prompts around the same pipeline | printer changes between answers | AMS feed rule at the time of printing |
| Downloader (`download/`, `fsutil.py`, `netsafety.py`) | placeholders, partial files | fetch, name, validate, extract | every failing path must clean up; concurrent names | no partial file left, none overwritten |
| Slicer (`slicer/`, `gcode_limits.py`) | private output directory | run OrcaSlicer, pick, check and move its output | stale outputs of earlier runs | the file returned is this run's |
| Setup and migration (`setup_cmd/`, `config.py`) | configuration and secret file | wizard, migrate, validate | two files written one after the other | no access code lost, retryable |
| Resolver (`utils.py` `_try_resolve_ip`) | one in-flight attempt, a cache | resolve with timeout | abandoned workers | one worker at a time, no stale answer |
| Context (`context.py`) | the cached printer object | `printer()` | reached from several threads | one printer object |
| Printables, AMS, camera, TLS (`printables/`, `ams.py`, `camera.py`, `tlspin.py`) | none that outlives a call | HTTP, parsing, sockets | almost all input and output | parsing rules |

How they interact: the CLI builds a context; commands, job, wizard and UI ask
it for the one `BambuPrinter`, whose MQTT methods use the held session if one
is held and a one-shot client otherwise, and whose FTPS methods open a
connection per attempt. The job calls the step commands in-process and reads
their results from the context; errors travel as `BambuError` and as recorded
error detail, and whoever writes the envelope first wins. paho's network
thread calls back into closures or session attributes.

`PROJECT.json` lists the hazards at their lines, with the properties that would
notice them; the one no property covers carries a note.

## 2. The modules

| Component module | Models | Proofs |
|---|---|---|
| `MqttSession` | the held session: caller threads, paho's network thread, link and printer | `MqttSession_proofs` |
| `CommandSend`, `AtMostOnceCommand` | the one-shot `send_command` with late callbacks, and the promise it makes | `OneShot_proofs` |
| `PrintStart` | `execute_print_command`, and a printer that acknowledges, refuses, fails or re-reports an old error | `OneShot_proofs` |
| `StatusQuery` | the one-shot `get_status` and `get_version` | `OneShot_proofs` |
| `Monitor` | `status --monitor`: paho's own reconnects, merged reports, a reader that goes away | `OneShot_proofs` |
| `StatusHold` | the Terminal UI's status workers, the session they share, and its release while the app closes | `OneShot_proofs` |
| `Resolver` | `_try_resolve_ip`: slot in flight, daemon thread, cache | `OneShot_proofs` |
| `Upload` | `upload_file`: delete, STOR, SIZE, probe, resume, retry | `Files_proofs` |
| `Files` | the file commands and `download_file` on one printer object, around `Upload` | `Files_proofs` |
| `Snapshot` | `plate snapshot`: the camera's frames, the Docker streamer, the output two processes share | `Files_proofs` |
| `JobPipeline` | `_run_job`, its steps as outcomes, the envelope, and an agent that retries | `JobPipeline_proofs` |
| `Setup` | setup, guided setup, the migration of the access code, doctor's pin: every write, failure and kill | `Setup_proofs` |
| `AmsFeed` | `parse_ams` and the rules by which a print feeds from a tray, as operators | `Interactive_proofs` |
| `Tui` | prepare screens, settings, confirmation and job, with their threads | `Interactive_proofs` |
| `Wizard` | `plate go`, prompt by prompt | `Interactive_proofs` |
| `Names`, `Download`, `Delivery` | the name rules; a download through pages, redirects and archives into a shared directory; what it promises those who share it | `Download_proofs` |
| `SliceOptions`, `Slicer` | override checks and profile choice; `plate slice` around an OrcaSlicer process | `Slicer_proofs` |
| `GcodeScan` | the heater check of a file read in chunks | `Slicer_proofs` |

`Files` extends `Upload`, `Tui` and `Wizard` extend `AmsFeed`, `Download`
extends `Names`, `Slicer` extends `SliceOptions`: these share state or rules.
The `MC_` modules are instances for TLC. Components that never meet in one
process are put side by side in one instance and run one at a time (`scene`,
`part`, `front`, `agenda`: chosen at the start, never changed; the variables of
the others keep an initial value). That adds their state spaces instead of
multiplying them, and saves a run each. The conjunctions such a run checks
(`AnswersAreTrue`, `FedRight`, ...) are defined in the `MC_` module, or in the
component's when they are of one component; their parts are named and
explained where they are defined.

**`MqttSession`.** `pc[t]` is the program counter of a caller thread; one label
per place where another thread can be noticed: before `_op_lock`, before each
wait, between the once-flag's test-and-set (`MarkIssued`, `OnConnectMark`, one
critical section of `_state_lock` each) and `client.publish`
(`PublishCommand`, `OnConnectPublish`). The four operations share the attempt
loop `Begin .. NextAttempt`; `op[t]` tells them apart where the code differs
(only `send_command` stays on `CheckIssued`, only `get_version` gives up
without a reset). `_reset_client` is `Reset` (attributes cleared) and `Join`
(`loop_stop`), with the old client's callback possibly still running between
the two. An `Event.wait(timeout)` is a step that may be taken at any time and
reads the event: that covers both the wake-up and the timeout. `printState`
abstracts the merged dictionary to how many of the required keys it holds.
`outq`, `acks`, `wire`, `orphans` and `executed` are the external side: paho
queues, sends, and forgets on a lost link, since the client is made with
`reconnect_on_failure=False`; what is on the wire when a link dies (`orphans`)
may still reach the printer.

**`CommandSend`, `PrintStart`, `StatusQuery`** have one shape: caller, network
thread, a client that lives for one attempt, printer. Where the verdict is
formed differs: `send_command` decides after `loop_stop` (`Teardown` before
`Decide`), `execute_print_command` judges a timeout before it (`Judge` before
`Teardown`), and `get_status` keeps what it has merged over attempts and looks
a last time after them (`LastWord`). The flags have the closures' names.

**`Monitor`.** The callback of a report merges it and writes its events;
`reader` says whether anybody still reads the stream. Writing to a closed one
raises in the callback, where the code only logs it, so nothing after the merge
happens.

**`StatusHold`.** Workers read `StatusService._printer` and the printer's
session without a lock and use them later (`got`, `sess`); `close` runs twice,
before and after the workers end. `astray` remembers the sessions that such a
stale read has opened again, and those of a printer object that another first
fetch has replaced.

**`Resolver`.** A slot is a number; its thread is `looking`, has `set` the event,
or is `gone`. `Answered` and `DropSlot` are two steps, as in the code.

**`Upload`, `Files`.** `Upload` keeps the code's locals (`uploaded`, `attempted`,
`attempt`) and the printer's file as a size and one bit of content: whether
every byte it holds is the local file's byte at that place. `Write` says what
a STOR with or without REST does to it. Every operation may fail in a way the
code retries or in one it does not; a delete may fail silently. `Files` runs
commands one after another on one `BambuPrinter`: only `last_size_verified`
(`sizeVerified`) outlives a call. The printer starts and ends prints of its
own between any two steps; `blind` remembers that a command could not know
of the present one. `Stopped` is Ctrl-C, or an error no handler takes, at any
place of any command: nothing is undone. `part` tells a temporary file that could
not be removed (`stuck`) from one nobody tried to remove (`there`).

**`Snapshot`.** A frame is `stale` (left over from an earlier connection of the
camera), `fresh`, or whatever the streamer answered (`page`). The container and
the output are shared by the processes. `Interrupted` is Ctrl-C at any place. `temp`
follows the temporary file: `begun`, `moved` over the output, or `stuck`. After the
move comes one more step that may fail (`Report`).

**`JobPipeline`** sees the steps from outside: `Download`, `Extract`, `Slice`,
`Upload`, `StartPrint` succeed, refuse or fail. A file is its kind, the plates a
3MF holds, whether it is empty and whether its G-code exceeds a heater limit:
just what `_run_job` and its checks tell apart. The agent runs `--dry-run`, the
job, the job again while the envelope is an error with `printed: false`, and
the `next_command` (`plate print`) of a job that only uploaded. Because an error
envelope of `plate print` itself has no `printed` field, the agent does not
retry that. `Raised` and `Recorded` keep the two sources of an error's detail
apart, as the code does; `SummaryAfter` is their merge. `Finally` and `Main` are
the `finally` clause and `cli.main`'s handlers.

**`Setup`.** A code belongs to a printer and a generation (`<<printer, gen>>`), so a
mix-up shows. `config`, `bak` and `secret` are files that are absent, torn or
whole; a command first decides what to write (`todo`), then each write is a
temporary file and a rename, or, in a redirected directory, a rewrite in place
that may tear the file. Any write may fail, and the process may be killed
before or after each. The backup and a fresh secret are removed if they can be; the
record `run` remembers a backup that could not (`stuck`).

**`Tui`.** A handler is one action on the UI thread, together with the callback
of a screen it dismisses; worker threads step between handlers and hand their
result over. Screens and runs (a run is a prepared file and its working
directory) are pools: one that nothing refers to is free again, so their number
is bounded at one time only.

**`Wizard`.** One action per prompt or step; `Stop` is an aborted prompt or
Ctrl-C at any of them, and `Cleanup` the `finally` clause.

**`Download`.** The directory is a function from names to who wrote the file and
how far. A name is reserved by exclusive creation, the bytes go to a temporary
sibling, the rename comes last; any step may fail, be interrupted, or find the
name taken by the other download. `Delivery` is the same directory as a listing
shows it: a download is one step, which adds finished files under new names;
`Shelf` is the mapping, the files of the user and of downloads that have ended.
It hides one thing, what a step without a handler left unfinished (`strayed`,
section 6). **`Slicer`** has the same shape around a child
process that may write anything, hang, or leave a helper holding its pipe. `child`
tells an OrcaSlicer that has `exited` from one that `poll` has `reaped`: only the
first can still be found, and its group killed. `Close` is `stream.close()`, which
waits until nobody holds the output.
In `Names`, `SliceOptions` and `GcodeScan` texts are sequences of a few tokens,
one for each class of text that the code tells apart.

Definitions headed `Bug:` are not part of a specification: each is a definition
changed the way a plausible programming error would change it, and
`PROJECT.json` says which property must notice it.

## 3. The runs

| Run | Checks | Shows |
|---|---|---|
| `session` | `TypeOK`, `AtMostOnce`, `SnapshotSurvivedNoDrop`, `ResultIsFinal` | two threads, all four operations: a command goes out once at most, never after its call was told True or False, and `get_status` never answers from a link lost before the call |
| `session_returns` | `CallsReturn` | every call ends, whatever the link does, and no callback waits for its joiner |
| `oneshot` | `OneShotTypes`, `KeepsPromise`, `AnswersAreTrue`, `SessionOwned`, `OneLiveLookup`, `OneShotsEnd` | `send_command` implements `AtMostOnceCommand`; print verdicts, statuses and the monitor's exit are true; the UI's workers share one session and give it back; one lookup hangs at most; every call ends |
| `upload` | `FilesTypes`, `DeliveredWhole`, `ResumeOffsetExists`, `DownloadAllOrNothing`, `RunningFileKept`, `StreamerOnlyIfAllowed`, `SnapshotOrNothing`, `CommandsEnd` | what was uploaded is the local file, resumed or not, after any other command on the same object; a destination or output is whole or untouched, whatever fails, and each end says which; the file of a print that could be seen is kept; no streamer without leave |
| `job` | `JobTypes`, `OneEnvelope`, `NoWorkdirLeft`, `PlateIsSliced`, `AtMostOneJob`, `DryRunIsTrue`, `ReportsAreTrue`, `NothingLostOrCopied` | the job's promises to an agent under every failure and Ctrl-C; setup's promises to its user under every failed write or removal and kill |
| `interactive` | `InteractiveTypes`, `WorkdirOwned`, `WorkKept`, `FedRight` | each working directory has one owner and outlives its use; a finished slice and the user's own file survive; the AMS feeds what was prepared |
| `fetch` | `TypeOK`, `EndsRight`, `SharesDirectory`, `Finishes` | two downloads into one directory leave only what they report, never touch each other's files (`OwnFilesOnly`) and implement `Delivery` (`DeliversAtOnce`) |
| `slice` | `TypeOK`, `EndsClean`, `SettingsAreSafe`, `GoodOutputKept`, `FinishesUnlessHeld` | what a slice reports is its own; a good output is kept; no temperature past its limit by any way in; no process left; it ends, but for the case of section 6 |
| `session_late_ack` | `TrueMeansExecuted` violated | section 6 |
| `print_late_connect` | `PrintedFalseMeansNotStarted` violated | section 6 |
| `upload_resume` | `DeliveredWhole` violated | section 6 |
| `job_error_code` | `ErrorCodeReported` violated | section 6 |

Deadlock checking is off in all of them: calls, retries and commands are
bounded, so each system rightly stops.

## 4. Bounds and fairness

* `session`: two threads, two payloads, three calls, one retry. Two threads are
  what contention for `_op_lock` needs; everything under the lock is one caller
  against one network thread. Three calls allow a command, a call that loses
  or replaces the link, and a third that meets what was left behind. One retry
  gives both a first and a last attempt. Threads and payloads are symmetric;
  all four properties are safety properties and treat them alike.
* `session_returns`: two threads, one payload, two calls, no symmetry since
  the property is a liveness property.
* `oneshot`: `Retries = QRetries = 2`, so a first, a middle and a last attempt;
  `MaxReports = 3` reports in flight to the print: an old snapshot, the
  acknowledgement and the error of the new job. Two required keys: a status
  can be empty, partial and whole. One lost connection of the monitor, so
  merged state from before it. Three workers (the dashboard, the monitor, the
  detection, which goes through the context), two fetches and two objects of
  each kind: enough for a session that was replaced. Two callers and three
  slots of the resolver: a slot abandoned, one joined, one after it.
* `upload`: `FileSize = 4`, the code's own three retries, earlier file absent,
  empty or of five bytes. Four bytes allow a resume at three offsets and a
  break between any two of them; an upload that meets a shorter earlier
  file is in `upload_resume`. `MaxCommands = 2`, so that every command meets
  what another left on the object. Two snapshots: one with any settings, one
  that only has the streamer; three headers read, one frame skipped, one try to
  reach the streamer, which may then be there or not. Settings in which a flag
  changes nothing (`directOnly` without leave, `insecure` beside a pin) are left out.
* `job`: local and URL, archived or not, all 3MF plate sets over two plates, all
  flags, four commands: dry run, run, retry, and another retry or `plate print`.
  `setup`: two printers with two generations of codes, two paths, two commands,
  one kill: a command that is killed and the one that finishes its work.
* `interactive`: two screens, two runs, a stack of four; the active tray is in
  the second unit, and its spool may be swapped for one without a preset. The
  wizard reads any state of two trays and an external spool, at each read.
* `fetch`: two downloads of one name, each with two pages and one rate-limit
  retry; or one download of every name of up to three tokens. A third process
  adds no new meeting: reservations are exclusive in pairs.
* `slice`: two runs; or one run with any override, in any form, and any two
  installed profiles; or the check of every file of up to four tokens in chunks
  of at most two, which puts each line break across a boundary. The output found is
  nothing or a good file; of what is there the code asks only whether it is there and
  fresh (`cmd.py:482`, `output.py:115`).

Fairness. Weak fairness of a thread's or command's next step, as the scheduler
runs one that is not blocked and every wait, socket and subprocess has a timeout
(`Caller`, `PCaller`, `Asking`, `Watching`, `Fetching`, `Leaving`, `Resolving`,
`Commanding`, `Shooting`, and the steps of a download or slice). A callback that
began ends (`Callback`, `OnConnectPublish`): it calls nothing that blocks on the
caller. In an instance of several parts, only the part that runs is fair.
Nothing is assumed of the link, the broker, the printer, the camera, the name
server, Docker, OrcaSlicer or a helper of it: every liveness property holds for ones
that stay silent for good. Ctrl-C need not come. For the user nothing is assumed either, so `Tui` and `Wizard`
have no liveness property.

## 5. The proofs

Every safety property that a passing run checks, invariant, action property or
refinement, is also proved, for all values of the constants. The proofs rest on the modules' named assumptions
alone, which TLC evaluates in each run: numbers are naturals, a "none" is
not one of the things it is none of, requests and reports have their types, a
file present before a download is not under a temporary name
(`DownloadAssumption`), and nobody but the user owns a file as "user".

Each part has one inductive invariant, a conjunction of named parts; its
module proves that every action keeps it, one lemma per action where it is
long, and reads the theorems off it. A run's conjunction over several
components (`OneShotTypes`, `FedRight`, ...) is proved of the `MC_` module's
specification, in which a step is one of a component or stutters for it.

**`MqttSession_proofs`.** `AtMostOnce` is not inductive: it does not say who may
still publish. `IInv` adds `LockInv` (the thread inside an operation is the
holder of `_op_lock`), `CallInv` (a payload belongs to one call and is not
fresh), `PendingInv` (what is pending is the holder's payload), `IssueInv` (a
payload that is fresh, waiting for the lock, or pending with the flag down was
never published; raising the flag makes its raiser, caller or network thread,
the one publisher) and `CopiesInv` (queued, travelling and executed copies add
up to no more than were published): `CommandAtMostOnce`. For `SnapshotsAreFresh`
it adds `LinkInv` (a callback runs only while the link is up; a session without
a client is quiet once its thread is joined) and `DeadInv` (data of a dead link
is gone once a call has connected); for `ResultsAreFinal`, `SendInv`: each
definite answer of `send_command` is given on a quiet connection, so nothing is
issued behind it. That is where `_reset_client`'s join is needed.
`TrueUnlessLateAck` and `FalseUnlessLateIssue` are about what section 6 refutes: in
behaviours without the step `LateAck`, `TrueMeansExecuted` holds (`EventInv`: an
acknowledged command was executed; `TrueInv`: the event of a waiting send is of its
own command, and so is its True);
without `LateIssue`, `FalseMeansNotPublished` does (`FalseInv`: who is on the way to
False has nothing issued). `LateIssue` is a send giving its connection up although
its payload is out: issued on the connection it had stopped waiting for, or between
the end of that wait and the end of the loop.

**`OneShot_proofs`.** `SendKeepsPromise` (`Spec => Abs!Spec`) is a step simulation:
the shared flag goes up before the only publish (`FlagInv`), and no client
exists when the verdict is formed (`DoneInv`). `PrintVerdictIsTrue`: a verdict
is formed from what the closures heard (`HeardInv`), which is what the printer
said of this job (`ReportInv`), which it can only say after the one publish
(`MessageInv`); `JudgeInv` says which verdicts each way out can give.
`StatusIsTrue`: what is merged was reported over the attempts (`AttemptInv`), and
an empty answer means that none came (`QuietInv`). `MonitorEndsTruly`: the loop
is over only by a refusal or a terminal event (`OverInv`). `SessionIsOwned`:
`OwnedInv` finds an owner for each open session that no stale read has opened
again: the printer of the service or of the context, or the app that is releasing
it. `LookupIsShared`: who is about to start the thread of a slot is alone with
the slot in flight (`OwnerInv`), and a thread at work is that of the slot in
flight (`WorkInv`). `FalseUnlessLateConnect`: without a connection accepted in the
teardown, a verdict that nothing was sent is given with nothing sent (`UnsentInv`).
`OneShotAnswersAreTrue` and `OneShotTypeCorrect` put them
together.

**`Files_proofs`.** `ResumeOffsetValid`: the first attempt never resumes
(`OffsetInv`). `UploadDelivers` and `EveryUploadDelivers` hold under
`NoTrustedPrefix` (an earlier file of this name is empty or longer than the new
one): `ContentInv` says that a resumed or verified file is ours and a foreign
one is too long to be mistaken for it. `upload_resume` is what happens without
that hypothesis. Among other commands (`ResumeAmongCommands`) an upload starts
from nothing each time (`BetweenInv`). `DownloadIsAtomic` and
`RunningFileIsKept`: the destination is as it was until the last step, and what
replaces it has the size the printer told; a temporary file is that of the download
under way, or of one that was stopped or could not remove it (`SinkInv`); an upload past its check
did not see its file being printed (`BlindInv`). `StreamerNeedsLeave` and
`SnapshotIsSound`: a failed pin ends a process, a streamer's answer is only in
the hands of one that may ask it (`TrustInv`); a temporary file is that of a
process about to move it, and one that was moved is that of a process about to
report (`TempInv`), unless the process has ended in one of the ways the property names.

**`JobPipeline_proofs`.** `EnvelopeInv` (a command under way has written nothing;
an exit without an envelope goes through main) gives `ExactlyOneEnvelope`;
`WorkdirInv` (only a running job owns a directory) `WorkdirsRemoved`; `JobInv` (a
job is running only after a report that forbids a retry: true, null, or no
`printed` field at all after a Ctrl-C) `NeverTwoJobs`, for any number of commands,
where TLC stops at four; `FileInv` and `PlateInv` (plate to print, plate asked for
and plates on the printer agree across retries, as every run chooses from the
same file) `PlateExists`. `DryRunsTellTheTruth` compares two commands that never
meet in one state. Both are tied to the request instead: what a dry run
announced follows from the arguments and, for a plain file, from that file being
fit (`PreviewInv`); how far a run came says what its file passed and whether it
was sliced (`RunInv`).

**`Setup_proofs`.** The promise of a run (what it reports if nothing stops it)
depends on writes still to come. `PlanInv` states it ahead: the writes that are
left `Fits`, that is, once done they make the promise true, and none of them, in a
run that is not forced, takes away a code that works. `TmpInv` says that the
temporary file is the next write, `DoneInv` that a run that has answered kept its
promise, `ResumeInv` that what a killed migration left is taken up again.
`SetupReportsAreTrue` is the invariant at the last write; `SetupLosesNothing` is
proved of each single step under it, so it holds whichever write fails or is the
last before a kill. A command that takes the code out of the config plans no write
with a backup, so no step of it makes one (`BackupAlone`).

**`Interactive_proofs`.** `TInv` of the terminal UI: a screen's result is the file of
its own run (`ScreenInv`), a run whose screen is open belongs to it or to the
modal, and one whose screen was left has only its thread to come (`RunInv`), the
modal owns what it was handed and has seen the AMS before it sends (`ModalInv`),
the stack is a dashboard with at most one confirmation (`ShapeInv`), and what is
on it is open (`LinkInv`). `ScreensOwnTheirFiles` is read off it for any number of
screens and runs and any depth of stack, which TLC bounds at two, two and four.
`WInv` of the wizard follows the kind of the file and where the slice is from
step to step (`KindInv`, `SliceInv`: `WizardKeepsWork`), and what was read from
the AMS until the print (`WReadInv`). `FrontsFeedRight` joins the two.

**`Download_proofs`.** `DInv` says, label by label, which files of the directory are
this download's: none before it reserves a name, then exactly the reserved and
the partial file, then the archive, the member and its target (`Started`,
`Named`, `Looked`, `Filled`, `Opened`, `Ended`). From it each exit is seen to
remove all but what it reports (`EveryDownloadEndsRight`), and each step to touch
nobody else's (`OwnFiles`). That the delivered name is one the printer-side
commands accept goes back to the name rules: a repaired name is `Sound` (begins
with no blank or dot, holds no separator, is no device name), and so is any name
made of it by cutting, numbering or an extension, for every raw name.
`DeliveryIsKept` (`Spec => Promise!Spec`) is a step simulation: a step that goes on
or takes back its own changes nothing on the shelf (`ShelfStays`), since what
is there belongs to others (`OthersOnShelf`), and the one that ends a download
adds what `Ended` says of it (`ShelfGains`).

**`Slicer_proofs`.** A run's own files are followed by `TempsKnown` (those it made are
those it knows of, except in the windows section 6 names), the child and
who holds its output by `ChildWatched`, the accepted options and the chosen profile by `OptionsChecked`. The
output is shared: `OutputSeen` says that a run that looked at it sees what it saw,
nothing, or a file written while the run was under way; both `EveryRunEndsClean`
and `GoodOutputIsKept` follow from that. `ProfileIsAsAsked` and
`OverridesAreSafe` are the parts of `SettingsAreSafe` on what OrcaSlicer is given,
for any requests and installed profiles.

The rest of it (`FilesAreScanned`) is about a printer-ready file before it is sent:
read in chunks of any sizes it is judged by its lines (`LinesOfTheFile`), and one
found clean heats nothing past its limit (`CleanIsCool`), for files of any length.
What the scan computes is defined by recursive functions over the text, so this
needs induction over data. The library's induction theorems cannot be cited with
the provers at hand; `NatInduct` and `SeqInduct` state induction for a set instead
of a predicate, and follow from the least element that the well-foundedness of `<`
gives. One more token is one more step of the recursion (`FedMore`, `ParsedMore`),
so by induction a text may be read in parts (`FedJoin`). `ScanInv` is then
inductive: the lines given out so far, followed by what reading on from the pending
piece gives, are the lines of the whole file (`Balanced`), wherever a chunk was cut;
and a temperature of a heater command is one the scan finds (`HeaterOn`,
`HotFound`). `SettingsStaySafe` joins it to the other parts.

Only model-checked:

* liveness (`CallsReturn`, `OneShotsEnd`, `CommandsEnd`, `Finishes` of
  `Download`, `FinishesUnlessHeld`): the prover has
  no ENABLED and no fairness rules;
* the statements that do not hold (section 6). Of four of them a theorem says where
  they do: `TrueMeansExecuted`, `FalseMeansNotPublished` and
  `PrintedFalseMeansNotStarted` in behaviours without their one racing step
  (`LateAck`, `LateIssue`, `LateConnect`), and `DeliveredWhole` under
  `NoTrustedPrefix`.

## 6. Where the code differs from what it says

Checked by a run that finds the violation:

* `session_late_ack`: `_on_publish` ignores the message id and the client, so a
  late PUBACK of an earlier command (or paho's notice that a pushall went out)
  ends the wait of a later one, which returns True before its own PUBACK. Nothing
  else leads there (`TrueUnlessLateAck`).
* `print_late_connect`: in `execute_print_command` a timeout is judged before
  `loop_stop`, and the connection may be accepted between the two:
  `printed: false`, and the print starts. No other window does it
  (`FalseUnlessLateConnect`).
* `upload_resume`: if the first attempt fails before it could delete, a shorter
  earlier file of that name is taken for the first part of this upload; the
  sizes match in the end and the upload counts as verified.
* `job_error_code`: the printer's error code is recorded, but the envelope is
  built from the raised error, which does not carry it.

Stated in a module and refuted by TLC when it is put in a configuration; no
run is spent on them:

* `MqttSession!FalseMeansNotPublished`: the connect wait times out, `_on_connect`
  issues the pending payload before `_reset_client` has stopped the loop, and
  `send_command` goes on to return False; only so (`FalseUnlessLateIssue`).
* `JobPipeline!DryOkMeansFlagsAccepted`: a dry run of a ZIP returns before the
  `--plate` checks (`orchestrate.py:361`, against the comment at 119-122).
* `Tui!FedWhatWasSliced`: a printer-ready file is fed from the active tray though
  nobody here sliced it for that material (`core.py:571`).
* `Slicer!Finishes`: `_kill_proc_tree` finds the group through OrcaSlicer itself. Once
  `proc.poll()` (`orca.py:193`) has reaped it, `os.getpgid` (111) raises and
  `proc.kill()` (116) does nothing: a helper that keeps the output open lives on, and
  when the time is up `stream.close()` (220-223) waits for the reader, and that for
  the helper. Only so (`FinishesUnlessHeld`),
  against the docstring ("Raises subprocess.TimeoutExpired", 85).
* `StatusHold!NothingOpenAtExit`: a worker that has read the session, or waits
  for its lock, connects it again after `close`.
* `Monitor!TerminalEndsAlone`: once the reader of the stream has gone, a
  terminal state never ends the loop.

Seen while modelling, reachable in the models:

* `mqtt_session.py:118`: `_live` is set before the subscribe, and a caller that
  finds a live client may publish before it, against the comment at 229-230.
* `mqtt_cmd.py`: `get_version` discards modules that arrive between its last
  timeout and the teardown; `get_status` returns None on a refusal even when
  deltas had arrived in an earlier attempt.
* `printer.py:171` and `229`: `attempted_transfer` is set before STOR, so one that
  fails at once makes a same-size earlier file count as uploaded, against the
  comment at 234-237. `PreviousSizes = {4}` shows it.
* `orchestrate.py:191`: a URL that shows no type is predicted as a model; when a
  print-ready file arrives `would_slice` was wrong. `PreviewAgrees`
  is stated for links that show the kind of their file.
* `migrate.py:68-71` says that an inline access code wins over the file;
  `config.py:457-475` lets the file win.
* `common.py:178-181` swallows an error of the backup's removal, as its docstring
  says ("Best-effort"): "migrated" or "configured" may be reported with the plaintext
  code still in `config.json.bak`, against "WITHOUT leaving a plaintext-secret .bak"
  at `migrate.py:24`. `NoPlaintextLeft` is stated for a backup that could be removed.
* `setup_cmd`: a kill between the replacement of the config and the scrub of its
  backup leaves the plaintext code in `config.json.bak`, and the next migration
  answers "noop". In a redirected directory a failing in-place write of the
  config, followed by the clean-up at `migrate.py:154-163`, removes the last copy
  of the code. With `--force` and a kill between the two writes the old config
  points at the new printer's code. Commands take no lock against each other.
* `utils.py:314-316` says that a call after a timeout starts a fresh attempt;
  while the lookup hangs it joins the abandoned one.
* `commands/files.py`: `cmd_delete` does not look at the running print, and a
  print that starts between `cmd_upload`'s check and its upload is not noticed.
* `printer.py:301` takes FTP, SSL and OS errors only, so Ctrl-C or another error in
  the middle of a download leaves the `.part` file; a removal that fails leaves it
  too (293-295, 305-307), and an error of `mkstemp` (270) escapes. The destination is
  whole or untouched in each case. No command calls `download_file`.
* `commands/snapshot.py:266` and `407` read the size after the move: an error there is
  reported as a file error (267-269, 438-442) of an output that has been replaced.
  Line 169 takes `Exception` only, so Ctrl-C leaves the temporary file.
* `cli.py:265`: a Ctrl-C there comes before the `try` at 273 and leaves no envelope;
  `OneEnvelope` is about what begins inside it.
* `commands/snapshot.py:389-397` retries on `URLError` only, so an answer a
  starting streamer cuts off escapes; a camera that closes the stream discards
  the frames it has given; of two snapshots, one's `docker rm -f` may remove the
  container the other has just started, and `size_bytes` may be the other's.
* `download/extract.py:102-106` and `135`, `downloader.py:561`: three placeholders
  that no handler removes, against "Every reservation is tracked here";
  `naming.py:96`: a suffix may push a name over its budget; a truncated
  body without a length is accepted.
* `slicer/profiles.py:383` and `438` catch `Exception`, so Ctrl-C there leaks a
  temporary file; Ctrl-C between `Popen` and the watch loop (`orca.py:99`, `183`)
  orphans OrcaSlicer; a failed run with no earlier output leaves its rejected
  file at the output (`cmd.py:477-485`); a 3MF with a model and no plate counts
  as a success (`output.py:88`).
* `confirm.py:210`: the buttons work again after a print that was not
  confirmed; deliberately, as the code says.

## 7. What is assumed, and what is left out

External and modelled from their use: paho, the printer's MQTT and FTPS servers,
the camera, Docker, OrcaSlicer, Textual, the name server. `JobPipeline` takes
OrcaSlicer to write a 3MF with plate 1 within the limits when it succeeds, although
`slicer/output.py:86-88` accepts a 3MF without any plate (`Slicer` has it do anything);
the printer is taken to clear a latched error when it takes a job, and to run a
message it received once.

Left out of the modelled components: simulation mode and `execute_print_command`'s
own dry run (they touch no network), wording, logging, progress callbacks,
back-off durations, the parsing of reports and payloads, checks of
names and options that a dry run and a run make first and alike,
removals that fail other than those section 6 names (the slicer's and downloader's
temporary files, working directories, the temporary file of a redirected write),
`BAMBU_KEEP_WORKDIR`, a second Ctrl-C during clean-up, other clients of the
same printer (so the hazard at `mqtt_print.py:138`, where another client's
acknowledgement is taken for ours, has no property). There is no clock: any wait
may end at any time, which includes every timing. `Slicer` is the POSIX branch, with
helpers in OrcaSlicer's process group; on Windows only the top process is killed.

Not modelled: the Printables client (HTTP and JSON; its choice appears as the
file it leads to), argument parsing and payload schemas (data without state),
FTPS and TLS plumbing (no state that outlives a call), the one-message commands
of `device` and `gcode`, estimates, profile contents, preflight checks and
`config show` (input and output), the fields of the settings screen, address
classification, the throttle's clock.

## 8. What is left

1. Proofs: `AtMostOnceCommand` as what one command of `MqttSession` implements once
   its two races are closed. Its parts are proved (`CommandAtMostOnce`,
   `ResultsAreFinal`, `TrueUnlessLateAck`, `FalseUnlessLateIssue`); a refinement also
   needs a history of the answers, since a thread's next call forgets the last one.
2. `Delivery` is the directory `Download` implements. The output of `Slicer` and that
   of `Snapshot` are replaced in place and shared by name, so each needs an
   abstract specification of its own; their theorems state it part by part.
3. A second client of the printer in `PrintStart`.
