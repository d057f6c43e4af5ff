------------------------------- MODULE Setup -------------------------------
(***************************************************************************)
(* The files that hold the printer's address and access code, and the      *)
(* commands that rewrite them: `setup` with options, guided `setup`,       *)
(* `setup --migrate-access-code`, and doctor's offer to pin a certificate. *)
(* One command runs at a time; any of its writes may fail, and it may be   *)
(* killed between any two steps.  Behind a redirected directory the rename *)
(* is impossible and files are rewritten in place.                         *)
(***************************************************************************)
EXTENDS Naturals, Sequences

CONSTANTS Printers,  \* serials
          Gens,      \* how many access codes a printer goes through
          Paths,     \* access-code files
          MaxOps,    \* bound: commands that are run
          MaxStops   \* bound: commands that are killed

None == "none"
NoCode == <<>>
Junk == <<"junk">>                    \* empty, a placeholder, or unreadable
Codes == Printers \X (1 .. Gens)
Owner(c) == Head(c)

Gone == [torn |-> FALSE]              \* no file
Torn == [torn |-> TRUE]               \* truncated by a write in place
NoSecret == <<>>
Written(c) == <<c, TRUE>>             \* the code and one newline, as plate writes it
ByHand(c) == <<c, FALSE>>             \* the code, spelled otherwise
Secrets == {NoSecret, Written(Junk)} \cup {Written(c) : c \in Codes} \cup {ByHand(c) : c \in Codes}
Configs == [serial: Printers, inline: Codes \cup {NoCode}, file: Paths \cup {None},
            pin: Printers \cup {None}, other: BOOLEAN]

Default == CHOOSE p \in Paths : TRUE  \* where guided setup and the migration put the code

ASSUME SetupAssumption ==
  {None, "config"} \cap Paths = {} /\ None \notin Printers /\ Paths # {} /\ Gens \in Nat

VARIABLES config, bak,   \* config.json and config.json.bak
          secret,        \* the access-code files
          redirected,    \* rename is refused with EXDEV here
          run,           \* the command: its name, what it found out at the start, and
                         \* whether it could not remove the backup
          at, todo, tmp, \* where it stands, the files left to write, the temporary file
          draft,         \* guided setup: the answers so far
          ret,           \* how the last command ended
          resume,        \* the target of a migration that stopped half-way, until another command
          ops, stops
disk == <<config, bak, secret>>
setupVars == <<config, bak, secret, redirected, run, at, todo, tmp, draft, ret, resume, ops, stops>>

Readable(c) == c \notin {Gone, Torn}
HasCode(s) == s # NoSecret /\ s[1] \in Codes
Content(s) == IF s = NoSecret THEN NoCode ELSE s[1]

\* The code every other command would use: the file wins over the inline copy.
LoadAccessCode ==
  CASE ~Readable(config) -> NoCode
    [] Readable(config) /\ config.file # None -> IF HasCode(secret[config.file]) THEN Content(secret[config.file]) ELSE NoCode
    [] OTHER -> config.inline

\* The config names a printer, and the code every command would use and the
\* pinned certificate are that printer's.
Working == /\ LoadAccessCode \in Codes /\ Owner(LoadAccessCode) = config.serial
           /\ config.pin \in {None, config.serial}

NoRun == [op |-> None, target |-> None, force |-> FALSE, rotate |-> None, fresh |-> None, strips |-> FALSE,
          was |-> NoCode, stuck |-> FALSE]
NoTmp == [to |-> None]
NoDraft == [serial |-> None, code |-> NoCode, tries |-> 0]

SetupInit ==
  /\ redirected \in BOOLEAN
  /\ config \in {Gone} \cup {c \in Configs : /\ c.inline # NoCode \/ c.file # None
                                             /\ c.inline # NoCode => Owner(c.inline) = c.serial
                                             /\ c.pin \in {None, c.serial} /\ c.other}
  /\ bak = Gone
  /\ secret \in [Paths -> Secrets]
  /\ Readable(config) /\ config.file # None /\ HasCode(secret[config.file])
       => Owner(Content(secret[config.file])) = config.serial
  /\ run = NoRun /\ at = "idle" /\ todo = <<>> /\ tmp = NoTmp /\ draft = NoDraft
  /\ ret = None /\ resume = None /\ ops = 0 /\ stops = 0

-----------------------------------------------------------------------------
\* What is left to write.
SecretJob(p, c) == [to |-> p, text |-> Written(c), merge |-> FALSE]
ConfigJob(c, merge) == [to |-> "config", text |-> c, merge |-> merge]

\* Keys the wizard does not manage are carried over.
MergeWithExisting(c) == [c EXCEPT !.other = Readable(config) /\ config.other]
Strips(c) == Readable(config) /\ config.inline # NoCode /\ c.inline = NoCode
\* Bug: only a migration does without the backup.
KeepsBackupInSetup(c) == run.op # "migrate"

KeepsBackup(c) == run.op # "migrate" /\ ~Strips(c)

Begin(r, jobs) ==
  /\ run' = r /\ todo' = jobs /\ at' = "write" /\ ret' = None /\ draft' = NoDraft
  /\ UNCHANGED <<disk, redirected, tmp, stops>>

End(how) ==
  /\ at' = "idle" /\ todo' = <<>> /\ tmp' = NoTmp /\ draft' = NoDraft /\ ret' = how

\* A command that ends before its first write.
Answer(name, target, how) ==
  /\ End(how) /\ run' = [NoRun EXCEPT !.op = name, !.target = target]
  /\ UNCHANGED <<disk, redirected, stops>>

Idle == at = "idle" /\ ops < MaxOps /\ ops' = ops + 1

-----------------------------------------------------------------------------
\* setup --migrate-access-code: an inline code moves into a file of its own.
Migrating(target, jobs, fresh) ==
  Begin([NoRun EXCEPT !.op = "migrate", !.target = target, !.fresh = fresh,
                      !.was = IF LoadAccessCode # NoCode THEN LoadAccessCode ELSE config.inline], jobs)
Stripped == [config EXCEPT !.inline = NoCode]
HasInline == Readable(config) /\ config.inline # NoCode

MigrateNoop == (~Readable(config) \/ ~HasInline) /\ Answer("migrate", None, IF Readable(config) THEN "noop" ELSE "failed")
\* A file is configured already: fill it if it was never written, keep the inline
\* code if it is of no use, and otherwise drop the stale inline code.
MigrateConfigured ==
  /\ HasInline /\ config.file # None
  /\ \/ secret[config.file] = NoSecret
        /\ Migrating(config.file, <<SecretJob(config.file, config.inline), ConfigJob(Stripped, FALSE)>>, None)
     \/ secret[config.file] # NoSecret /\ ~HasCode(secret[config.file]) /\ Answer("migrate", config.file, "refused")
     \/ HasCode(secret[config.file]) /\ Migrating(config.file, <<ConfigJob(Stripped, FALSE)>>, None)
\* No file yet: a target with other contents is not touched, one with exactly
\* what would be written is what an earlier attempt left.
MigrateOut(t) ==
  LET moved == ConfigJob([Stripped EXCEPT !.file = t], FALSE)
  IN  /\ HasInline /\ config.file = None
      /\ \/ secret[t] = NoSecret /\ Migrating(t, <<SecretJob(t, config.inline), moved>>, t)
         \/ secret[t] = Written(config.inline) /\ Migrating(t, <<moved>>, None)
         \/ secret[t] \notin {NoSecret, Written(config.inline)} /\ Answer("migrate", t, "refused")

MigrateAccessCode ==
  /\ Idle /\ (MigrateNoop \/ MigrateConfigured \/ \E t \in Paths : MigrateOut(t))
  /\ UNCHANGED resume

-----------------------------------------------------------------------------
\* setup with options.  What is not given is kept, but the printer's own values
\* only when the serial is still the same.
SameSerial(s) == Readable(config) /\ (s = None \/ s = config.serial)
Given(s, c, f) ==
  LET same == SameSerial(s)
      file == IF same /\ f = None THEN config.file ELSE f
  IN  [serial |-> IF same THEN config.serial ELSE s,
       file   |-> file,
       code   |-> IF same /\ c = NoCode /\ file = None THEN config.inline ELSE c,
       rotate |-> IF same /\ c # NoCode /\ file = config.file THEN file ELSE None]
InheritedPin(s) == IF SameSerial(s) THEN config.pin ELSE None

OverwriteConflict(f, c) == secret[f] # NoSecret /\ Content(secret[f]) # c

BuildSetupConfig(s, c, f, pin) ==
  [serial |-> s, inline |-> IF f # None THEN NoCode ELSE c, file |-> f, pin |-> pin, other |-> FALSE]

\* Bug: the configuration is saved before the file it names.
SetupJobsConfigFirst(s, c, f, pin) ==
  <<ConfigJob(BuildSetupConfig(s, c, f, pin), TRUE)>>
    \o (IF c # NoCode /\ f # None THEN <<SecretJob(f, c)>> ELSE <<>>)

SetupJobs(s, c, f, pin) ==
  (IF c # NoCode /\ f # None THEN <<SecretJob(f, c)>> ELSE <<>>)
    \o <<ConfigJob(BuildSetupConfig(s, c, f, pin), TRUE)>>

\* The user means the printer he names: the code he types, and the file he
\* points to without a code, are that printer's.
Honest(g, c, f) == /\ c # NoCode => Owner(c) = g.serial
                   /\ c = NoCode /\ f # None /\ HasCode(secret[f]) => Owner(Content(secret[f])) = g.serial

SetupRefuses(g, force) ==
  \/ g.serial = None
  \/ g.code = NoCode /\ (g.file = None \/ ~HasCode(secret[g.file]))
  \/ g.code # NoCode /\ g.file # None /\ g.rotate = None /\ ~force /\ OverwriteConflict(g.file, g.code)

SetupNoninteractive(s, c, f, pinned, force) ==
  LET g == Given(s, c, f)
      pin == IF pinned THEN g.serial ELSE InheritedPin(s)
      new == BuildSetupConfig(g.serial, g.code, g.file, pin)
  IN  /\ Idle /\ Honest(g, c, f) /\ resume' = None
      /\ IF SetupRefuses(g, force)
         THEN Answer("setup", None, "refused")
         ELSE Begin([NoRun EXCEPT !.op = "setup", !.force = force, !.rotate = g.rotate, !.strips = Strips(new),
                            !.was = IF c # NoCode THEN c ELSE IF f # None THEN Content(secret[f])
                                    ELSE IF Working THEN LoadAccessCode ELSE NoCode],
                    SetupJobs(g.serial, g.code, g.file, pin))

-----------------------------------------------------------------------------
\* Guided setup: three attempts at the code and at the model, the file to keep
\* the code in, and a question before a different code there is overwritten.
Attempts == 3
Prompt(place, d) == /\ at' = place /\ draft' = d
                 /\ UNCHANGED <<disk, redirected, todo, tmp, ret, resume, ops, stops>>
GuidedWrites(f, force) ==
  LET c == BuildSetupConfig(draft.serial, draft.code, f, None)
  IN  \E pin \in {None, draft.serial} :
        Begin([run EXCEPT !.force = force, !.strips = Strips(c), !.was = draft.code], SetupJobs(draft.serial, draft.code, f, pin))

SetupInteractive(s) ==
  /\ Idle /\ resume' = None
  /\ run' = [NoRun EXCEPT !.op = "setup"] /\ at' = "askCode" /\ ret' = None
  /\ draft' = [NoDraft EXCEPT !.serial = s]
  /\ UNCHANGED <<disk, redirected, todo, tmp, stops>>

\* Guided setup asks again, Attempts times in all.
WrongAnswer ==
  IF draft.tries + 1 = Attempts
  THEN Answer("setup", None, "refused") /\ UNCHANGED <<resume, ops>>
  ELSE Prompt(at, [draft EXCEPT !.tries = @ + 1]) /\ UNCHANGED run
PromptAccessCode ==
  /\ at = "askCode"
  /\ \/ \E n \in 1 .. Gens : /\ Prompt("askModel", [serial |-> draft.serial, code |-> <<draft.serial, n>>, tries |-> 0])
                             /\ UNCHANGED run
     \/ WrongAnswer
PromptPrinterModel ==
  /\ at = "askModel"
  /\ \/ Prompt("askFile", [draft EXCEPT !.tries = 0]) /\ UNCHANGED run
     \/ WrongAnswer
PromptAccessCodeFile ==
  /\ at = "askFile"
  /\ \/ GuidedWrites(None, FALSE) /\ UNCHANGED <<resume, ops>>
     \/ ~OverwriteConflict(Default, draft.code) /\ GuidedWrites(Default, FALSE) /\ UNCHANGED <<resume, ops>>
     \/ OverwriteConflict(Default, draft.code) /\ Prompt("confirm", draft) /\ UNCHANGED run
ConfirmOverwrite ==
  /\ at = "confirm" /\ UNCHANGED <<resume, ops>>
  /\ GuidedWrites(Default, TRUE) \/ Answer("setup", None, "refused")

\* doctor reached the printer with the code in the file, and the user pins its
\* certificate.
OfferPinFingerprint ==
  /\ Idle /\ resume' = None
  /\ LoadAccessCode # NoCode /\ config.pin = None
  /\ Begin([NoRun EXCEPT !.op = "doctor"], <<ConfigJob([config EXCEPT !.pin = config.serial], FALSE)>>)

-----------------------------------------------------------------------------
\* _atomic_secure_write: a temporary file, the backup, the rename.
Put(to, what) ==
  /\ config' = IF to = "config" THEN what ELSE config
  /\ secret' = IF to = "config" THEN secret
               ELSE [secret EXCEPT ![to] = IF what = Torn THEN Written(Junk) ELSE what]
  /\ UNCHANGED bak

WriteTmp ==
  LET job == Head(todo)
  IN  /\ at = "write" /\ at' = "backup"
      /\ tmp' = [to |-> job.to, text |-> IF job.merge THEN MergeWithExisting(job.text) ELSE job.text,
                 keep |-> job.to = "config" /\ KeepsBackup(job.text)]
      /\ UNCHANGED <<disk, redirected, run, todo, draft, ret, resume, ops, stops>>

\* Copying the old file aside may fail without a word.
Backup ==
  /\ at = "backup" /\ at' = "replace"
  /\ bak' \in {bak} \cup (IF tmp.keep /\ config # Gone THEN {config} ELSE {})
  /\ UNCHANGED <<config, secret, redirected, run, todo, tmp, draft, ret, resume, ops, stops>>

Success == CASE run.op = "migrate" -> "migrated" [] run.op = "setup" -> "configured" [] OTHER -> "pinned"

\* The file is in place: scrub the backup, write the next file, or finish.
Advance ==
  \/ /\ tmp.to = "config" /\ ~tmp.keep /\ at' = "scrub" /\ todo' = Tail(todo)
     /\ UNCHANGED <<tmp, draft, ret>>
  \/ /\ tmp.to # "config" /\ at' = "write" /\ todo' = Tail(todo) /\ tmp' = NoTmp
     /\ UNCHANGED <<draft, ret>>
  \/ tmp.to = "config" /\ tmp.keep /\ End(Success)

Replace ==
  /\ at = "replace" /\ ~redirected
  /\ Put(tmp.to, tmp.text) /\ Advance
  /\ UNCHANGED <<redirected, run, resume, ops, stops>>
Truncate ==
  /\ at = "replace" /\ redirected /\ at' = "inPlace"
  /\ Put(tmp.to, Torn)
  /\ UNCHANGED <<redirected, run, todo, tmp, draft, ret, resume, ops, stops>>
WriteInPlace ==
  /\ at = "inPlace" /\ Put(tmp.to, tmp.text) /\ Advance
  /\ UNCHANGED <<redirected, run, resume, ops, stops>>

\* The backup is removed if it can be: success is reported either way.
Scrub ==
  /\ at = "scrub" /\ End(Success)
  /\ \/ bak' = Gone /\ UNCHANGED run
     \/ bak # Gone /\ UNCHANGED bak /\ run' = [run EXCEPT !.stuck = TRUE]
  /\ UNCHANGED <<resume, config, secret, redirected, ops, stops>>

Writing == at \in {"write", "replace", "inPlace"}

\* The disk is full, or the directory is not ours: the temporary file goes, and
\* a migration takes back the file it has created itself, if it can.
WriteFails ==
  /\ Writing /\ End("failed") /\ resume' = run.target
  /\ \/ UNCHANGED secret
     \/ Head(todo).to = "config" /\ run.fresh # None /\ secret' = [secret EXCEPT ![run.fresh] = NoSecret]
  /\ UNCHANGED <<config, bak, redirected, run, ops, stops>>

\* Ctrl-C, a kill or a power cut, at any step.  A kill leaves the temporary file
\* behind, under a name of its own that nothing reads.
Stop ==
  /\ at # "idle" /\ stops < MaxStops /\ stops' = stops + 1
  /\ End("stopped") /\ resume' = run.target
  /\ UNCHANGED <<disk, redirected, run, ops>>

SetupNext ==
  \/ MigrateAccessCode
  \/ \E s \in Printers \cup {None}, c \in Codes \cup {NoCode}, f \in Paths \cup {None}, pinned, force \in BOOLEAN :
       SetupNoninteractive(s, c, f, pinned, force)
  \/ \E s \in Printers : SetupInteractive(s)
  \/ PromptAccessCode \/ PromptPrinterModel \/ PromptAccessCodeFile \/ ConfirmOverwrite
  \/ OfferPinFingerprint
  \/ WriteTmp \/ Backup \/ Replace \/ Truncate \/ WriteInPlace \/ Scrub \/ WriteFails \/ Stop

SetupSpec == SetupInit /\ [][SetupNext]_setupVars

-----------------------------------------------------------------------------
SetupTypeOK ==
  /\ config \in Configs \cup {Gone, Torn} /\ bak \in Configs \cup {Gone, Torn}
  /\ secret \in [Paths -> Secrets] /\ redirected \in BOOLEAN
  /\ at \in {"idle", "askCode", "askModel", "askFile", "confirm", "write", "backup", "replace", "inPlace", "scrub"}
  /\ ret \in {None, "noop", "refused", "failed", "stopped", "migrated", "configured", "pinned"}
  /\ at \in {"write", "backup", "replace", "inPlace"} <=> todo # <<>>
  /\ tmp # NoTmp => at \in {"backup", "replace", "inPlace", "scrub"}
  /\ draft.tries < Attempts

\* A working set of files works after every step of every command, however the
\* command is stopped, as long as files can be renamed and nobody forces a code
\* over another: no two writes leave a moment without a code.
StaysWorking == [][Working /\ ~redirected /\ ~run.force => Working']_setupVars

\* A setup that reports success leaves the code it was given, or the one that
\* worked before, and both it and the pin are the configured printer's.
SuccessWorks ==
  ret = "configured" => /\ config.pin \in {None, config.serial}
                        /\ run.was # NoCode => LoadAccessCode = run.was /\ Working

\* A migration moves the code in use, never a stale copy of it.
MigrationKeepsCode == ret = "migrated" => LoadAccessCode = run.was

\* Once a command has reported that the code is out of config.json, it is not in
\* that file, nor in a backup of it that could be removed.
NoPlaintextLeft ==
  ret = "migrated" \/ (ret = "configured" /\ run.strips)
    => \A c \in {config} \cup (IF run.stuck THEN {} ELSE {bak}) : Readable(c) => c.inline = NoCode

\* A migration that failed or was killed is finished by running it again.
MigrationResumes ==
  ~redirected /\ run.op = "migrate" /\ ret = "refused" => run.target # resume \/ resume = None

\* What setup or the migration reports is what a later command finds.
ReportsAreTrue == SuccessWorks /\ MigrationKeepsCode /\ NoPlaintextLeft /\ MigrationResumes

\* Without force or a yes, no command changes the code in a file that is not
\* this printer's own, nor removes one it has not created.
ForeignSecretKept ==
  [][~redirected /\ ~run.force =>
       \A p \in Paths : secret[p] # NoSecret /\ Content(secret'[p]) # Content(secret[p])
                          => p \in {run.rotate, run.fresh}]_setupVars

\* The keys the user has added by hand outlive every command.
OtherKeysKept == [][~redirected /\ Readable(config) => Readable(config') /\ config'.other = config.other]_setupVars

\* A command that takes the code out of config.json copies it into no backup, at
\* whatever step it fails or is killed.
NoSecretCopied == [][run.op = "migrate" \/ run.strips => bak' \in {bak, Gone}]_setupVars

\* Whatever fails and whenever the command is killed, the code in use, the codes of
\* other printers and the user's own settings are still there, and the code that is
\* taken out of config.json is not copied beside it.
NothingLostOrCopied == StaysWorking /\ ForeignSecretKept /\ OtherKeysKept /\ NoSecretCopied
=============================================================================
