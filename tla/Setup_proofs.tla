---------------------------- MODULE Setup_proofs -----------------------------
(***************************************************************************)
(* Proofs about Setup, for any printers, codes, files, number of commands   *)
(* and of kills.                                                            *)
(*                                                                         *)
(* A command decides what to write before it writes anything.  The          *)
(* inductive invariant therefore describes the list of writes that is left  *)
(* (Fits): the config that is written last keeps what the run promised,     *)
(* over the code files as they will be then, and a code file that is        *)
(* written before it leaves the present config working.  Each write then    *)
(* turns one such description into the next.                                *)
(***************************************************************************)
EXTENDS Setup, SequenceTheorems, TLAPS

----------------------------------------------------------------------------
(* The inductive invariant. *)

\* The code a config and a set of code files give, and whether the two work.
CodeFrom(c, s) ==
  IF ~Readable(c) THEN NoCode
  ELSE IF c.file = None THEN c.inline
  ELSE IF HasCode(s[c.file]) THEN Content(s[c.file]) ELSE NoCode
Works(c, s) == /\ Readable(c) /\ CodeFrom(c, s) \in Codes
               /\ Owner(CodeFrom(c, s)) = c.serial /\ c.pin \in {None, c.serial}

Asks == {"askCode", "askModel", "askFile", "confirm"}
Writes == {"write", "backup", "replace", "inPlace"}
Runs == [op : {None, "migrate", "setup", "doctor"}, target : Paths \cup {None}, force : BOOLEAN,
         rotate : Paths \cup {None}, fresh : Paths \cup {None}, strips : BOOLEAN, was : Codes \cup {NoCode}, stuck : BOOLEAN]
Drafts == [serial : Printers \cup {None}, code : Codes \cup {NoCode}, tries : 0 .. Attempts - 1]

\* Every step of a careful run has to leave what works alone.
Careful(r) == ~redirected /\ ~r.force

\* The promise of run r when it writes config c last, over the code files s: it is
\* what was asked for, and it works where the old one does with those files.
PromiseOf(r, c, s) ==
  /\ c.pin \in {None, c.serial}
  /\ r.op = "migrate" => r.was # NoCode /\ c.file # None
  /\ r.was # NoCode => CodeFrom(c, s) = r.was /\ (r.op = "setup" => Works(c, s))
  /\ r.strips \/ r.op = "migrate" => c.inline = NoCode
  /\ Careful(r) /\ Works(config, s) => Works(c, s)
KeysKept(c, m) == ~redirected /\ ~m /\ Readable(config) => c.other = config.other

\* A code that is written over another one is the same, or this printer's own.
SecretFits(r, p, k) ==
  /\ r.op = "migrate" /\ ~redirected => k = config.inline
  /\ Careful(r) => /\ Works(config, secret) => Works(config, [secret EXCEPT ![p] = Written(k)])
                   /\ secret[p] = NoSecret \/ Content(secret[p]) = k \/ p = r.rotate

\* What run r has left to write: the config alone, or the code file before it.
Fits(r, jobs) ==
  \/ \E c \in Configs, m \in BOOLEAN :
       jobs = <<ConfigJob(c, m)>> /\ PromiseOf(r, c, secret) /\ KeysKept(c, m)
  \/ \E p \in Paths, k \in Codes, c \in Configs, m \in BOOLEAN :
       /\ jobs = <<SecretJob(p, k), ConfigJob(c, m)>> /\ KeysKept(c, m)
       /\ PromiseOf(r, c, [secret EXCEPT ![p] = Written(k)]) /\ SecretFits(r, p, k)

\* A migration into t would go on from here.
Resumable(t) ==
  Readable(config) => /\ config.file = None => secret[t] \in {NoSecret, Written(config.inline)}
                      /\ config.file = t => secret[t] = NoSecret \/ HasCode(secret[t])

\* What else holds of run r until its config is written.
Suits(r) ==
  /\ r \in Runs
  /\ r.op # "migrate" => r.target = None
  /\ r.fresh # None /\ ~redirected => Readable(config) /\ config.file = None
  /\ r.target # None /\ ~redirected => Resumable(r.target)

PlanInv ==
  /\ at \in Writes <=> todo # <<>>
  /\ at \in Writes => Fits(run, todo) /\ Suits(run)
  /\ at \in Writes /\ (at = "inPlace" => Head(todo).to # "config") /\ run.strips
       => Readable(config) /\ config.inline # NoCode

\* Guided setup asks for one printer's code; until it writes, its run says nothing else.
DraftInv ==
  /\ run \in Runs /\ draft \in Drafts
  /\ at \in Asks => run = [NoRun EXCEPT !.op = "setup"] /\ draft.serial \in Printers
  /\ at \in Asks \ {"askCode"} => draft.code \in Codes /\ Owner(draft.code) = draft.serial

\* The temporary file holds the next file, with the keys that are carried over; a
\* backup is kept of no config whose inline code is on its way out.
TmpInv ==
  /\ at \in Writes \ {"write"} =>
       LET job == Head(todo)
       IN  /\ tmp.to = job.to
           /\ tmp.to # "config" => tmp.text = job.text /\ ~tmp.keep
           /\ tmp.to = "config" =>
                /\ tmp.text \in Configs
                /\ tmp.text.serial = job.text.serial /\ tmp.text.inline = job.text.inline
                /\ tmp.text.file = job.text.file /\ tmp.text.pin = job.text.pin
                /\ ~redirected /\ Readable(config) => tmp.text.other = config.other
                /\ run.strips \/ run.op = "migrate" => ~tmp.keep
  /\ at = "scrub" => tmp.to = "config" /\ ~tmp.keep
  /\ at \in {"idle", "write"} \cup Asks => tmp = NoTmp

\* The config that was written keeps the promise of the run that wrote it.
DoneInv ==
  /\ Readable(config) => config.pin \in {None, config.serial}
  /\ at # "idle" => ret = None
  /\ ret = "configured" => run.op = "setup"
  /\ ret = "migrated" => run.op = "migrate"
  /\ at = "scrub" \/ ret \in {"configured", "migrated"} =>
       /\ Readable(config)
       /\ run.op = "migrate" => run.was # NoCode
       /\ run.was # NoCode => CodeFrom(config, secret) = run.was /\ (run.op = "setup" => Works(config, secret))
       /\ run.strips \/ run.op = "migrate" => config.inline = NoCode
  /\ ret \in {"configured", "migrated"} /\ (run.strips \/ run.op = "migrate") => bak = Gone \/ run.stuck

\* Only migrations follow one another in taking a target up again.
ResumeInv ==
  /\ resume \in Paths \cup {None}
  /\ at # "idle" /\ run.op # "migrate" => resume = None
  /\ resume # None /\ ~redirected => Resumable(resume)
  /\ at # "idle" /\ run.target # None /\ ~redirected => Resumable(run.target)
  /\ run.op # "migrate" => run.target = None

SetupInv == SetupTypeOK /\ PlanInv /\ DraftInv /\ TmpInv /\ DoneInv /\ ResumeInv /\ MigrationResumes

----------------------------------------------------------------------------
(* What the operators say. *)

\* A code is neither missing nor junk, and is read back as it was written.
LEMMA CodeFacts ==
  ASSUME NEW k \in Codes
  PROVE  /\ k # NoCode /\ k # Junk /\ Owner(k) \in Printers
         /\ HasCode(Written(k)) /\ Content(Written(k)) = k
         /\ Written(k) # NoSecret /\ Written(k) \in Secrets
<1>1. PICK p \in Printers, n \in 1 .. Gens : k = <<p, n>>
  BY DEF Codes
<1>2. k # NoCode
  BY <1>1 DEF NoCode
<1>3. k # Junk
  BY <1>1 DEF Junk
<1>4. Owner(k) \in Printers
  BY <1>1 DEF Owner
<1>5. Written(k) # NoSecret /\ Written(k)[1] = k
  BY DEF Written, NoSecret
<1> QED
  BY <1>2, <1>3, <1>4, <1>5 DEF HasCode, Content, Secrets

\* The only other files are empty, of no use, or spelled by hand.
LEMMA SecretFacts ==
  ASSUME NEW s \in Secrets
  PROVE  /\ HasCode(s) => Content(s) \in Codes /\ s # NoSecret
         /\ HasCode(s) <=> s # NoSecret /\ s # Written(Junk)
<1>1. Written(Junk)[1] = Junk /\ Written(Junk) # NoSecret
  BY DEF Written, NoSecret
<1>2. ASSUME NEW k \in Codes
      PROVE  HasCode(ByHand(k)) /\ ByHand(k) # Written(Junk) /\ Written(k) # Written(Junk)
  <2>1. ByHand(k)[1] = k /\ ByHand(k) # NoSecret /\ Written(k)[1] = k
    BY DEF ByHand, NoSecret, Written
  <2> QED
    BY <1>1, <2>1, CodeFacts DEF HasCode
<1>3. Junk \notin Codes
  BY CodeFacts
<1>4. ~HasCode(NoSecret) /\ ~HasCode(Written(Junk))
  BY <1>1, <1>3 DEF HasCode
<1>5. HasCode(s) => Content(s) \in Codes /\ s # NoSecret
  BY DEF HasCode, Content
<1> QED
  BY <1>2, <1>4, <1>5, CodeFacts DEF Secrets

\* A config is not a missing or a torn file.
LEMMA ConfigFacts ==
  ASSUME NEW c \in Configs
  PROVE  Readable(c) /\ c \notin {Gone, Torn}
  BY DEF Configs, Readable, Gone, Torn

\* What every other command finds is CodeFrom and Works of what is on the disk.
LEMMA WorkingIsWorks ==
  ASSUME SetupTypeOK
  PROVE  LoadAccessCode = CodeFrom(config, secret) /\ (Working <=> Works(config, secret))
<1>1. CASE Readable(config)
  BY <1>1 DEF LoadAccessCode, CodeFrom, Working, Works
<1>2. CASE ~Readable(config)
  BY <1>2 DEF LoadAccessCode, CodeFrom, Working, Works, Codes, NoCode
<1> QED
  BY <1>1, <1>2

\* Two jobs in a row.
LEMMA TwoInARow ==
  ASSUME NEW x, NEW y
  PROVE  <<x>> \o <<y>> = <<x, y>>
<1> DEFINE both == <<x>> \o <<y>>
<1>1. <<x>> \in Seq({x, y}) /\ <<y>> \in Seq({x, y})
  OBVIOUS
<1>2. both \in Seq({x, y}) /\ Len(both) = 2 /\ both[1] = x /\ both[2] = y
  BY <1>1, ConcatProperties
<1> HIDE DEF both
<1>3. both = <<x, y>>
  BY <1>2
<1> QED
  BY <1>3 DEF both

----------------------------------------------------------------------------
(* A command that begins to write. *)

\* A plan outlives a step that leaves the disk and the plan alone.
LEMMA FitsKept ==
  ASSUME NEW r, NEW jobs, Fits(r, jobs), run' = r, todo' = jobs, UNCHANGED <<config, secret, redirected>>
  PROVE  Fits(run, todo)'
<1>1. CASE \E c \in Configs, m \in BOOLEAN :
             jobs = <<ConfigJob(c, m)>> /\ PromiseOf(r, c, secret) /\ KeysKept(c, m)
  <2>1. PICK c \in Configs, m \in BOOLEAN :
          jobs = <<ConfigJob(c, m)>> /\ PromiseOf(r, c, secret) /\ KeysKept(c, m)
    BY <1>1
  <2>2. (PromiseOf(run, c, secret) /\ KeysKept(c, m))'
    BY <2>1 DEF PromiseOf, KeysKept, Careful, Works, CodeFrom
  <2> QED
    BY <2>1, <2>2 DEF Fits, ConfigJob
<1>2. CASE \E p \in Paths, k \in Codes, c \in Configs, m \in BOOLEAN :
             /\ jobs = <<SecretJob(p, k), ConfigJob(c, m)>> /\ KeysKept(c, m)
             /\ PromiseOf(r, c, [secret EXCEPT ![p] = Written(k)]) /\ SecretFits(r, p, k)
  <2>1. PICK p \in Paths, k \in Codes, c \in Configs, m \in BOOLEAN :
          /\ jobs = <<SecretJob(p, k), ConfigJob(c, m)>> /\ KeysKept(c, m)
          /\ PromiseOf(r, c, [secret EXCEPT ![p] = Written(k)]) /\ SecretFits(r, p, k)
    BY <1>2
  <2>2. (PromiseOf(run, c, [secret EXCEPT ![p] = Written(k)]) /\ KeysKept(c, m))'
    BY <2>1 DEF PromiseOf, KeysKept, Careful, Works, CodeFrom
  <2>3. SecretFits(run, p, k)'
    BY <2>1 DEF SecretFits, Careful, Works, CodeFrom
  <2> QED
    BY <2>1, <2>2, <2>3 DEF Fits, ConfigJob, SecretJob
<1> QED
  BY <1>1, <1>2 DEF Fits

\* A record that suits the disk may be put in its place.
LEMMA SuitsKept ==
  ASSUME NEW r, Suits(r), run' = r, UNCHANGED <<config, secret, redirected>>
  PROVE  Suits(run)'
  BY DEF Suits, Resumable

\* Begin leads to the invariant from a plan that fits.
LEMMA BeginStep ==
  ASSUME SetupInv, at \in {"idle"} \cup Asks,
         NEW r, NEW jobs, Begin(r, jobs), Fits(r, jobs), Suits(r),
         r.strips => Readable(config) /\ config.inline # NoCode,
         resume' \in {resume, None}, r.op # "migrate" => resume' = None
  PROVE  SetupInv'
<1>1. /\ run' = r /\ todo' = jobs /\ at' = "write" /\ ret' = None /\ draft' = NoDraft
      /\ UNCHANGED <<config, bak, secret, redirected, tmp, stops>>
  BY DEF Begin, disk
<1>2. jobs # <<>>
  <2>1. \A j, k : <<j>> # <<>> /\ <<j, k>> # <<>>
    OBVIOUS
  <2> QED
    BY <2>1, Zenon DEF Fits
<1>3. tmp = NoTmp
  BY DEF SetupInv, TmpInv, Asks
<1>9. Fits(run, todo)' /\ Suits(run)'
  BY <1>1, FitsKept, SuitsKept
<1>4. PlanInv'
  BY <1>1, <1>2, <1>9 DEF PlanInv, Writes
<1>5. DraftInv' /\ TmpInv'
  BY <1>1, <1>3 DEF DraftInv, TmpInv, Suits, NoDraft, Drafts, Attempts, Asks, Writes
<1>6. SetupTypeOK'
  BY <1>1, <1>2, <1>3 DEF SetupInv, SetupTypeOK, NoDraft, Attempts
<1>7. DoneInv' /\ MigrationResumes'
  BY <1>1 DEF SetupInv, DoneInv, MigrationResumes, None
<1>8. ResumeInv'
  BY <1>1 DEF SetupInv, ResumeInv, Suits, Resumable
<1> QED
  BY <1>4, <1>5, <1>6, <1>7, <1>8 DEF SetupInv

\* A command that only answers leaves the invariant alone.
LEMMA AnswerStep ==
  ASSUME SetupInv, at \in {"idle"} \cup Asks,
         NEW name \in {"setup", "migrate"}, NEW target \in Paths \cup {None},
         NEW how \in {"noop", "refused", "failed"}, Answer(name, target, how),
         name = "setup" => target = None, resume' \in {resume, None},
         name = "migrate" /\ how = "refused" /\ ~redirected => target # resume' \/ resume' = None
  PROVE  SetupInv'
<1>1. /\ run' = [NoRun EXCEPT !.op = name, !.target = target]
      /\ at' = "idle" /\ todo' = <<>> /\ tmp' = NoTmp /\ draft' = NoDraft /\ ret' = how
      /\ UNCHANGED <<config, bak, secret, redirected, stops>>
  BY DEF Answer, End, disk
<1>2. run' \in Runs /\ run'.op = name /\ run'.target = target
  BY <1>1, SetupAssumption DEF NoRun, Runs, None
<1>3. PlanInv' /\ TmpInv'
  BY <1>1 DEF PlanInv, TmpInv, Writes, Asks
<1>4. DraftInv'
  BY <1>1, <1>2 DEF DraftInv, NoDraft, Drafts, Attempts, Asks
<1>5. SetupTypeOK'
  BY <1>1 DEF SetupInv, SetupTypeOK, NoDraft, Attempts
<1>6. DoneInv' /\ MigrationResumes'
  BY <1>1, <1>2 DEF SetupInv, DoneInv, MigrationResumes
<1>7. ResumeInv'
  BY <1>1, <1>2 DEF SetupInv, ResumeInv, Resumable
<1> QED
  BY <1>3, <1>4, <1>5, <1>6, <1>7 DEF SetupInv

\* The inline code that a migration finds, and the config without it.
LEMMA InlineFacts ==
  ASSUME SetupTypeOK, HasInline
  PROVE  /\ config \in Configs /\ config.inline \in Codes
         /\ Stripped \in Configs /\ Stripped.inline = NoCode
         /\ \A f \in {"serial", "file", "pin", "other"} : Stripped[f] = config[f]
<1>1. config \in Configs /\ config.inline \in Codes
  BY DEF SetupTypeOK, HasInline, Readable, Configs
<1> QED
  BY <1>1 DEF Stripped, Configs

\* A code is read from the file it was written to, and only from there.
LEMMA CodeWritten ==
  ASSUME NEW c \in Configs, NEW s, NEW k \in Codes, c.file \in Paths, s[c.file] = Written(k)
  PROVE  CodeFrom(c, s) = k
  BY ConfigFacts, SetupAssumption, CodeFacts DEF SetupAssumption, CodeFrom

\* A configuration whose file is untouched keeps its code.
LEMMA CodeElsewhere ==
  ASSUME NEW c \in Configs, NEW s, NEW z, c.file \in Paths => z[c.file] = s[c.file]
  PROVE  CodeFrom(c, z) = CodeFrom(c, s) /\ (Works(c, z) <=> Works(c, s))
<1>1. c.file \in Paths \cup {None}
  BY DEF Configs
<1>2. CodeFrom(c, z) = CodeFrom(c, s)
  BY <1>1 DEF CodeFrom
<1> QED
  BY <1>2 DEF Works

----------------------------------------------------------------------------
(* Each command, up to its first write. *)

\* The migration: what it moves is the code in use.
LEMMA MigratingStep ==
  ASSUME SetupInv, at = "idle", resume' = resume, HasInline,
         NEW t \in Paths, NEW jobs, NEW fresh \in {t, None}, Migrating(t, jobs, fresh),
         fresh = t => config.file = None,
         ~redirected => Resumable(t),
         LET was == IF LoadAccessCode # NoCode THEN LoadAccessCode ELSE config.inline
         IN  \A r \in Runs : r.op = "migrate" /\ r.was = was => Fits(r, jobs)
  PROVE  SetupInv'
<1> DEFINE was == IF LoadAccessCode # NoCode THEN LoadAccessCode ELSE config.inline
           r == [NoRun EXCEPT !.op = "migrate", !.target = t, !.fresh = fresh, !.was = was]
<1>1. SetupTypeOK
  BY DEF SetupInv
<1>2. LoadAccessCode \in Codes \cup {NoCode}
  <2>1. config \in Configs
    BY <1>1, InlineFacts
  <2>2. config.file # None => secret[config.file] \in Secrets
    BY <1>1, <2>1 DEF SetupTypeOK, Configs
  <2>3. CodeFrom(config, secret) \in Codes \cup {NoCode}
    BY <1>1, <2>1, <2>2, InlineFacts, SecretFacts DEF CodeFrom
  <2> QED
    BY <1>1, <2>3, WorkingIsWorks
<1>3. was \in Codes
  BY <1>1, <1>2, InlineFacts
<1>4. /\ r \in Runs /\ r.op = "migrate" /\ r.was = was /\ ~r.strips
      /\ r.target = t /\ r.fresh = fresh
  BY <1>3 DEF NoRun, Runs
<1>5. Fits(r, jobs)
  BY <1>4
<1>6. Readable(config)
  BY DEF HasInline
<1>7. Suits(r)
  BY <1>4, <1>6 DEF Suits
<1>8. Begin(r, jobs)
  BY DEF Migrating
<1> HIDE DEF r
<1> QED
  BY <1>4, <1>5, <1>7, <1>8, BeginStep

\* The migration plans its writes.
LEMMA MigrateStep ==
  ASSUME SetupInv, MigrateAccessCode
  PROVE  SetupInv' /\ UNCHANGED disk
<1>1. SetupTypeOK /\ at = "idle" /\ resume' = resume
  BY DEF SetupInv, MigrateAccessCode, Idle
<1>2. UNCHANGED disk
  BY DEF MigrateAccessCode, MigrateNoop, MigrateConfigured, MigrateOut, Migrating, Answer, Begin
<1>6. secret \in [Paths -> Secrets]
  BY <1>1 DEF SetupTypeOK
<1>3. CASE MigrateNoop
  <2>1. \E how \in {"noop", "failed"} : Answer("migrate", None, how)
    BY <1>3 DEF MigrateNoop
  <2> QED
    BY <1>1, <1>2, <2>1, AnswerStep
<1>4. CASE MigrateConfigured
  <2> DEFINE t == config.file
             k == config.inline
             alone == <<ConfigJob(Stripped, FALSE)>>
             both == <<SecretJob(t, k), ConfigJob(Stripped, FALSE)>>
             was == IF LoadAccessCode # NoCode THEN LoadAccessCode ELSE config.inline
  <2>1. HasInline /\ config.file # None
    BY <1>4 DEF MigrateConfigured
  <2>2. config \in Configs /\ t \in Paths /\ k \in Codes
    BY <1>1, <2>1, InlineFacts DEF Configs
  <2>3. /\ Stripped \in Configs /\ Stripped.inline = NoCode /\ Stripped.file = t
        /\ Stripped.serial = config.serial /\ Stripped.pin = config.pin /\ Stripped.other = config.other
    BY <1>1, <2>1, InlineFacts
  <2>4. Readable(config) /\ Readable(Stripped)
    BY <2>2, <2>3, ConfigFacts
  <2>5. \A s : CodeFrom(Stripped, s) = CodeFrom(config, s)
    BY <2>1, <2>3, <2>4 DEF CodeFrom
  <2>6. \A s : Works(config, s) => Works(Stripped, s)
    BY <2>3, <2>4, <2>5 DEF Works
  <2>7. config.pin \in {None, config.serial}
    BY <2>4 DEF SetupInv, DoneInv
  <2>8. LoadAccessCode = CodeFrom(config, secret)
    BY <1>1, WorkingIsWorks
  <2>9. CASE secret[t] = NoSecret /\ Migrating(t, both, None)
    <3>1. CodeFrom(config, secret) = NoCode /\ ~Works(config, secret)
      BY <2>1, <2>4, <2>9, CodeFacts DEF CodeFrom, HasCode, Works
    <3>2. was = k
      BY <2>8, <3>1
    <3>3. CodeFrom(Stripped, [secret EXCEPT ![t] = Written(k)]) = k
      <4> DEFINE s == [secret EXCEPT ![t] = Written(k)]
      <4>1. s[Stripped.file] = Written(k) /\ Stripped.file \in Paths
        BY <1>6, <2>2, <2>3
      <4> HIDE DEF s
      <4>2. CodeFrom(Stripped, s) = k
        BY <2>2, <2>3, <4>1, CodeWritten
      <4> QED
        BY <4>2 DEF s
    <3>4. ASSUME NEW r \in Runs, r.op = "migrate", r.was = was PROVE Fits(r, both)
      <4>1. PromiseOf(r, Stripped, [secret EXCEPT ![t] = Written(k)])
        BY <2>1, <2>2, <2>3, <2>6, <2>7, <3>2, <3>3, <3>4, CodeFacts DEF PromiseOf
      <4>2. SecretFits(r, t, k)
        BY <2>9, <3>1 DEF SecretFits
      <4>3. KeysKept(Stripped, FALSE)
        BY <2>3 DEF KeysKept
      <4> QED
        BY <2>2, <2>3, <4>1, <4>2, <4>3 DEF Fits
    <3>5. Resumable(t)
      BY <2>1, <2>9 DEF Resumable
    <3> HIDE DEF both
    <3> QED
      BY <1>1, <1>2, <2>1, <2>2, <2>9, <3>4, <3>5, MigratingStep
  <2>10. CASE secret[t] # NoSecret /\ ~HasCode(secret[t]) /\ Answer("migrate", t, "refused")
    <3>1. ~redirected /\ resume # None => t # resume
      BY <2>1, <2>4, <2>10 DEF SetupInv, ResumeInv, Resumable
    <3> QED
      BY <1>1, <1>2, <2>2, <2>10, <3>1, AnswerStep
  <2>11. CASE HasCode(secret[t]) /\ Migrating(t, alone, None)
    <3>1. CodeFrom(config, secret) \in Codes
      BY <1>1, <2>1, <2>2, <2>4, <2>11, SecretFacts DEF CodeFrom, SetupTypeOK
    <3>2. was = CodeFrom(config, secret)
      BY <2>8, <3>1, CodeFacts
    <3>3. ASSUME NEW r \in Runs, r.op = "migrate", r.was = was PROVE Fits(r, alone)
      <4>1. PromiseOf(r, Stripped, secret)
        BY <2>1, <2>2, <2>3, <2>5, <2>6, <2>7, <3>1, <3>2, <3>3, CodeFacts DEF PromiseOf
      <4>2. KeysKept(Stripped, FALSE)
        BY <2>3 DEF KeysKept
      <4> QED
        BY <2>3, <4>1, <4>2 DEF Fits
    <3>4. Resumable(t)
      BY <2>1, <2>11 DEF Resumable
    <3> HIDE DEF alone
    <3> QED
      BY <1>1, <1>2, <2>1, <2>2, <2>11, <3>3, <3>4, MigratingStep
  <2> QED
    BY <1>4, <2>9, <2>10, <2>11 DEF MigrateConfigured
<1>5. ASSUME NEW t \in Paths, MigrateOut(t) PROVE SetupInv'
  <2> DEFINE k == config.inline
             moved == [Stripped EXCEPT !.file = t]
             alone == <<ConfigJob(moved, FALSE)>>
             both == <<SecretJob(t, k), ConfigJob(moved, FALSE)>>
             was == IF LoadAccessCode # NoCode THEN LoadAccessCode ELSE config.inline
  <2>1. HasInline /\ config.file = None
    BY <1>5 DEF MigrateOut
  <2>2. config \in Configs /\ k \in Codes /\ Stripped \in Configs
    BY <1>1, <2>1, InlineFacts
  <2>3. /\ moved \in Configs /\ moved.inline = NoCode /\ moved.file = t
        /\ moved.serial = config.serial /\ moved.pin = config.pin /\ moved.other = config.other
    BY <1>1, <2>1, <2>2, InlineFacts DEF Configs
  <2>4. Readable(config) /\ Readable(moved) /\ t # None
    BY <2>2, <2>3, ConfigFacts, SetupAssumption DEF SetupAssumption
  <2>5. \A s : CodeFrom(config, s) = k
    BY <2>1, <2>4 DEF CodeFrom
  <2>6. ASSUME NEW s, CodeFrom(moved, s) = k, Works(config, s) PROVE Works(moved, s)
    BY <2>3, <2>4, <2>5, <2>6 DEF Works
  <2>7. config.pin \in {None, config.serial}
    BY <2>4 DEF SetupInv, DoneInv
  <2>8. was = k
    BY <1>1, <2>5, WorkingIsWorks
  <2>9. ASSUME NEW r \in Runs, r.op = "migrate", r.was = was, NEW s, CodeFrom(moved, s) = k
        PROVE  PromiseOf(r, moved, s)
    BY <2>2, <2>3, <2>4, <2>6, <2>7, <2>8, <2>9, CodeFacts DEF PromiseOf
  <2>10. KeysKept(moved, FALSE)
    BY <2>3 DEF KeysKept
  <2> HIDE DEF moved
  <2>11. CASE secret[t] = NoSecret /\ Migrating(t, both, t)
    <3>1. CodeFrom(moved, [secret EXCEPT ![t] = Written(k)]) = k
      <4> DEFINE s == [secret EXCEPT ![t] = Written(k)]
      <4>1. s[moved.file] = Written(k) /\ moved.file \in Paths
        BY <1>6, <2>3
      <4> HIDE DEF s
      <4>2. CodeFrom(moved, s) = k
        BY <2>2, <2>3, <4>1, CodeWritten
      <4> QED
        BY <4>2 DEF s
    <3>2. ASSUME NEW r \in Runs, r.op = "migrate", r.was = was PROVE Fits(r, both)
      <4>1. PromiseOf(r, moved, [secret EXCEPT ![t] = Written(k)])
        BY <2>9, <3>1, <3>2
      <4>2. SecretFits(r, t, k)
        BY <2>5, <2>11 DEF SecretFits, Works
      <4> QED
        BY <2>2, <2>3, <2>10, <4>1, <4>2 DEF Fits
    <3>3. Resumable(t)
      BY <2>1, <2>4, <2>11 DEF Resumable
    <3> HIDE DEF both
    <3> QED
      BY <1>1, <1>2, <2>1, <2>11, <3>2, <3>3, MigratingStep
  <2>12. CASE secret[t] = Written(k) /\ Migrating(t, alone, None)
    <3>1. CodeFrom(moved, secret) = k
      BY <2>2, <2>3, <2>4, <2>12, CodeFacts DEF CodeFrom
    <3>2. ASSUME NEW r \in Runs, r.op = "migrate", r.was = was PROVE Fits(r, alone)
      BY <2>3, <2>9, <2>10, <3>1, <3>2 DEF Fits
    <3>3. Resumable(t)
      BY <2>1, <2>4, <2>12 DEF Resumable
    <3> HIDE DEF alone
    <3> QED
      BY <1>1, <1>2, <2>1, <2>12, <3>2, <3>3, MigratingStep
  <2>13. CASE secret[t] \notin {NoSecret, Written(k)} /\ Answer("migrate", t, "refused")
    <3>1. ~redirected /\ resume # None => t # resume
      BY <2>1, <2>4, <2>13 DEF SetupInv, ResumeInv, Resumable
    <3> QED
      BY <1>1, <1>2, <2>13, <3>1, AnswerStep
  <2> QED
    BY <1>5, <2>11, <2>12, <2>13 DEF MigrateOut, moved
<1> QED
  BY <1>2, <1>3, <1>4, <1>5 DEF MigrateAccessCode

\* A code that is given, for the printer it belongs to, works once it is written:
\* inline, or in a file that was free, had it already, or was given up.
LEMMA GivenFits ==
  ASSUME SetupInv, NEW sn \in Printers, NEW k \in Codes, Owner(k) = sn,
         NEW p \in Paths \cup {None}, NEW pin \in {None, sn},
         NEW r \in Runs, r.op = "setup", r.was = k,
         r.strips => BuildSetupConfig(sn, k, p, pin).inline = NoCode,
         p # None /\ ~r.force => \/ secret[p] = NoSecret \/ Content(secret[p]) = k
                                 \/ p = r.rotate /\ Readable(config) /\ config.serial = sn
  PROVE  Fits(r, SetupJobs(sn, k, p, pin))
<1> DEFINE new == BuildSetupConfig(sn, k, p, pin)
<1>1. /\ new \in Configs /\ new.serial = sn /\ new.file = p /\ new.pin = pin
      /\ p = None => new.inline = k
  BY DEF BuildSetupConfig, Configs
<1>2. SetupTypeOK /\ secret \in [Paths -> Secrets]
  BY DEF SetupInv, SetupTypeOK
<1>3. Readable(new) /\ k # NoCode
  BY <1>1, ConfigFacts, CodeFacts
<1>4. r.strips => new.inline = NoCode
  OBVIOUS
<1>5. KeysKept(new, TRUE)
  BY DEF KeysKept
<1>6. ASSUME NEW s, CodeFrom(new, s) = k PROVE Works(new, s) /\ PromiseOf(r, new, s)
  <2>1. Works(new, s)
    BY <1>1, <1>3, <1>6 DEF Works
  <2> QED
    BY <1>1, <1>4, <1>6, <2>1 DEF PromiseOf
<1>7. CASE p = None
  <2>1. CodeFrom(new, secret) = k
    BY <1>1, <1>3, <1>7 DEF CodeFrom
  <2>2. SetupJobs(sn, k, p, pin) = <<ConfigJob(new, TRUE)>>
    BY <1>7 DEF SetupJobs
  <2>3. PromiseOf(r, new, secret)
    BY <1>6, <2>1
  <2> HIDE DEF new
  <2> QED
    BY <1>1, <1>5, <2>2, <2>3 DEF Fits
<1>8. CASE p # None
  <2> DEFINE s == [secret EXCEPT ![p] = Written(k)]
  <2>1. p \in Paths /\ s[p] = Written(k) /\ \A q \in Paths : q # p => s[q] = secret[q]
    BY <1>2, <1>8
  <2>2. CodeFrom(new, s) = k
    <3> HIDE DEF s, new
    <3> QED
      BY <1>1, <2>1, CodeWritten
  <2>3. PromiseOf(r, new, s)
    <3> HIDE DEF s, new
    <3> QED
      BY <1>6, <2>2
  <2>4. ASSUME Careful(r), Works(config, secret) PROVE Works(config, s)
    <3>1. config \in Configs /\ Readable(config)
      BY <1>2, <2>4 DEF Works, SetupTypeOK, Readable
    <3>2. CASE config.file # p
      <4>1. config.file \in Paths => s[config.file] = secret[config.file]
        BY <2>1, <3>2
      <4> HIDE DEF s
      <4> QED
        BY <2>4, <3>1, <4>1, CodeElsewhere
    <3>3. CASE config.file = p
      <4>1. CodeFrom(config, s) = k
        <5>1. s[config.file] = Written(k) /\ config.file \in Paths
          BY <2>1, <3>3
        <5> HIDE DEF s
        <5> QED
          BY <3>1, <5>1, CodeWritten
      <4>2. CodeFrom(config, secret) = Content(secret[p]) /\ HasCode(secret[p])
        BY <1>8, <2>4, <3>1, <3>3, CodeFacts DEF Works, CodeFrom
      <4>3. Owner(k) = config.serial
        <5>1. secret[p] # NoSecret
          BY <4>2 DEF HasCode
        <5>2. Content(secret[p]) = k \/ config.serial = sn
          BY <1>8, <2>4, <5>1 DEF Careful
        <5> QED
          BY <2>4, <4>2, <5>2 DEF Works
      <4> HIDE DEF s
      <4> QED
        BY <2>4, <3>1, <4>1, <4>3 DEF Works
    <3> QED
      BY <3>2, <3>3
  <2>5. SecretFits(r, p, k)
    <3>1. Careful(r) => secret[p] = NoSecret \/ Content(secret[p]) = k \/ p = r.rotate
      BY <1>8 DEF Careful
    <3> QED
      BY <2>4, <3>1 DEF SecretFits
  <2>6. SetupJobs(sn, k, p, pin) = <<SecretJob(p, k), ConfigJob(new, TRUE)>>
    <3>1. SetupJobs(sn, k, p, pin) = <<SecretJob(p, k)>> \o <<ConfigJob(new, TRUE)>>
      BY <1>3, <1>8 DEF SetupJobs
    <3> QED
      BY <3>1, TwoInARow, Zenon
  <2> HIDE DEF new
  <2> QED
    BY <1>1, <1>5, <2>1, <2>3, <2>5, <2>6 DEF Fits
<1> QED
  BY <1>7, <1>8

\* What was given or kept begins to be written.
LEMMA SetupBegins ==
  ASSUME SetupInv, at \in {"idle"} \cup Asks, NEW r \in Runs, NEW jobs,
         r.op = "setup", r.target = None, r.fresh = None, Fits(r, jobs), Begin(r, jobs),
         r.strips => Readable(config) /\ config.inline # NoCode,
         resume' = None
  PROVE  SetupInv'
<1>1. Suits(r)
  BY DEF Suits
<1> QED
  BY <1>1, BeginStep

\* The record of a run of setup.
SetupRun(f, o, s, w) == [NoRun EXCEPT !.op = "setup", !.force = f, !.rotate = o, !.strips = s, !.was = w]

\* Its fields.
LEMMA SetupRunFacts ==
  ASSUME NEW f \in BOOLEAN, NEW o \in Paths \cup {None}, NEW s \in BOOLEAN, NEW w \in Codes \cup {NoCode}
  PROVE  LET r == SetupRun(f, o, s, w)
         IN  /\ r \in Runs /\ r.op = "setup" /\ r.target = None /\ r.fresh = None
             /\ r.force = f /\ r.rotate = o /\ r.was = w /\ (r.strips <=> s)
<1> DEFINE r == SetupRun(f, o, s, w)
<1>1. r.op = "setup"
  BY DEF NoRun, SetupRun
<1>2. r.target = None /\ r.fresh = None
  BY DEF NoRun, SetupRun
<1>3. r.strips <=> s
  BY DEF NoRun, SetupRun
<1>4. r.was = w
  BY DEF NoRun, SetupRun
<1>5. r.rotate = o
  BY DEF NoRun, SetupRun
<1>6. r.force = f
  BY DEF NoRun, SetupRun
<1>7. r \in Runs
  BY DEF NoRun, SetupRun, Runs
<1> QED
  BY <1>1, <1>2, <1>3, <1>4, <1>5, <1>6, <1>7

\* setup with options: what is kept is the same printer's, and still works.
LEMMA SetupStep ==
  ASSUME SetupInv, NEW s \in Printers \cup {None}, NEW c \in Codes \cup {NoCode}, NEW f \in Paths \cup {None},
         NEW pinned \in BOOLEAN, NEW force \in BOOLEAN, SetupNoninteractive(s, c, f, pinned, force)
  PROVE  SetupInv' /\ UNCHANGED disk
<1> DEFINE g == Given(s, c, f)
           pin == IF pinned THEN g.serial ELSE InheritedPin(s)
           new == BuildSetupConfig(g.serial, g.code, g.file, pin)
           was == IF c # NoCode THEN c ELSE IF f # None THEN Content(secret[f])
                  ELSE IF Working THEN LoadAccessCode ELSE NoCode
           r == [NoRun EXCEPT !.op = "setup", !.force = force, !.rotate = g.rotate,
                              !.strips = Strips(new), !.was = was]
           jobs == SetupJobs(g.serial, g.code, g.file, pin)
<1>1. SetupTypeOK /\ at = "idle" /\ resume' = None /\ secret \in [Paths -> Secrets]
  BY DEF SetupInv, SetupTypeOK, SetupNoninteractive, Idle
<1>2. UNCHANGED disk
  BY DEF SetupNoninteractive, Answer, Begin
<1>3. CASE SetupRefuses(g, force) /\ Answer("setup", None, "refused")
  BY <1>1, <1>2, <1>3, AnswerStep
<1>4. CASE ~SetupRefuses(g, force) /\ Begin(r, jobs)
  <2>1. SameSerial(s) => config \in Configs /\ Readable(config) /\ config.pin \in {None, config.serial}
    BY <1>1 DEF SetupTypeOK, SameSerial, Readable, SetupInv, DoneInv
  <2>2. /\ g.serial = (IF SameSerial(s) THEN config.serial ELSE s)
        /\ g.file = (IF SameSerial(s) /\ f = None THEN config.file ELSE f)
        /\ g.code = (IF SameSerial(s) /\ c = NoCode /\ g.file = None THEN config.inline ELSE c)
        /\ g.rotate = (IF SameSerial(s) /\ c # NoCode /\ g.file = config.file THEN g.file ELSE None)
    BY DEF Given
  <2>3. g.serial # None
    BY <1>4 DEF SetupRefuses
  <2>4. /\ g.serial \in Printers /\ g.file \in Paths \cup {None}
        /\ g.code \in Codes \cup {NoCode} /\ g.rotate \in Paths \cup {None}
    BY <2>1, <2>2, <2>3 DEF Configs
  <2>5. pin \in {None, g.serial}
    BY <2>1, <2>2 DEF InheritedPin
  <2>6. Honest(g, c, f)
    BY DEF SetupNoninteractive
  <2>7. /\ new \in Configs /\ new.serial = g.serial /\ new.file = g.file /\ new.pin = pin
        /\ new.inline = (IF g.file # None THEN NoCode ELSE g.code)
    BY <2>4, <2>5 DEF BuildSetupConfig, Configs
  <2>8. Readable(new)
    BY <2>7, ConfigFacts
  <2>9. Strips(new) => Readable(config) /\ config.inline # NoCode /\ new.inline = NoCode
    BY DEF Strips
  <2>10. Strips(new) \in BOOLEAN
    BY DEF Strips
  <2> HIDE DEF g, pin
  <2>11. was \in Codes \cup {NoCode} /\ (c # NoCode => was = c)
    <3>1. CASE c # NoCode
      BY <3>1
    <3>2. CASE c = NoCode /\ f # None
      <4>1. g.file = f /\ g.code = NoCode
        BY <2>2, <3>2
      <4>2. HasCode(secret[f]) /\ secret[f] \in Secrets
        BY <1>1, <1>4, <3>2, <4>1 DEF SetupRefuses
      <4> QED
        BY <3>2, <4>2, SecretFacts
    <3>3. CASE c = NoCode /\ f = None
      BY <3>3 DEF Working
    <3> QED
      BY <3>1, <3>2, <3>3
  <2>12. /\ r \in Runs /\ r.op = "setup" /\ r.target = None /\ r.fresh = None /\ r.force = force
         /\ r.rotate = g.rotate /\ r.was = was /\ (r.strips <=> Strips(new))
    <3>1. PICK b \in BOOLEAN : b = Strips(new)
      BY <2>10
    <3>2. r = SetupRun(force, g.rotate, b, was)
      BY <3>1 DEF SetupRun
    <3>3. b <=> Strips(new)
      BY <3>1
    <3>4. g.rotate \in Paths \cup {None} /\ was \in Codes \cup {NoCode}
      BY <2>4, <2>11
    <3> HIDE DEF r, new, was
    <3>5. /\ r \in Runs /\ r.op = "setup" /\ r.target = None /\ r.fresh = None
          /\ r.force = force /\ r.rotate = g.rotate /\ r.was = was /\ (r.strips <=> b)
      BY <3>2, <3>4, SetupRunFacts
    <3> QED
      BY <3>3, <3>5
  <2>13. Fits(r, jobs)
    <3>1. CASE c # NoCode
      <4>1. g.code = c /\ g.code \in Codes /\ Owner(g.code) = g.serial /\ r.was = g.code
        BY <2>2, <2>6, <2>11, <2>12, <3>1 DEF Honest
      <4>2. ASSUME g.file # None, ~force
            PROVE  \/ secret[g.file] = NoSecret \/ Content(secret[g.file]) = g.code
                   \/ g.file = r.rotate /\ Readable(config) /\ config.serial = g.serial
        <5>1. g.rotate # None \/ ~OverwriteConflict(g.file, c)
          BY <1>4, <3>1, <4>1, <4>2 DEF SetupRefuses
        <5> QED
          BY <2>1, <2>2, <2>12, <4>1, <5>1 DEF OverwriteConflict
      <4>3. r.strips => new.inline = NoCode
        BY <2>9, <2>12
      <4>4. g.file # None /\ ~r.force =>
              \/ secret[g.file] = NoSecret \/ Content(secret[g.file]) = g.code
              \/ g.file = r.rotate /\ Readable(config) /\ config.serial = g.serial
        BY <2>12, <4>2
      <4> HIDE DEF r, was
      <4> QED
        BY <2>4, <2>5, <2>12, <4>1, <4>3, <4>4, GivenFits
    <3>2. CASE c = NoCode
      <4>1. jobs = <<ConfigJob(new, TRUE)>>
        <5>1. g.code = NoCode \/ g.file = None
          BY <2>2, <3>2
        <5>2. jobs = <<>> \o <<ConfigJob(new, TRUE)>>
          BY <5>1, Zenon DEF SetupJobs
        <5> HIDE DEF new, jobs
        <5> QED
          BY <5>2
      <4>2. SameSerial(s) \/ f # None
        BY <1>4, <2>2, <3>2 DEF SetupRefuses
      <4>3. CASE f # None
        <5>1. g.file = f /\ f \in Paths /\ g.code = NoCode
          BY <2>2, <4>3, <3>2
        <5>2. HasCode(secret[f]) /\ secret[f] \in Secrets
          BY <1>1, <1>4, <4>3, <5>1 DEF SetupRefuses
        <5>3. CodeFrom(new, secret) = Content(secret[f]) /\ Content(secret[f]) \in Codes
          BY <2>7, <2>8, <4>3, <5>1, <5>2, SecretFacts DEF CodeFrom
        <5>4. Works(new, secret)
          BY <2>5, <2>6, <2>7, <2>8, <3>2, <4>3, <5>2, <5>3 DEF Works, Honest
        <5>5. was = Content(secret[f])
          BY <3>2, <4>3
        <5>6. PromiseOf(r, new, secret)
          BY <2>5, <2>7, <2>9, <2>12, <5>3, <5>4, <5>5 DEF PromiseOf
        <5> HIDE DEF new, r
        <5> QED
          BY <2>7, <4>1, <5>6 DEF Fits, KeysKept
      <4>4. CASE f = None
        <5>1. /\ SameSerial(s) /\ g.serial = config.serial /\ g.file = config.file
              /\ Readable(config)
          BY <2>1, <2>2, <4>2, <4>4
        <5>2. \A z : CodeFrom(new, z) = CodeFrom(config, z)
          BY <2>2, <2>7, <2>8, <3>2, <5>1 DEF CodeFrom
        <5>3. ASSUME Works(config, secret) PROVE Works(new, secret)
          BY <2>5, <2>7, <2>8, <5>1, <5>2, <5>3 DEF Works
        <5>4. was # NoCode => Works(config, secret) /\ was = CodeFrom(config, secret)
          BY <1>1, <3>2, <4>4, WorkingIsWorks
        <5>5. PromiseOf(r, new, secret)
          BY <2>5, <2>7, <2>9, <2>12, <5>2, <5>3, <5>4 DEF PromiseOf
        <5> HIDE DEF new, r
        <5> QED
          BY <2>7, <4>1, <5>5 DEF Fits, KeysKept
      <4> QED
        BY <4>3, <4>4
    <3> QED
      BY <3>1, <3>2
  <2> HIDE DEF r, jobs
  <2> QED
    BY <1>1, <1>2, <1>4, <2>9, <2>12, <2>13, SetupBegins
<1> QED
  BY <1>3, <1>4 DEF SetupNoninteractive

\* Guided setup writes what it was told.
LEMMA GuidedStep ==
  ASSUME SetupInv, at \in {"askFile", "confirm"}, UNCHANGED resume,
         NEW f \in Paths \cup {None}, NEW force \in BOOLEAN, GuidedWrites(f, force),
         f # None /\ ~force => ~OverwriteConflict(f, draft.code)
  PROVE  SetupInv'
<1> DEFINE c == BuildSetupConfig(draft.serial, draft.code, f, None)
           r == [run EXCEPT !.force = force, !.strips = Strips(c), !.was = draft.code]
<1>1. /\ run = [NoRun EXCEPT !.op = "setup"] /\ draft.serial \in Printers
      /\ draft.code \in Codes /\ Owner(draft.code) = draft.serial
  BY DEF SetupInv, DraftInv, Asks
<1>2. PICK pin \in {None, draft.serial} : Begin(r, SetupJobs(draft.serial, draft.code, f, pin))
  BY DEF GuidedWrites
<1>3. c.inline = BuildSetupConfig(draft.serial, draft.code, f, pin).inline
  BY DEF BuildSetupConfig
<1>4. Strips(c) \in BOOLEAN /\ (Strips(c) => Readable(config) /\ config.inline # NoCode /\ c.inline = NoCode)
  BY DEF Strips
<1> HIDE DEF c
<1>5. /\ r \in Runs /\ r.op = "setup" /\ r.target = None /\ r.fresh = None /\ r.force = force
      /\ r.was = draft.code /\ (r.strips <=> Strips(c))
  BY <1>1, <1>4 DEF NoRun, Runs
<1>6. r.strips => BuildSetupConfig(draft.serial, draft.code, f, pin).inline = NoCode
  BY <1>3, <1>4, <1>5
<1>7. f # None /\ ~r.force => secret[f] = NoSecret \/ Content(secret[f]) = draft.code
  BY <1>5 DEF OverwriteConflict
<1>8. resume' = None
  BY <1>1 DEF SetupInv, ResumeInv, NoRun
<1> HIDE DEF r
<1>9. Fits(r, SetupJobs(draft.serial, draft.code, f, pin))
  BY <1>1, <1>5, <1>6, <1>7, GivenFits
<1> QED
  BY <1>2, <1>4, <1>5, <1>8, <1>9, SetupBegins DEF Asks

\* A question more.
LEMMA PromptStep ==
  ASSUME SetupInv, at \in Asks, NEW place \in Asks, NEW d \in Drafts, Prompt(place, d), UNCHANGED run,
         d.serial = draft.serial,
         place # "askCode" => d.code \in Codes /\ Owner(d.code) = d.serial
  PROVE  SetupInv'
<1>1. /\ at' = place /\ draft' = d
      /\ UNCHANGED <<config, bak, secret, redirected, run, todo, tmp, ret, resume, ops, stops>>
  BY DEF Prompt, disk
<1>2. SetupTypeOK'
  BY <1>1 DEF SetupInv, SetupTypeOK, Asks, Drafts, Attempts
<1>3. PlanInv' /\ TmpInv'
  BY <1>1 DEF SetupInv, PlanInv, TmpInv, Asks, Writes
<1>4. DraftInv'
  BY <1>1 DEF SetupInv, DraftInv, Asks
<1>5. DoneInv' /\ MigrationResumes'
  BY <1>1 DEF SetupInv, DoneInv, MigrationResumes, CodeFrom, Works, Asks
<1>6. ResumeInv'
  BY <1>1 DEF SetupInv, ResumeInv, Resumable, Asks
<1> QED
  BY <1>2, <1>3, <1>4, <1>5, <1>6 DEF SetupInv

\* A wrong answer is asked for again, up to Attempts.
LEMMA WrongAnswerStep ==
  ASSUME SetupInv, at \in {"askCode", "askModel"}, WrongAnswer
  PROVE  SetupInv' /\ UNCHANGED disk
<1>1. /\ draft \in Drafts /\ draft.serial \in Printers /\ draft.tries \in 0 .. Attempts - 1
      /\ at # "askCode" => draft.code \in Codes /\ Owner(draft.code) = draft.serial
  BY DEF SetupInv, DraftInv, Asks, Drafts
<1>2. CASE draft.tries + 1 = Attempts
  <2>1. Answer("setup", None, "refused") /\ UNCHANGED <<resume, ops>>
    BY <1>2 DEF WrongAnswer
  <2> QED
    BY <2>1, AnswerStep DEF Asks, Answer
<1>3. CASE draft.tries + 1 # Attempts
  <2> DEFINE d == [draft EXCEPT !.tries = @ + 1]
  <2>1. Prompt(at, d) /\ UNCHANGED run
    BY <1>3 DEF WrongAnswer
  <2>2. d \in Drafts /\ d.serial = draft.serial /\ d.code = draft.code
    BY <1>1, <1>3 DEF Drafts, Attempts
  <2>3. UNCHANGED disk
    BY <2>1 DEF Prompt
  <2> HIDE DEF d
  <2> QED
    BY <1>1, <2>1, <2>2, <2>3, PromptStep DEF Asks
<1> QED
  BY <1>2, <1>3

\* Guided setup, question by question.
LEMMA GuidedSetupStep ==
  ASSUME SetupInv, \/ \E s \in Printers : SetupInteractive(s)
                   \/ PromptAccessCode \/ PromptPrinterModel \/ PromptAccessCodeFile \/ ConfirmOverwrite
  PROVE  SetupInv' /\ UNCHANGED disk
<1>1. CASE \E s \in Printers : SetupInteractive(s)
  <2>1. PICK s \in Printers : SetupInteractive(s)
    BY <1>1
  <2>2. /\ at = "idle" /\ resume' = None /\ run' = [NoRun EXCEPT !.op = "setup"]
        /\ at' = "askCode" /\ ret' = None /\ draft' = [NoDraft EXCEPT !.serial = s]
        /\ UNCHANGED <<config, bak, secret, redirected, todo, tmp, stops>>
    BY <2>1 DEF SetupInteractive, Idle, disk
  <2>8. run' \in Runs /\ run'.op = "setup" /\ run'.target = None
    BY <2>2 DEF NoRun, Runs
  <2>9. draft' = [serial |-> s, code |-> NoCode, tries |-> 0]
    BY <2>2 DEF NoDraft
  <2>10. draft' \in Drafts /\ draft'.serial \in Printers /\ draft'.tries < Attempts
    BY <2>9 DEF Drafts, Attempts
  <2>3. /\ run' \in Runs /\ run'.op = "setup" /\ run'.target = None
        /\ draft' \in Drafts /\ draft'.serial \in Printers /\ draft'.tries < Attempts
    BY <2>8, <2>10
  <2>4. SetupTypeOK'
    BY <2>2, <2>3 DEF SetupInv, SetupTypeOK
  <2>5. PlanInv' /\ TmpInv'
    BY <2>2 DEF SetupInv, PlanInv, TmpInv, Asks, Writes
  <2>6. DraftInv'
    BY <2>2, <2>3 DEF DraftInv, Asks
  <2>7. DoneInv' /\ MigrationResumes' /\ ResumeInv'
    BY <2>2, <2>3 DEF SetupInv, DoneInv, MigrationResumes, ResumeInv, None
  <2> QED
    BY <2>2, <2>4, <2>5, <2>6, <2>7 DEF SetupInv, disk
<1>2. CASE PromptAccessCode
  <2>1. CASE \E n \in 1 .. Gens : /\ Prompt("askModel", [serial |-> draft.serial, code |-> <<draft.serial, n>>, tries |-> 0])
                                  /\ UNCHANGED run
    <3>1. PICK n \in 1 .. Gens : /\ Prompt("askModel", [serial |-> draft.serial, code |-> <<draft.serial, n>>, tries |-> 0])
                                 /\ UNCHANGED run
      BY <2>1
    <3> DEFINE k == <<draft.serial, n>>
               d == [serial |-> draft.serial, code |-> k, tries |-> 0]
    <3>2. draft \in Drafts /\ draft.serial \in Printers /\ at \in Asks
      BY <1>2 DEF SetupInv, DraftInv, Asks, PromptAccessCode
    <3>3. k \in Codes /\ Owner(k) = draft.serial
      BY <3>2 DEF Codes, Owner
    <3>5. UNCHANGED disk
      BY <3>1 DEF Prompt
    <3>6. Prompt("askModel", d) /\ UNCHANGED run
      BY <3>1
    <3> HIDE DEF k
    <3>7. d.serial = draft.serial /\ d.code = k
      OBVIOUS
    <3>4. d \in Drafts
      BY <3>2, <3>3 DEF Drafts, Attempts
    <3> HIDE DEF d
    <3> QED
      BY <3>2, <3>3, <3>4, <3>5, <3>6, <3>7, PromptStep DEF Asks
  <2> QED
    BY <1>2, <2>1, WrongAnswerStep DEF PromptAccessCode
<1>3. CASE PromptPrinterModel
  <2>1. CASE Prompt("askFile", [draft EXCEPT !.tries = 0]) /\ UNCHANGED run
    <3> DEFINE d == [draft EXCEPT !.tries = 0]
    <3>1. draft \in Drafts /\ draft.code \in Codes /\ Owner(draft.code) = draft.serial /\ at \in Asks
      BY <1>3 DEF SetupInv, DraftInv, Asks, PromptPrinterModel
    <3>2. d \in Drafts /\ d.serial = draft.serial /\ d.code = draft.code
      BY <3>1 DEF Drafts, Attempts
    <3>3. UNCHANGED disk
      BY <2>1 DEF Prompt
    <3>4. Prompt("askFile", d) /\ UNCHANGED run
      BY <2>1
    <3> HIDE DEF d
    <3> QED
      BY <3>1, <3>2, <3>3, <3>4, PromptStep DEF Asks
  <2> QED
    BY <1>3, <2>1, WrongAnswerStep DEF PromptPrinterModel
<1>4. CASE PromptAccessCodeFile
  <2>1. Default \in Paths
    BY SetupAssumption DEF SetupAssumption, Default
  <2>2. CASE GuidedWrites(None, FALSE) /\ UNCHANGED <<resume, ops>>
    <3>1. UNCHANGED disk
      BY <2>2 DEF GuidedWrites, Begin
    <3> QED
      BY <1>4, <2>2, <3>1, GuidedStep DEF PromptAccessCodeFile
  <2>3. CASE /\ ~OverwriteConflict(Default, draft.code) /\ GuidedWrites(Default, FALSE)
             /\ UNCHANGED <<resume, ops>>
    <3>1. UNCHANGED disk
      BY <2>3 DEF GuidedWrites, Begin
    <3> QED
      BY <1>4, <2>1, <2>3, <3>1, GuidedStep DEF PromptAccessCodeFile
  <2>4. CASE Prompt("confirm", draft) /\ UNCHANGED run
    <3>1. draft \in Drafts /\ draft.code \in Codes /\ Owner(draft.code) = draft.serial /\ at \in Asks
      BY <1>4 DEF SetupInv, DraftInv, Asks, PromptAccessCodeFile
    <3>2. UNCHANGED disk
      BY <2>4 DEF Prompt
    <3> QED
      BY <2>4, <3>1, <3>2, PromptStep DEF Asks
  <2> QED
    BY <1>4, <2>2, <2>3, <2>4 DEF PromptAccessCodeFile
<1>5. CASE ConfirmOverwrite
  <2>1. Default \in Paths
    BY SetupAssumption DEF SetupAssumption, Default
  <2>2. UNCHANGED disk
    BY <1>5 DEF ConfirmOverwrite, GuidedWrites, Begin, Answer
  <2>3. at = "confirm" /\ UNCHANGED resume
    BY <1>5 DEF ConfirmOverwrite
  <2>4. CASE GuidedWrites(Default, TRUE)
    BY <2>1, <2>2, <2>3, <2>4, GuidedStep
  <2>5. CASE Answer("setup", None, "refused")
    BY <2>2, <2>3, <2>5, AnswerStep DEF Asks
  <2> QED
    BY <1>5, <2>4, <2>5 DEF ConfirmOverwrite
<1> QED
  BY <1>1, <1>2, <1>3, <1>4, <1>5

\* The pin is the configured printer's, and nothing else changes.
LEMMA PinStep ==
  ASSUME SetupInv, OfferPinFingerprint
  PROVE  SetupInv' /\ UNCHANGED disk
<1> DEFINE new == [config EXCEPT !.pin = config.serial]
           r == [NoRun EXCEPT !.op = "doctor"]
<1>1. SetupTypeOK /\ at = "idle" /\ resume' = None /\ LoadAccessCode # NoCode
      /\ Begin(r, <<ConfigJob(new, FALSE)>>)
  BY DEF SetupInv, OfferPinFingerprint, Idle
<1>2. Readable(config) /\ config \in Configs
  BY <1>1, WorkingIsWorks DEF CodeFrom, SetupTypeOK, Readable
<1>3. /\ new \in Configs /\ new.serial = config.serial /\ new.file = config.file
      /\ new.inline = config.inline /\ new.pin = config.serial /\ new.other = config.other
  BY <1>2 DEF Configs
<1>4. Readable(new)
  BY <1>3, ConfigFacts
<1>5. /\ r \in Runs /\ r.op = "doctor" /\ r.target = None /\ r.fresh = None /\ r.was = NoCode
      /\ ~r.strips
  BY DEF NoRun, Runs
<1>6. UNCHANGED disk
  BY <1>1 DEF Begin
<1> HIDE DEF new, r
<1>7. CodeFrom(new, secret) = CodeFrom(config, secret)
  BY <1>2, <1>3, <1>4 DEF CodeFrom
<1>8. PromiseOf(r, new, secret)
  BY <1>3, <1>4, <1>5, <1>7 DEF PromiseOf, Works
<1>9. KeysKept(new, FALSE)
  BY <1>3 DEF KeysKept
<1>10. Fits(r, <<ConfigJob(new, FALSE)>>) /\ Suits(r)
  BY <1>3, <1>5, <1>8, <1>9 DEF Fits, Suits
<1> QED
  BY <1>1, <1>5, <1>6, <1>10, BeginStep

----------------------------------------------------------------------------
(* The writes. *)

\* The first of what is left to write, and what is left after it.
LEMMA ConfigJobFacts ==
  ASSUME NEW c, NEW m
  PROVE  /\ Head(<<ConfigJob(c, m)>>) = ConfigJob(c, m) /\ Tail(<<ConfigJob(c, m)>>) = <<>>
         /\ ConfigJob(c, m).to = "config" /\ ConfigJob(c, m).text = c /\ ConfigJob(c, m).merge = m
<1>1. \A x : Head(<<x>>) = x /\ Tail(<<x>>) = <<>>
  OBVIOUS
<1> QED
  BY <1>1 DEF ConfigJob

\* A plan that writes an access code first.
LEMMA SecretJobFacts ==
  ASSUME NEW p, NEW k, NEW next
  PROVE  /\ Head(<<SecretJob(p, k), next>>) = SecretJob(p, k) /\ Tail(<<SecretJob(p, k), next>>) = <<next>>
         /\ SecretJob(p, k).to = p /\ SecretJob(p, k).text = Written(k) /\ SecretJob(p, k).merge = FALSE
<1>1. \A x, y : Head(<<x, y>>) = x /\ Tail(<<x, y>>) = <<y>>
  OBVIOUS
<1> QED
  BY <1>1 DEF SecretJob

\* A code file is neither the config nor torn.
LEMMA PathFacts ==
  ASSUME NEW p \in Paths, NEW k
  PROVE  p # "config" /\ p # None /\ Written(k) # Torn
<1>1. p # "config" /\ p # None
  BY SetupAssumption DEF SetupAssumption
<1>2. Written(k) # Torn
  <2>1. DOMAIN Written(k) = 1 .. 2
    BY DEF Written
  <2>2. DOMAIN Torn = {"torn"}
    BY DEF Torn
  <2> QED
    BY <2>1, <2>2
<1> QED
  BY <1>1, <1>2

\* The temporary file.
LEMMA WriteTmpStep ==
  ASSUME SetupInv, WriteTmp
  PROVE  SetupInv' /\ UNCHANGED disk
<1>1. /\ at = "write" /\ at' = "backup" /\ Fits(run, todo) /\ Suits(run)
      /\ UNCHANGED <<config, bak, secret, redirected, run, todo, draft, ret, resume, ops, stops>>
  BY DEF WriteTmp, disk, SetupInv, PlanInv, Writes
<1>2. tmp' = [to |-> Head(todo).to,
              text |-> IF Head(todo).merge THEN MergeWithExisting(Head(todo).text) ELSE Head(todo).text,
              keep |-> Head(todo).to = "config" /\ KeepsBackup(Head(todo).text)]
  BY DEF WriteTmp
<1>3. Fits(run, todo)' /\ Suits(run)'
  BY <1>1, FitsKept, SuitsKept
<1>4. TmpInv'
  <2>1. CASE \E c \in Configs, m \in BOOLEAN :
               todo = <<ConfigJob(c, m)>> /\ PromiseOf(run, c, secret) /\ KeysKept(c, m)
    <3>1. PICK c \in Configs, m \in BOOLEAN :
            todo = <<ConfigJob(c, m)>> /\ PromiseOf(run, c, secret) /\ KeysKept(c, m)
      BY <2>1
    <3>2. /\ Head(todo).to = "config" /\ Head(todo).text = c /\ Head(todo).merge = m
      BY <3>1, ConfigJobFacts
    <3>3. /\ tmp'.to = "config" /\ (tmp'.keep <=> KeepsBackup(c))
          /\ tmp'.text = (IF m THEN MergeWithExisting(c) ELSE c)
      BY <1>2, <3>2
    <3>4. tmp'.text \in Configs
      <4>1. MergeWithExisting(c) \in Configs
        <5>1. (Readable(config) /\ config.other) \in BOOLEAN
          <6>1. Readable(config) => config.other \in BOOLEAN
            BY DEF SetupInv, SetupTypeOK, Readable, Configs
          <6> QED
            BY <6>1
        <5> QED
          BY <5>1 DEF MergeWithExisting, Configs
      <4> QED
        BY <3>3, <4>1
    <3>5. /\ tmp'.text.serial = c.serial /\ tmp'.text.inline = c.inline
          /\ tmp'.text.file = c.file /\ tmp'.text.pin = c.pin
          /\ m => tmp'.text.other = (Readable(config) /\ config.other)
          /\ ~m => tmp'.text.other = c.other
      BY <3>3 DEF MergeWithExisting, Configs
    <3>6. ~redirected /\ Readable(config) => tmp'.text.other = config.other
      <4>1. Readable(config) => config.other \in BOOLEAN
        BY DEF SetupInv, SetupTypeOK, Readable, Configs
      <4> QED
        BY <3>1, <3>5, <4>1 DEF KeysKept
    <3>7. run.strips \/ run.op = "migrate" => ~tmp'.keep
      <4>1. run.strips => Readable(config) /\ config.inline # NoCode
        BY <1>1 DEF SetupInv, PlanInv, Writes
      <4>2. run.strips => c.inline = NoCode
        BY <3>1 DEF PromiseOf
      <4> QED
        BY <3>3, <4>1, <4>2 DEF KeepsBackup, Strips
    <3> QED
      BY <1>1, <3>2, <3>3, <3>4, <3>5, <3>6, <3>7 DEF TmpInv, Asks
  <2>2. CASE \E p \in Paths, k \in Codes, c \in Configs, m \in BOOLEAN :
               todo = <<SecretJob(p, k), ConfigJob(c, m)>>
    <3>1. PICK p \in Paths, k \in Codes : Head(todo) = SecretJob(p, k)
      BY <2>2, SecretJobFacts
    <3>2. Head(todo).to = p /\ Head(todo).text = Written(k) /\ Head(todo).merge = FALSE /\ p # "config"
      <4>1. p # "config"
        BY PathFacts
      <4> QED
        BY <3>1, <4>1 DEF SecretJob
    <3>3. tmp'.to = p /\ ~tmp'.keep /\ tmp'.text = Head(todo).text
      BY <1>2, <3>2
    <3> QED
      BY <1>1, <3>2, <3>3 DEF TmpInv, Asks
  <2> QED
    BY <1>1, <2>1, <2>2, Zenon DEF Fits
<1>5. SetupTypeOK'
  BY <1>1 DEF SetupInv, SetupTypeOK
<1>6. PlanInv'
  BY <1>1, <1>3 DEF SetupInv, PlanInv, Writes
<1>7. DraftInv'
  BY <1>1 DEF SetupInv, DraftInv, Asks
<1>8. DoneInv' /\ MigrationResumes'
  BY <1>1 DEF SetupInv, DoneInv, MigrationResumes, None
<1>9. ResumeInv'
  BY <1>1 DEF SetupInv, ResumeInv, Resumable
<1> QED
  BY <1>1, <1>4, <1>5, <1>6, <1>7, <1>8, <1>9 DEF SetupInv, disk

\* The backup is of what the config says now.
LEMMA BackupStep ==
  ASSUME SetupInv, Backup
  PROVE  SetupInv' /\ UNCHANGED <<config, secret>>
<1>1. /\ at = "backup" /\ at' = "replace" /\ Fits(run, todo) /\ Suits(run)
      /\ bak' \in {bak, config}
      /\ UNCHANGED <<config, secret, redirected, run, todo, tmp, draft, ret, resume, ops, stops>>
  BY DEF Backup, SetupInv, PlanInv, Writes
<1>2. Fits(run, todo)' /\ Suits(run)'
  BY <1>1, FitsKept, SuitsKept
<1>3. SetupTypeOK'
  BY <1>1 DEF SetupInv, SetupTypeOK
<1>4. PlanInv' /\ TmpInv'
  BY <1>1, <1>2 DEF SetupInv, PlanInv, TmpInv, Writes, Asks
<1>5. DraftInv'
  BY <1>1 DEF SetupInv, DraftInv, Asks
<1>6. DoneInv' /\ MigrationResumes'
  BY <1>1 DEF SetupInv, DoneInv, MigrationResumes, None
<1>7. ResumeInv'
  BY <1>1 DEF SetupInv, ResumeInv, Resumable
<1> QED
  BY <1>1, <1>3, <1>4, <1>5, <1>6, <1>7 DEF SetupInv

\* What is being written while there is a temporary file: the config, when it is all
\* that is left, or a code file, with the config to follow.
LEMMA PlanFacts ==
  ASSUME SetupInv, at \in Writes
  PROVE  /\ Head(todo).to = "config" =>
              \E c \in Configs, m \in BOOLEAN :
                /\ todo = <<ConfigJob(c, m)>> /\ PromiseOf(run, c, secret) /\ KeysKept(c, m)
                /\ Head(todo).text = c /\ Tail(todo) = <<>>
         /\ Head(todo).to # "config" =>
              \E p \in Paths, k \in Codes, c \in Configs, m \in BOOLEAN :
                /\ todo = <<SecretJob(p, k), ConfigJob(c, m)>> /\ KeysKept(c, m)
                /\ PromiseOf(run, c, [secret EXCEPT ![p] = Written(k)]) /\ SecretFits(run, p, k)
                /\ Head(todo).to = p /\ Head(todo).text = Written(k) /\ Tail(todo) = <<ConfigJob(c, m)>>
<1>1. Fits(run, todo)
  BY DEF SetupInv, PlanInv
<1>2. CASE \E c \in Configs, m \in BOOLEAN :
             todo = <<ConfigJob(c, m)>> /\ PromiseOf(run, c, secret) /\ KeysKept(c, m)
  <2>1. PICK c \in Configs, m \in BOOLEAN :
          todo = <<ConfigJob(c, m)>> /\ PromiseOf(run, c, secret) /\ KeysKept(c, m)
    BY <1>2
  <2>2. Head(todo).to = "config" /\ Head(todo).text = c /\ Tail(todo) = <<>>
    BY <2>1, ConfigJobFacts
  <2> QED
    BY <2>1, <2>2
<1>3. CASE \E p \in Paths, k \in Codes, c \in Configs, m \in BOOLEAN :
             /\ todo = <<SecretJob(p, k), ConfigJob(c, m)>> /\ KeysKept(c, m)
             /\ PromiseOf(run, c, [secret EXCEPT ![p] = Written(k)]) /\ SecretFits(run, p, k)
  <2>1. PICK p \in Paths, k \in Codes, c \in Configs, m \in BOOLEAN :
          /\ todo = <<SecretJob(p, k), ConfigJob(c, m)>> /\ KeysKept(c, m)
          /\ PromiseOf(run, c, [secret EXCEPT ![p] = Written(k)]) /\ SecretFits(run, p, k)
    BY <1>3
  <2>2. Head(todo).to = p /\ Head(todo).text = Written(k) /\ Tail(todo) = <<ConfigJob(c, m)>>
    <3>1. Head(todo) = SecretJob(p, k) /\ Tail(todo) = <<ConfigJob(c, m)>>
      <4> DEFINE job == SecretJob(p, k)
                 next == ConfigJob(c, m)
      <4>1. todo = <<job, next>>
        BY <2>1
      <4> HIDE DEF job, next
      <4>2. Head(todo) = job /\ Tail(todo) = <<next>>
        BY <4>1
      <4> QED
        BY <4>2 DEF job, next
    <3> QED
      BY <3>1 DEF SecretJob
  <2>3. p # "config"
    BY PathFacts
  <2> QED
    BY <2>1, <2>2, <2>3
<1> QED
  BY <1>1, <1>2, <1>3 DEF Fits

\* The config is in place: it keeps the promise of the run, and the user's keys.
LEMMA ConfigPlaced ==
  ASSUME SetupInv, at \in {"replace", "inPlace"}, tmp.to = "config",
         Put(tmp.to, tmp.text), Advance, UNCHANGED <<redirected, run, resume, ops, stops>>
  PROVE  /\ SetupInv' /\ secret' = secret
         /\ ~redirected /\ Readable(config) => Readable(config') /\ config'.other = config.other
         /\ Careful(run) /\ Works(config, secret) => Works(config, secret)'
<1>1. /\ tmp.text \in Configs /\ Head(todo).to = "config"
      /\ tmp.text.serial = Head(todo).text.serial /\ tmp.text.inline = Head(todo).text.inline
      /\ tmp.text.file = Head(todo).text.file /\ tmp.text.pin = Head(todo).text.pin
      /\ ~redirected /\ Readable(config) => tmp.text.other = config.other
      /\ run.strips \/ run.op = "migrate" => ~tmp.keep
  BY DEF SetupInv, TmpInv, Writes
<1>2. PICK c \in Configs, m \in BOOLEAN :
        /\ todo = <<ConfigJob(c, m)>> /\ PromiseOf(run, c, secret)
        /\ Head(todo).text = c /\ Tail(todo) = <<>>
  BY <1>1, PlanFacts DEF Writes
<1>3. config' = tmp.text /\ secret' = secret /\ bak' = bak
  BY DEF Put
<1>4. /\ config' \in Configs /\ Readable(config')
      /\ config'.serial = c.serial /\ config'.inline = c.inline
      /\ config'.file = c.file /\ config'.pin = c.pin
  BY <1>1, <1>2, <1>3, ConfigFacts
<1>5. Readable(c)
  BY ConfigFacts
<1>6. CodeFrom(config', secret') = CodeFrom(c, secret) /\ (Works(config', secret') <=> Works(c, secret))
  BY <1>3, <1>4, <1>5 DEF CodeFrom, Works
<1>7. /\ UNCHANGED <<redirected, run, resume>>
      /\ \/ ~tmp.keep /\ at' = "scrub" /\ todo' = <<>> /\ UNCHANGED <<tmp, draft, ret>>
         \/ tmp.keep /\ at' = "idle" /\ todo' = <<>> /\ tmp' = NoTmp /\ draft' = NoDraft /\ ret' = Success
  BY <1>2 DEF Advance, End
<1>8. ret = None
  BY DEF SetupInv, DoneInv
<1>9. /\ Success \in {"migrated", "configured", "pinned"}
      /\ Success = "migrated" => run.op = "migrate"
      /\ Success = "configured" => run.op = "setup"
  BY DEF Success
<1>10. SetupTypeOK'
  BY <1>3, <1>4, <1>7, <1>9 DEF SetupInv, SetupTypeOK, NoDraft, Attempts
<1>11. PlanInv' /\ TmpInv'
  BY <1>7 DEF PlanInv, TmpInv, Writes, Asks
<1>12. DraftInv'
  BY <1>7 DEF SetupInv, DraftInv, Asks, NoDraft, Drafts, Attempts
<1>13. /\ config'.pin \in {None, config'.serial}
       /\ run.op = "migrate" => run.was # NoCode
       /\ run.was # NoCode => CodeFrom(config', secret') = run.was /\ (run.op = "setup" => Works(config', secret'))
       /\ run.strips \/ run.op = "migrate" => config'.inline = NoCode
  BY <1>2, <1>4, <1>6 DEF PromiseOf
<1>14. DoneInv'
  BY <1>1, <1>4, <1>7, <1>8, <1>9, <1>13 DEF DoneInv, None
<1>15. MigrationResumes'
  BY <1>7, <1>8, <1>9 DEF MigrationResumes, None
<1>16. ASSUME run.op = "migrate", NEW t \in Paths PROVE Resumable(t)'
  <2>1. config'.inline = NoCode /\ config'.file # None /\ CodeFrom(config', secret') # NoCode
    BY <1>2, <1>4, <1>13, <1>16 DEF PromiseOf
  <2>2. HasCode(secret'[config'.file])
    BY <1>4, <2>1 DEF CodeFrom
  <2> QED
    BY <2>1, <2>2 DEF Resumable
<1>17. ResumeInv'
  <2>1. /\ resume \in Paths \cup {None} /\ run.target \in Paths \cup {None}
        /\ run.op # "migrate" => resume = None /\ run.target = None
    BY DEF SetupInv, ResumeInv, DraftInv, Runs
  <2> QED
    BY <1>7, <1>16, <2>1 DEF ResumeInv
<1>18. Careful(run) /\ Works(config, secret) => Works(config, secret)'
  BY <1>2, <1>6 DEF PromiseOf
<1> QED
  BY <1>1, <1>3, <1>4, <1>10, <1>11, <1>12, <1>14, <1>15, <1>17, <1>18 DEF SetupInv

\* The code file is in place: the plan goes on, and what worked still does.
LEMMA SecretPlaced ==
  ASSUME SetupInv, at \in {"replace", "inPlace"}, tmp.to # "config",
         Put(tmp.to, tmp.text), Advance, UNCHANGED <<redirected, run, resume, ops, stops>>
  PROVE  /\ SetupInv' /\ config' = config
         /\ Careful(run) /\ Works(config, secret) => Works(config, secret)'
         /\ Careful(run) => \A q \in Paths : secret[q] # NoSecret /\ Content(secret'[q]) # Content(secret[q])
                                               => q = run.rotate
<1>1. tmp.to = Head(todo).to /\ tmp.text = Head(todo).text /\ ~tmp.keep
  BY DEF SetupInv, TmpInv, Writes
<1>2. PICK p \in Paths, k \in Codes, c \in Configs, m \in BOOLEAN :
        /\ todo = <<SecretJob(p, k), ConfigJob(c, m)>> /\ KeysKept(c, m)
        /\ PromiseOf(run, c, [secret EXCEPT ![p] = Written(k)]) /\ SecretFits(run, p, k)
        /\ Head(todo).to = p /\ Head(todo).text = Written(k) /\ Tail(todo) = <<ConfigJob(c, m)>>
  BY <1>1, PlanFacts DEF Writes
<1>3. p # "config" /\ Written(k) # Torn /\ Written(k) \in Secrets
  BY PathFacts, CodeFacts
<1>4. secret' = [secret EXCEPT ![p] = Written(k)] /\ config' = config /\ bak' = bak
  BY <1>1, <1>2, <1>3 DEF Put
<1>5. /\ secret \in [Paths -> Secrets] /\ secret' \in [Paths -> Secrets]
      /\ secret'[p] = Written(k) /\ \A q \in Paths : q # p => secret'[q] = secret[q]
  BY <1>3, <1>4 DEF SetupInv, SetupTypeOK
<1>6. /\ UNCHANGED <<redirected, run, resume, draft, ret>>
      /\ at' = "write" /\ todo' = <<ConfigJob(c, m)>> /\ tmp' = NoTmp
  BY <1>1, <1>2 DEF Advance
<1>7. PromiseOf(run, c, secret)' /\ KeysKept(c, m)'
  BY <1>2, <1>4, <1>6 DEF PromiseOf, KeysKept, Careful, Works, CodeFrom
<1>8. Fits(run, todo)'
  BY <1>6, <1>7 DEF Fits, ConfigJob
<1>9. run.op = "migrate" /\ ~redirected => k = config.inline
  BY <1>2 DEF SecretFits
<1>10. ASSUME NEW t \in Paths, run.op = "migrate", ~redirected, Resumable(t) PROVE Resumable(t)'
  <2>1. HasCode(Written(k))
    BY CodeFacts
  <2> QED
    BY <1>4, <1>5, <1>9, <1>10, <2>1 DEF Resumable
<1>11. Suits(run)'
  <2>1. Suits(run)
    BY DEF SetupInv, PlanInv, Writes
  <2> QED
    BY <1>4, <1>6, <1>10, <2>1 DEF Suits, Runs
<1>12. /\ ret = None /\ resume \in Paths \cup {None} /\ run.target \in Paths \cup {None}
       /\ run.op # "migrate" => resume = None /\ run.target = None
  BY DEF SetupInv, DoneInv, ResumeInv, DraftInv, Runs
<1>13. SetupTypeOK'
  <2>1. todo' # <<>>
    BY <1>6
  <2> QED
    BY <1>4, <1>5, <1>6, <2>1 DEF SetupInv, SetupTypeOK
<1>14. PlanInv'
  <2>1. todo' # <<>>
    BY <1>6
  <2>2. run.strips => Readable(config) /\ config.inline # NoCode
    BY <1>1, <1>2, <1>3 DEF SetupInv, PlanInv, Writes
  <2> QED
    BY <1>4, <1>6, <1>8, <1>11, <2>1, <2>2 DEF PlanInv, Writes
<1>15. DraftInv' /\ TmpInv'
  BY <1>6 DEF SetupInv, DraftInv, TmpInv, Asks, Writes
<1>16. DoneInv' /\ MigrationResumes'
  BY <1>4, <1>6, <1>12 DEF SetupInv, DoneInv, MigrationResumes, None
<1>17. ResumeInv'
  BY <1>6, <1>10, <1>12 DEF SetupInv, ResumeInv
<1>18. Careful(run) /\ Works(config, secret) => Works(config, secret)'
  BY <1>2, <1>4 DEF SecretFits
<1>19. Careful(run) => \A q \in Paths : secret[q] # NoSecret /\ Content(secret'[q]) # Content(secret[q])
                                          => q = run.rotate
  <2>1. Content(Written(k)) = k
    BY CodeFacts
  <2> QED
    BY <1>2, <1>5, <2>1 DEF SecretFits
<1> QED
  BY <1>4, <1>13, <1>14, <1>15, <1>16, <1>17, <1>18, <1>19 DEF SetupInv

\* Behind a redirected directory the file is empty for a moment.
LEMMA TruncateStep ==
  ASSUME SetupInv, Truncate
  PROVE  SetupInv'
<1>1. /\ redirected /\ at = "replace" /\ at' = "inPlace" /\ Fits(run, todo) /\ Suits(run)
      /\ Put(tmp.to, Torn) /\ tmp.to = Head(todo).to
      /\ UNCHANGED <<bak, redirected, run, todo, tmp, draft, ret, resume, ops, stops>>
  BY DEF Truncate, Put, SetupInv, PlanInv, TmpInv, Writes
<1>2. config' = IF tmp.to = "config" THEN Torn ELSE config
  BY <1>1 DEF Put
<1>3. secret \in [Paths -> Secrets] /\ secret' \in [Paths -> Secrets]
  BY <1>1 DEF Put, SetupInv, SetupTypeOK, Secrets
<1>4. Fits(run, todo)'
  <2>1. CASE tmp.to = "config"
    <3>1. secret' = secret
      BY <1>1, <2>1 DEF Put
    <3>2. PICK c \in Configs, m \in BOOLEAN : todo = <<ConfigJob(c, m)>> /\ PromiseOf(run, c, secret)
      BY <1>1, <2>1, PlanFacts DEF Writes
    <3>3. PromiseOf(run, c, secret)' /\ KeysKept(c, m)'
      BY <1>1, <3>1, <3>2 DEF PromiseOf, KeysKept, Careful, Works, CodeFrom
    <3> QED
      BY <1>1, <3>2, <3>3 DEF Fits, ConfigJob
  <2>2. CASE tmp.to # "config"
    <3>1. PICK p \in Paths, k \in Codes, c \in Configs, m \in BOOLEAN :
            /\ todo = <<SecretJob(p, k), ConfigJob(c, m)>>
            /\ PromiseOf(run, c, [secret EXCEPT ![p] = Written(k)]) /\ Head(todo).to = p
      BY <1>1, <2>2, PlanFacts DEF Writes
    <3>2. secret' = [secret EXCEPT ![p] = Written(Junk)]
      BY <1>1, <2>2, <3>1 DEF Put
    <3>3. PICK z : z = [secret EXCEPT ![p] = Written(k)]
      OBVIOUS
    <3>4. [secret' EXCEPT ![p] = Written(k)] = z
      BY <1>3, <3>2, <3>3
    <3>5. PromiseOf(run, c, z)'
      <4>1. PromiseOf(run, c, z)
        BY <3>1, <3>3
      <4> QED
        BY <1>1, <4>1 DEF PromiseOf, Careful, Works, CodeFrom
    <3>6. PromiseOf(run, c, [secret EXCEPT ![p] = Written(k)])'
      BY <3>4, <3>5
    <3>7. KeysKept(c, m)' /\ SecretFits(run, p, k)'
      BY <1>1 DEF KeysKept, SecretFits, Careful
    <3> QED
      BY <1>1, <3>1, <3>6, <3>7 DEF Fits, ConfigJob, SecretJob
  <2> QED
    BY <2>1, <2>2
<1>5. Suits(run)'
  BY <1>1 DEF Suits
<1>6. SetupTypeOK'
  BY <1>1, <1>2, <1>3 DEF SetupInv, SetupTypeOK
<1>7. PlanInv'
  BY <1>1, <1>2, <1>4, <1>5 DEF SetupInv, PlanInv, Writes
<1>8. DraftInv' /\ TmpInv'
  BY <1>1 DEF SetupInv, DraftInv, TmpInv, Asks, Writes
<1>9. DoneInv' /\ MigrationResumes'
  BY <1>1, <1>2 DEF SetupInv, DoneInv, MigrationResumes, Readable, None
<1>10. ResumeInv'
  BY <1>1 DEF SetupInv, ResumeInv
<1> QED
  BY <1>6, <1>7, <1>8, <1>9, <1>10 DEF SetupInv

\* The backup goes, or stays and is remembered, and the command is done.
LEMMA ScrubStep ==
  ASSUME SetupInv, Scrub
  PROVE  SetupInv' /\ UNCHANGED <<config, secret>>
<1>1. /\ at = "scrub" /\ at' = "idle" /\ todo' = <<>> /\ tmp' = NoTmp /\ draft' = NoDraft
      /\ ret' = Success /\ (bak' = Gone \/ bak' = bak)
      /\ run' = run \/ run' = [run EXCEPT !.stuck = TRUE]
      /\ bak' = Gone \/ run' = [run EXCEPT !.stuck = TRUE]
      /\ UNCHANGED <<config, secret, redirected, resume>>
  BY DEF Scrub, End
<1>2. /\ Success \in {"migrated", "configured", "pinned"}
      /\ Success = "migrated" => run.op = "migrate"
      /\ Success = "configured" => run.op = "setup"
  BY DEF Success
<1>8. /\ run' \in Runs /\ (bak' = Gone \/ run'.stuck)
      /\ run'.op = run.op /\ run'.target = run.target /\ run'.was = run.was /\ run'.strips = run.strips
  BY <1>1 DEF SetupInv, DraftInv, Runs
<1>3. SetupTypeOK'
  BY <1>1, <1>2 DEF SetupInv, SetupTypeOK, NoDraft, Attempts
<1>4. PlanInv' /\ TmpInv'
  BY <1>1 DEF PlanInv, TmpInv, Writes, Asks
<1>5. DraftInv'
  BY <1>1, <1>8 DEF SetupInv, DraftInv, Asks, NoDraft, Drafts, Attempts
<1>6. DoneInv' /\ MigrationResumes'
  BY <1>1, <1>2, <1>8 DEF SetupInv, DoneInv, MigrationResumes, Works, CodeFrom
<1>7. ResumeInv'
  BY <1>1, <1>8 DEF SetupInv, ResumeInv, Resumable
<1> QED
  BY <1>1, <1>3, <1>4, <1>5, <1>6, <1>7 DEF SetupInv

\* A command that fails or is killed can be run again.
LEMMA EndStep ==
  ASSUME SetupInv, at # "idle", NEW how \in {"failed", "stopped"}, End(how), resume' = run.target,
         UNCHANGED <<config, bak, redirected, run>>,
         secret' \in [Paths -> Secrets],
         run.target # None /\ ~redirected => Resumable(run.target)'
  PROVE  SetupInv'
<1>1. at' = "idle" /\ todo' = <<>> /\ tmp' = NoTmp /\ draft' = NoDraft /\ ret' = how
  BY DEF End
<1>2. SetupTypeOK'
  BY <1>1 DEF SetupInv, SetupTypeOK, NoDraft, Attempts
<1>3. PlanInv' /\ TmpInv'
  BY <1>1 DEF PlanInv, TmpInv, Writes, Asks
<1>4. DraftInv'
  BY <1>1 DEF SetupInv, DraftInv, Asks, NoDraft, Drafts, Attempts
<1>5. DoneInv' /\ MigrationResumes'
  BY <1>1 DEF SetupInv, DoneInv, MigrationResumes
<1>6. ResumeInv'
  BY <1>1 DEF SetupInv, ResumeInv, DraftInv, Runs
<1> QED
  BY <1>2, <1>3, <1>4, <1>5, <1>6 DEF SetupInv

\* The file that a migration takes back is one that nothing reads yet.
LEMMA FailStep ==
  ASSUME SetupInv, WriteFails
  PROVE  /\ SetupInv' /\ UNCHANGED <<config, bak>>
         /\ ~redirected => (Works(config, secret)' <=> Works(config, secret))
         /\ \A q \in Paths : secret'[q] # secret[q] => q = run.fresh
<1>1. /\ at \in Writes /\ End("failed") /\ resume' = run.target
      /\ UNCHANGED <<config, bak, redirected, run>>
  BY DEF WriteFails, Writing, Writes
<1>2. /\ Suits(run) /\ run \in Runs /\ secret \in [Paths -> Secrets] /\ config \in Configs \cup {Gone, Torn}
  BY <1>1 DEF SetupInv, PlanInv, DraftInv, SetupTypeOK
<1>3. CASE secret' = [secret EXCEPT ![run.fresh] = NoSecret] /\ run.fresh # None
  <2>1. /\ run.fresh \in Paths /\ secret' \in [Paths -> Secrets] /\ secret'[run.fresh] = NoSecret
        /\ \A q \in Paths : q # run.fresh => secret'[q] = secret[q]
    BY <1>2, <1>3 DEF Runs, Secrets
  <2>2. ~redirected => Readable(config) /\ config.file = None
    BY <1>2, <1>3 DEF Suits
  <2>3. run.target # None /\ ~redirected => Resumable(run.target)'
    BY <1>1, <1>2, <2>1, <2>2 DEF Suits, Resumable, Runs
  <2>4. ~redirected => (Works(config, secret)' <=> Works(config, secret))
    BY <1>1, <2>2 DEF Works, CodeFrom
  <2> QED
    BY <1>1, <2>1, <2>3, <2>4, EndStep DEF Writes
<1>4. CASE secret' = secret
  <2>1. run.target # None /\ ~redirected => Resumable(run.target)'
    BY <1>1, <1>2, <1>4 DEF Suits, Resumable
  <2>2. (Works(config, secret)' <=> Works(config, secret))
    BY <1>1, <1>4 DEF Works, CodeFrom
  <2> QED
    BY <1>1, <1>2, <1>4, <2>1, <2>2, EndStep DEF Writes
<1> QED
  BY <1>3, <1>4 DEF WriteFails

\* A kill or a Ctrl-C, at any step.
LEMMA StopStep ==
  ASSUME SetupInv, Stop
  PROVE  SetupInv' /\ UNCHANGED disk
<1>1. /\ at # "idle" /\ End("stopped") /\ resume' = run.target
      /\ UNCHANGED <<config, bak, secret, redirected, run>>
  BY DEF Stop, disk
<1>2. secret' \in [Paths -> Secrets]
  BY <1>1 DEF SetupInv, SetupTypeOK
<1>3. run.target # None /\ ~redirected => Resumable(run.target)'
  BY <1>1 DEF SetupInv, ResumeInv, Resumable
<1> QED
  BY <1>1, <1>2, <1>3, EndStep DEF disk

----------------------------------------------------------------------------
(* The theorems. *)

\* At rest, on any disk.
LEMMA SetupInitInv == SetupInit => SetupInv
<1> SUFFICES ASSUME SetupInit PROVE SetupInv
  OBVIOUS
<1>1. /\ run = NoRun /\ at = "idle" /\ todo = <<>> /\ tmp = NoTmp /\ draft = NoDraft
      /\ ret = None /\ resume = None
  BY DEF SetupInit
<1>2. run \in Runs /\ run.target = None
  BY <1>1 DEF NoRun, Runs
<1>3. /\ config \in Configs \cup {Gone} /\ bak = Gone /\ secret \in [Paths -> Secrets] /\ redirected \in BOOLEAN
      /\ Readable(config) => config.pin \in {None, config.serial}
  BY DEF SetupInit, Readable
<1>4. SetupTypeOK
  BY <1>1, <1>3 DEF SetupTypeOK, NoDraft, Attempts, None
<1>5. PlanInv /\ TmpInv
  BY <1>1 DEF PlanInv, TmpInv, Writes, Asks
<1>6. DraftInv
  BY <1>1, <1>2 DEF DraftInv, NoDraft, Drafts, Attempts, Asks
<1>7. DoneInv /\ MigrationResumes /\ ResumeInv
  BY <1>1, <1>2, <1>3 DEF DoneInv, MigrationResumes, ResumeInv, None
<1> QED
  BY <1>4, <1>5, <1>6, <1>7 DEF SetupInv

\* What no step of a careful run takes away: a working set of files, the code in
\* another's file, the user's own keys.
Spares ==
  /\ Careful(run) /\ Works(config, secret) => Works(config, secret)'
  /\ Careful(run) => \A q \in Paths : secret[q] # NoSecret /\ Content(secret'[q]) # Content(secret[q])
                                        => q \in {run.rotate, run.fresh}
  /\ ~redirected /\ Readable(config) => Readable(config') /\ config'.other = config.other

\* A step that writes nothing costs nothing.
LEMMA QuietSpares ==
  ASSUME UNCHANGED <<config, secret>>
  PROVE  Spares
  BY DEF Spares, Works, CodeFrom

\* Each action keeps the invariant and spares what works.
LEMMA SetupInvStep == SetupInv /\ [SetupNext]_setupVars => SetupInv' /\ Spares
<1> SUFFICES ASSUME SetupInv, [SetupNext]_setupVars PROVE SetupInv' /\ Spares
  OBVIOUS
<1>1. ASSUME UNCHANGED disk PROVE Spares
  BY <1>1, QuietSpares DEF disk
<1>2. CASE MigrateAccessCode
  BY <1>1, <1>2, MigrateStep
<1>3. CASE \E s \in Printers \cup {None}, c \in Codes \cup {NoCode}, f \in Paths \cup {None},
              pinned, force \in BOOLEAN : SetupNoninteractive(s, c, f, pinned, force)
  BY <1>1, <1>3, SetupStep
<1>4. CASE \/ \E s \in Printers : SetupInteractive(s)
           \/ PromptAccessCode \/ PromptPrinterModel \/ PromptAccessCodeFile \/ ConfirmOverwrite
  BY <1>1, <1>4, GuidedSetupStep
<1>5. CASE OfferPinFingerprint
  BY <1>1, <1>5, PinStep
<1>6. CASE WriteTmp
  BY <1>1, <1>6, WriteTmpStep
<1>7. CASE Backup
  BY <1>7, BackupStep, QuietSpares
<1>8. CASE Replace \/ WriteInPlace
  <2>1. /\ at \in {"replace", "inPlace"} /\ Put(tmp.to, tmp.text) /\ Advance
        /\ UNCHANGED <<redirected, run, resume, ops, stops>>
    BY <1>8 DEF Replace, WriteInPlace
  <2>2. CASE tmp.to = "config"
    <3>1. /\ SetupInv' /\ secret' = secret
          /\ ~redirected /\ Readable(config) => Readable(config') /\ config'.other = config.other
          /\ Careful(run) /\ Works(config, secret) => Works(config, secret)'
      BY <2>1, <2>2, ConfigPlaced
    <3> QED
      BY <3>1 DEF Spares
  <2>3. CASE tmp.to # "config"
    <3>1. /\ SetupInv' /\ config' = config
          /\ Careful(run) /\ Works(config, secret) => Works(config, secret)'
          /\ Careful(run) => \A q \in Paths : secret[q] # NoSecret /\ Content(secret'[q]) # Content(secret[q])
                                                => q = run.rotate
      BY <2>1, <2>3, SecretPlaced
    <3> QED
      BY <3>1 DEF Spares
  <2> QED
    BY <2>2, <2>3
<1>9. CASE Truncate
  <2>1. redirected
    BY <1>9 DEF Truncate
  <2> QED
    BY <1>9, <2>1, TruncateStep DEF Spares, Careful
<1>10. CASE Scrub
  BY <1>10, ScrubStep, QuietSpares
<1>11. CASE WriteFails
  <2>1. /\ SetupInv' /\ UNCHANGED <<config, bak>>
        /\ ~redirected => (Works(config, secret)' <=> Works(config, secret))
        /\ \A q \in Paths : secret'[q] # secret[q] => q = run.fresh
    BY <1>11, FailStep
  <2> QED
    BY <2>1 DEF Spares, Careful
<1>12. CASE Stop
  BY <1>1, <1>12, StopStep
<1>13. CASE UNCHANGED setupVars
  <2>1. UNCHANGED <<config, bak, secret, redirected, run, at, todo, tmp, draft, ret, resume>>
    BY <1>13 DEF setupVars
  <2>2. at \in Writes => Fits(run, todo)' /\ Suits(run)'
    BY <2>1, FitsKept, SuitsKept DEF SetupInv, PlanInv
  <2>3. PlanInv'
    BY <2>1, <2>2 DEF SetupInv, PlanInv
  <2>4. SetupTypeOK' /\ DraftInv' /\ TmpInv'
    BY <2>1 DEF SetupInv, SetupTypeOK, DraftInv, TmpInv
  <2>5. DoneInv' /\ MigrationResumes'
    BY <2>1 DEF SetupInv, DoneInv, MigrationResumes, Works, CodeFrom
  <2>6. ResumeInv'
    BY <2>1 DEF SetupInv, ResumeInv, Resumable
  <2> QED
    BY <2>1, <2>3, <2>4, <2>5, <2>6, QuietSpares DEF SetupInv
<1> QED
  BY <1>2, <1>3, <1>4, <1>5, <1>6, <1>7, <1>8, <1>9, <1>10, <1>11, <1>12, <1>13 DEF SetupNext

\* Only the backup step copies config.json, and not when its code is on the way out.
LEMMA BackupAlone ==
  ASSUME SetupInv, [SetupNext]_setupVars, run.op = "migrate" \/ run.strips
  PROVE  bak' \in {bak, Gone}
<1>1. CASE Backup
  <2>1. tmp.to = "config" => ~tmp.keep
    BY <1>1 DEF Backup, SetupInv, TmpInv, Writes
  <2>2. tmp.to # "config" => ~tmp.keep
    BY <1>1 DEF Backup, SetupInv, TmpInv, Writes
  <2> QED
    BY <1>1, <2>1, <2>2 DEF Backup
<1>2. CASE Scrub
  BY <1>2 DEF Scrub
<1>3. CASE ~Backup /\ ~Scrub
  <2> USE DEF Begin, Answer, Prompt, Put, disk
  <2>1. CASE MigrateAccessCode
    BY <2>1 DEF MigrateAccessCode, MigrateNoop, MigrateConfigured, MigrateOut, Migrating
  <2>2. ASSUME NEW s, NEW c, NEW f, NEW pinned, NEW force, SetupNoninteractive(s, c, f, pinned, force)
        PROVE  UNCHANGED bak
    BY <2>2, Zenon DEF SetupNoninteractive
  <2>3. CASE \/ \E s \in Printers : SetupInteractive(s)
             \/ PromptAccessCode \/ PromptPrinterModel \/ PromptAccessCodeFile \/ ConfirmOverwrite
    BY <2>3, Zenon DEF SetupInteractive, PromptAccessCode, PromptPrinterModel, PromptAccessCodeFile,
       ConfirmOverwrite, GuidedWrites, WrongAnswer
  <2>4. CASE OfferPinFingerprint \/ WriteTmp \/ WriteFails \/ Stop \/ UNCHANGED setupVars
    BY <2>4 DEF OfferPinFingerprint, WriteTmp, WriteFails, Stop, setupVars
  <2>5. CASE Replace \/ Truncate \/ WriteInPlace
    BY <2>5 DEF Replace, Truncate, WriteInPlace
  <2> QED
    BY <1>3, <2>1, <2>2, <2>3, <2>4, <2>5 DEF SetupNext
<1> QED
  BY <1>1, <1>2, <1>3

\* The invariant always holds.
LEMMA SetupAlways == SetupSpec => []SetupInv
<1>1. SetupInv /\ [SetupNext]_setupVars => SetupInv'
  BY SetupInvStep
<1> QED
  BY SetupInitInv, <1>1, PTL DEF SetupSpec

\* The files of the setup are what they are said to be.
THEOREM SetupTypeCorrect == SetupSpec => []SetupTypeOK
<1>1. SetupInv => SetupTypeOK
  BY DEF SetupInv
<1> QED
  BY <1>1, SetupAlways, PTL

\* However many commands are run, stopped and run again, what setup and the migration
\* report is what the next command finds: the code that was given or in use, the
\* configured printer's own pin, and no inline copy where one was said to be gone, but
\* for a backup that could not be removed.
THEOREM SetupReportsAreTrue == SetupSpec => []ReportsAreTrue
<1>1. SetupInv => ReportsAreTrue
  <2> SUFFICES ASSUME SetupInv PROVE ReportsAreTrue
    OBVIOUS
  <2>1. LoadAccessCode = CodeFrom(config, secret) /\ (Working <=> Works(config, secret))
    BY WorkingIsWorks DEF SetupInv
  <2>2. SuccessWorks /\ MigrationKeepsCode
    BY <2>1 DEF SetupInv, DoneInv, SuccessWorks, MigrationKeepsCode
  <2>3. NoPlaintextLeft
    BY DEF SetupInv, DoneInv, NoPlaintextLeft, Readable
  <2> QED
    BY <2>2, <2>3 DEF SetupInv, ReportsAreTrue
<1> QED
  BY <1>1, SetupAlways, PTL

\* Every command, at every step, however it is stopped: a working set of files stays
\* one, the code in another printer's file is neither changed nor removed, the keys
\* the user has added stay in config.json, and the code taken out of it is not copied.
THEOREM SetupLosesNothing == SetupSpec => NothingLostOrCopied
<1>1. SetupInv /\ SetupInv' /\ [SetupNext]_setupVars
        => /\ [Working /\ ~redirected /\ ~run.force => Working']_setupVars
           /\ [~redirected /\ ~run.force =>
                 \A p \in Paths : secret[p] # NoSecret /\ Content(secret'[p]) # Content(secret[p])
                                    => p \in {run.rotate, run.fresh}]_setupVars
           /\ [~redirected /\ Readable(config) => Readable(config') /\ config'.other = config.other]_setupVars
           /\ [run.op = "migrate" \/ run.strips => bak' \in {bak, Gone}]_setupVars
  <2> SUFFICES ASSUME SetupInv, [SetupNext]_setupVars
               PROVE  /\ Working /\ ~redirected /\ ~run.force => Working'
                      /\ ~redirected /\ ~run.force =>
                           \A p \in Paths : secret[p] # NoSecret /\ Content(secret'[p]) # Content(secret[p])
                                              => p \in {run.rotate, run.fresh}
                      /\ ~redirected /\ Readable(config) => Readable(config') /\ config'.other = config.other
                      /\ run.op = "migrate" \/ run.strips => bak' \in {bak, Gone}
    OBVIOUS
  <2>1. Spares
    BY SetupInvStep
  <2>2. Working => Works(config, secret)
    BY WorkingIsWorks DEF SetupInv
  <2>3. Works(config, secret)' => Working'
    BY DEF Works, CodeFrom, Working, LoadAccessCode
  <2>4. run.op = "migrate" \/ run.strips => bak' \in {bak, Gone}
    BY BackupAlone
  <2> QED
    BY <2>1, <2>2, <2>3, <2>4 DEF Spares, Careful
<1>2. SetupSpec => [][SetupNext]_setupVars
  BY PTL DEF SetupSpec
<1> QED
  BY <1>1, <1>2, SetupAlways, PTL 
  DEF NothingLostOrCopied, StaysWorking, ForeignSecretKept, OtherKeysKept, NoSecretCopied
=============================================================================
