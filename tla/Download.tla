------------------------------ MODULE Download ------------------------------
(***************************************************************************)
(* plate download (download/downloader.py, download/extract.py): fetch one *)
(* file, through Printables, HTML pages and ZIP archives, into a directory *)
(* that other downloads write to at the same time.  Every name is reserved *)
(* by an exclusive creation, the bytes go to a temporary file, and every   *)
(* exit must leave nothing but what was delivered.                         *)
(*                                                                         *)
(* Each step may be interrupted by Ctrl-C before it.  The server is        *)
(* external.  Left out: messages, progress, the choice of a Printables     *)
(* file, the addresses a connection may go to.                             *)
(***************************************************************************)
EXTENDS Names, FiniteSets, Functions

CONSTANTS
  Procs,       \* the downloads
  Present,     \* files in the directory already
  MaxSuffix,   \* 999 in the code: numbered names tried after the plain one
  MaxPasses,   \* 3: pages that may be looked into before the file
  MaxRetries,  \* 2: repeated requests to a server that limits rates
  RawNames     \* names a URL, a page, a header, an archive or the user may give

\* No file present has the name of a temporary one: mkstemp takes unused names.
ASSUME DownloadAssumption ==
  /\ {MaxSuffix, MaxPasses, MaxRetries} \subseteq Nat /\ MaxPasses > 0
  /\ RawNames \subseteq Seq(Tokens)
  /\ \A f \in Present : f # <<>> /\ f[1] # "tmp"
  /\ "user" \notin Procs

NoFile == <<>>

\* The names a raw one may become: repaired, with an extension, and numbered.
Spellings(raw) ==
  LET repaired == Sanitize(raw)
  IN  [ext \in AllExtensions |->
         LET full == WithExtension(repaired, ext) IN [n \in 0..MaxSuffix |-> Suffixed(full, n)]]

VARIABLES
  names, opt,         \* the names the file may get; --name was given
  pc, pass, tries,
  resolved,           \* stl_name: a page named the file
  archive,            \* archive_download
  out, partial,       \* outpath and partial_path
  reserved,           \* reserved_paths
  known,              \* the server told the length
  target,             \* what is extracted: its final name
  strayed,            \* history: a step without a handler failed
  outcome,
  dir                 \* the directory: who wrote each file, and how far

inputs == <<names, opt>>
vars == <<inputs, pc, pass, tries, resolved, archive, out, partial, reserved, known,
          target, strayed, outcome, dir>>

Temp(p, kind) == <<"tmp", p, kind, pass[p]>>
IsTemp(f) == Len(f) = 4 /\ f[1] = "tmp"

InitLocals ==
  /\ opt \in [Procs -> BOOLEAN]
  /\ pc \in [Procs -> {"start", "over"}]     \* refused at once, or started
  /\ pass = [p \in Procs |-> 1] /\ tries = [p \in Procs |-> 0]
  /\ resolved = [p \in Procs |-> FALSE] /\ archive = [p \in Procs |-> FALSE]
  /\ out = [p \in Procs |-> NoFile] /\ partial = [p \in Procs |-> NoFile]
  /\ reserved = [p \in Procs |-> {}] /\ known = [p \in Procs |-> FALSE]
  /\ target = [p \in Procs |-> NoFile] /\ strayed = [p \in Procs |-> FALSE]
  /\ outcome = [p \in Procs |-> IF pc[p] = "over" THEN "failed" ELSE "none"]
  /\ dir = [f \in Present |-> [by |-> "user", is |-> "whole"]]

Init == InitLocals /\ names \in [Procs -> {Spellings(raw) : raw \in RawNames}]

----------------------------------------------------------------------------
(* The directory. *)

Write(d, p, f, how) ==
  [g \in DOMAIN d \cup {f} |-> IF g = f THEN [by |-> p, is |-> how] ELSE d[g]]
Without(d, S) == Restrict(d, DOMAIN d \ S)
Move(d, f, g) == [h \in (DOMAIN d \ {f}) \cup {g} |-> IF h = g THEN d[f] ELSE d[h]]

\* Bug: the first name that is free, looked up instead of created.
ReservePeeking(d, p, ext) ==
  LET free == {n \in 0..MaxSuffix : names[p][ext][n] \notin DOMAIN d}
  IN  [file |-> IF free = {} THEN NoFile ELSE names[p][ext][Min(free)], dir |-> d]

\* _noncolliding_path: the first name that could be created, as an empty file, or none.
Reserve(d, p, ext) ==
  LET free == {n \in 0..MaxSuffix : names[p][ext][n] \notin DOMAIN d}
  IN  IF free = {} THEN [file |-> NoFile, dir |-> d]
      ELSE [file |-> names[p][ext][Min(free)], dir |-> Write(d, p, names[p][ext][Min(free)], "empty")]

----------------------------------------------------------------------------
(* The ways out.  Each is given the directory as the step left it. *)

Over(p, result) ==
  /\ pc' = [pc EXCEPT ![p] = "over"]
  /\ outcome' = [outcome EXCEPT ![p] = result]
  /\ reserved' = [reserved EXCEPT ![p] = {}]
  /\ partial' = [partial EXCEPT ![p] = NoFile]
  /\ pass' = [pass EXCEPT ![p] = 1] /\ tries' = [tries EXCEPT ![p] = 0]
  /\ resolved' = [resolved EXCEPT ![p] = FALSE]
  /\ UNCHANGED inputs

Failed(p) ==
  /\ Over(p, "failed")
  /\ archive' = [archive EXCEPT ![p] = FALSE] /\ known' = [known EXCEPT ![p] = FALSE]
  /\ out' = [out EXCEPT ![p] = NoFile] /\ target' = [target EXCEPT ![p] = NoFile]

Done(p) == Over(p, "ok") /\ UNCHANGED <<archive, out, known, target>>

\* except BambuError: the step has removed the partial file itself.
Abort(p, d) ==
  /\ Failed(p)
  /\ dir' = Without(d, reserved[p])
  /\ UNCHANGED strayed

\* Bug: only the reservations are dropped on Ctrl-C and on errors.
RaiseKeepingPart(p, d) ==
  /\ Failed(p)
  /\ dir' = Without(d, reserved[p])
  /\ UNCHANGED strayed

\* The other handlers: an HTTP, network or file error, or Ctrl-C.
Raise(p, d) ==
  /\ Failed(p)
  /\ dir' = Without(d, reserved[p] \cup {partial[p]})
  /\ UNCHANGED strayed

Goto(p, label) == pc' = [pc EXCEPT ![p] = label] /\ UNCHANGED <<inputs, outcome, strayed>>

\* A temporary file for an archive takes the place of the name held so far.
IntoArchive(p, d) ==
  LET f == Temp(p, "zip")
  IN  /\ dir' = Write(Without(d, reserved[p]), p, f, "empty")
      /\ out' = [out EXCEPT ![p] = f] /\ partial' = [partial EXCEPT ![p] = f]
      /\ reserved' = [reserved EXCEPT ![p] = {}]
      /\ archive' = [archive EXCEPT ![p] = TRUE]

\* The reservation moves to another name; where none is free the download fails.
Retarget(p, d, ext, label) ==
  LET got == Reserve(Without(d, reserved[p]), p, ext)
  IN  IF got.file = NoFile THEN Raise(p, d)
      ELSE /\ dir' = got.dir
           /\ out' = [out EXCEPT ![p] = got.file]
           /\ reserved' = [reserved EXCEPT ![p] = {got.file}]
           /\ Goto(p, label)
           /\ UNCHANGED <<pass, tries, resolved, archive, partial, known, target>>

----------------------------------------------------------------------------

\* The URL and the output directory are checked, a Printables page is resolved.
Start(p) ==
  /\ pc[p] = "start"
  /\ \/ /\ Goto(p, "begin")
        /\ \E named \in BOOLEAN : resolved' = [resolved EXCEPT ![p] = named]
        /\ UNCHANGED <<pass, tries, archive, out, partial, reserved, known, target, dir>>
     \/ Abort(p, dir)

\* Bug: a page that links to another is followed without a count.
BeginUncounted(p) ==
  /\ pc[p] = "begin"
  /\ \/ /\ IntoArchive(p, dir) /\ Goto(p, "open")
        /\ UNCHANGED <<pass, tries, resolved, known, target>>
     \/ \E ext \in Extensions : Retarget(p, dir, ext, "open")

\* One pass: the URL or the page's name says whether it is an archive.
Begin(p) ==
  /\ pc[p] = "begin"
  /\ IF pass[p] > MaxPasses THEN Abort(p, dir)
     ELSE \/ /\ IntoArchive(p, dir) /\ Goto(p, "open")
             /\ UNCHANGED <<pass, tries, resolved, known, target>>
          \/ \E ext \in Extensions : Retarget(p, dir, ext, "open")

\* polite_open: a rate-limited request is repeated MaxRetries times.
Open(p) ==
  /\ pc[p] = "open"
  /\ \/ /\ Goto(p, "moved") /\ tries' = [tries EXCEPT ![p] = 0]
        /\ UNCHANGED <<pass, resolved, archive, out, partial, reserved, known, target, dir>>
     \/ /\ tries[p] < MaxRetries
        /\ tries' = [tries EXCEPT ![p] = @ + 1] /\ Goto(p, "open")
        /\ UNCHANGED <<pass, resolved, archive, out, partial, reserved, known, target, dir>>
     \/ Raise(p, dir)

\* Redirected: the new URL is checked, and names the file unless something better did.
Moved(p) ==
  /\ pc[p] = "moved"
  /\ \/ /\ Goto(p, "type")
        /\ UNCHANGED <<pass, tries, resolved, archive, out, partial, reserved, known, target, dir>>
     \/ Abort(p, Without(dir, {partial[p]}))
     \/ /\ ~resolved[p] /\ ~opt[p] /\ ~archive[p]
        /\ \E ext \in Extensions : Retarget(p, dir, ext, "type")

\* The content type.  A page is searched for a link, and the next pass fetches that.
Type(p) ==
  /\ pc[p] = "type"
  /\ \/ /\ ~archive[p]                                \* a ZIP after all
        /\ IntoArchive(p, dir) /\ Goto(p, "named")
        /\ UNCHANGED <<pass, tries, resolved, known, target>>
     \/ /\ Goto(p, "named")                           \* a file
        /\ UNCHANGED <<pass, tries, resolved, archive, out, partial, reserved, known, target, dir>>
     \/ ~archive[p] /\ Abort(p, dir)                  \* _reject_unsupported_content_type
     \/ Goto(p, "page")
        /\ dir' = Without(dir, {partial[p]}) /\ partial' = [partial EXCEPT ![p] = NoFile]
        /\ UNCHANGED <<pass, tries, resolved, archive, out, reserved, known, target>>

\* Bug: the pages followed are not counted.
PageUncounted(p) ==
  /\ pc[p] = "page"
  /\ \/ /\ Goto(p, "begin")
        /\ resolved' = [resolved EXCEPT ![p] = TRUE] /\ archive' = [archive EXCEPT ![p] = FALSE]
        /\ UNCHANGED <<pass, tries, out, partial, reserved, known, target, dir>>
     \/ Raise(p, dir)

\* The page is searched for a link to a file, which the next pass fetches.
Page(p) ==
  /\ pc[p] = "page"
  /\ \/ /\ Goto(p, "begin")
        /\ pass' = [pass EXCEPT ![p] = @ + 1]
        /\ resolved' = [resolved EXCEPT ![p] = TRUE] /\ archive' = [archive EXCEPT ![p] = FALSE]
        /\ UNCHANGED <<tries, out, partial, reserved, known, target, dir>>
     \/ Abort(p, dir)                                 \* no link, or one not supported
     \/ Raise(p, dir)

\* Content-Disposition: an archive after all, or a better name.
NameFromHeader(p) ==
  /\ pc[p] = "named"
  /\ \/ /\ Goto(p, "partial")
        /\ UNCHANGED <<pass, tries, resolved, archive, out, partial, reserved, known, target, dir>>
     \/ /\ ~archive[p]
        /\ IntoArchive(p, dir) /\ Goto(p, "partial")
        /\ UNCHANGED <<pass, tries, resolved, known, target>>
     \/ /\ ~archive[p] /\ (opt[p] \/ ~resolved[p])
        /\ \/ Abort(p, dir)
           \/ \E ext \in Extensions : Retarget(p, dir, ext, "partial")

\* The temporary file the bytes go to; a declared length over the limit ends it here.
MakePartial(p) ==
  /\ pc[p] = "partial"
  /\ LET f == IF archive[p] THEN partial[p] ELSE Temp(p, "part")
     IN  \/ /\ Goto(p, "transfer")
            /\ dir' = Write(dir, p, f, "empty") /\ partial' = [partial EXCEPT ![p] = f]
            /\ \E told \in BOOLEAN : known' = [known EXCEPT ![p] = told]
            /\ UNCHANGED <<pass, tries, resolved, archive, out, reserved, target>>
         \/ Abort(p, Without(dir, {f}))
         \/ Raise(p, dir)

\* The body: whole, or cut short where the server told no length to compare with.
\* One over the limit, an empty one, or one that ended early is refused.
Transfer(p) ==
  /\ pc[p] = "transfer"
  /\ \/ /\ Goto(p, "place")
        /\ \E how \in {"whole", "cut"} :
             /\ how = "cut" => ~known[p]
             /\ dir' = Write(dir, p, partial[p], how)
        /\ UNCHANGED <<pass, tries, resolved, archive, out, partial, reserved, known, target>>
     \/ Abort(p, Without(dir, {partial[p]}))
     \/ Raise(p, dir)

\* The finished file takes the reserved name; an archive goes on to be opened.
Place(p) ==
  /\ pc[p] = "place"
  /\ \/ /\ archive[p] /\ Goto(p, "extract")
        /\ UNCHANGED <<pass, tries, resolved, archive, out, partial, reserved, known, target, dir>>
     \/ /\ ~archive[p]
        /\ Done(p) /\ dir' = Move(dir, partial[p], out[p])
        /\ UNCHANGED strayed
     \/ ~archive[p] /\ Raise(p, dir)

----------------------------------------------------------------------------
(* _extract_zip_model: one member of the archive, under a name of its own. *)

Member(p) == Temp(p, "member")

\* The unhandled failure of a last step: what it left stays.
Stray(p, d) ==
  /\ Failed(p)
  /\ strayed' = [strayed EXCEPT ![p] = TRUE]
  /\ dir' = d

\* No model inside, one over the limit, a damaged archive, or no free name; the
\* reservation is not yet guarded when the temporary file is made.
Extract(p) ==
  /\ pc[p] = "extract"
  /\ \/ \E ext \in Extensions :
          LET got == Reserve(dir, p, ext)
          IN  IF got.file = NoFile THEN Abort(p, Without(dir, {partial[p]}))
              ELSE \/ /\ Goto(p, "inflate")
                      /\ target' = [target EXCEPT ![p] = got.file]
                      /\ dir' = Write(got.dir, p, Member(p), "empty")
                      /\ UNCHANGED <<pass, tries, resolved, archive, out, partial, reserved, known>>
                   \/ Stray(p, Without(got.dir, {partial[p]}))
     \/ Abort(p, Without(dir, {partial[p]}))

\* A failure here drops the member's two files and the archive; the last rename has
\* no handler of its own.
Inflate(p) ==
  /\ pc[p] = "inflate"
  /\ \/ /\ Goto(p, "sort")
        /\ dir' = Move(Write(dir, p, Member(p), "whole"), Member(p), target[p])
        /\ UNCHANGED <<pass, tries, resolved, archive, out, partial, reserved, known, target>>
     \/ Abort(p, Without(dir, {Member(p), target[p], partial[p]}))
     \/ Stray(p, Without(Write(dir, p, Member(p), "whole"), {partial[p]}))

\* An archive with further models is kept under its own name, any other is removed.
\* The name for it is not among reserved_paths.
Sort(p) ==
  /\ pc[p] = "sort"
  /\ \/ /\ Done(p) /\ dir' = Without(dir, {partial[p]})
        /\ UNCHANGED strayed
     \/ LET got == Reserve(dir, p, "zip")
        IN  IF got.file = NoFile THEN Raise(p, dir)
            ELSE \/ /\ Done(p) /\ dir' = Move(dir, partial[p], got.file)
                    /\ UNCHANGED strayed
                 \/ /\ Done(p) /\ dir' = got.dir
                    /\ strayed' = [strayed EXCEPT ![p] = TRUE]

\* Ctrl-C.
Interrupt(p) ==
  /\ pc[p] # "over"
  /\ Raise(p, IF pc[p] = "inflate" THEN Without(dir, {Member(p), target[p]}) ELSE dir)

----------------------------------------------------------------------------

Request(p) == Start(p) \/ Begin(p) \/ Open(p) \/ Moved(p) \/ Type(p) \/ Page(p) \/ NameFromHeader(p)
Body(p) == MakePartial(p) \/ Transfer(p) \/ Place(p) \/ Extract(p) \/ Inflate(p) \/ Sort(p)

Next == \E p \in Procs : Request(p) \/ Body(p) \/ Interrupt(p)

Spec == Init /\ [][Next]_vars

\* Every read and every connection has a timeout.
Fairness == \A p \in Procs : WF_vars(Request(p) \/ Body(p))
FairSpec == Spec /\ Fairness

----------------------------------------------------------------------------

Held(p) == reserved[p] \cup ({partial[p]} \ {NoFile})

TypeOK ==
  /\ \A p \in Procs :
       /\ pass[p] \in 1..(MaxPasses + 1) /\ tries[p] \in 0..MaxRetries
       /\ Held(p) \subseteq DOMAIN dir
       /\ outcome[p] \in {"none", "ok", "failed"} /\ (pc[p] = "over" <=> outcome[p] # "none")
  /\ \A f \in DOMAIN dir : dir[f].by \in Procs \cup {"user"} /\ dir[f].is \in {"empty", "cut", "whole"}

\* A download that ended leaves no empty placeholder and no temporary file, however
\* it ended (downloader.py: "a 0-byte model file with the requested name that a later
\* run/agent could mistake for a real download"), unless a step failed that has no
\* handler: the temporary file or the rename of a member, the rename of its archive.
NoDebris ==
  \A p \in Procs : pc[p] = "over" /\ ~strayed[p] =>
    \A f \in DOMAIN dir : dir[f].by = p => dir[f].is # "empty" /\ ~IsTemp(f)

\* What is reported is there, and whole if the server told its length.
DeliveredWhole ==
  \A p \in Procs : outcome[p] = "ok" =>
    LET f == IF archive[p] THEN target[p] ELSE out[p]
    IN  f \in DOMAIN dir /\ dir[f].by = p /\ dir[f].is \in {"whole"} \cup (IF known[p] THEN {} ELSE {"cut"})

\* The name delivered is one the printer-side commands accept, unless the extension or
\* the number put after the repaired name makes it too long.
NamePortable ==
  \A p \in Procs : outcome[p] = "ok" => Portable(IF archive[p] THEN target[p] ELSE out[p])

\* However a download ends: what it reports is there under a usable name, and nothing
\* else of its own is.
EndsRight == NoDebris /\ DeliveredWhole /\ NamePortable

\* A download never removes, renames or overwrites a file of another one, or one that
\* was there before.
OwnFilesOnly ==
  [][\A f \in DOMAIN dir :
       \/ f \in DOMAIN dir' /\ dir'[f] = dir[f]
       \/ \E p \in Procs : dir[f].by = p /\ pc'[p] # pc[p]]_vars

\* What a directory listing shows of the others: the user's files and those of downloads
\* that have ended, but for what a step without a handler left unfinished.
Unfinished(f) == IsTemp(f) \/ dir[f].is = "empty"

OnShelf(f) ==
  \/ dir[f].by = "user"
  \/ outcome[dir[f].by] # "none" /\ ~(strayed[dir[f].by] /\ Unfinished(f))

Shelf ==
  [f \in {g \in DOMAIN dir : OnShelf(g)} |->
     [by |-> dir[f].by, is |-> IF Unfinished(f) THEN "unfinished" ELSE dir[f].is]]

Promise == INSTANCE Delivery WITH shelf <- Shelf, told <- outcome

\* Seen from outside, a download puts its finished files into the directory in one step,
\* under names nobody had, and a failing one nothing that is not finished.
DeliversAtOnce == Promise!Spec

\* Downloads share a directory: each leaves the files of others alone, those of downloads
\* under way too, and to them it is one step.
SharesDirectory == OwnFilesOnly /\ DeliversAtOnce

\* Every download comes to an end, though pages link to pages and servers limit rates.
Finishes == \A p \in Procs : <>(pc[p] = "over")
=============================================================================
