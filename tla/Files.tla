------------------------------- MODULE Files -------------------------------
(***************************************************************************)
(* The file commands on one BambuPrinter object: cmd_upload around         *)
(* upload_file, cmd_delete, cmd_files (commands/files.py) and              *)
(* download_file (printer.py), one after another, while the printer starts *)
(* and ends prints of its own.  The printer's file is that of Upload; what *)
(* a local file must be to pass the checks of cmd_upload is one flag.      *)
(***************************************************************************)
EXTENDS Upload

CONSTANT MaxCommands  \* bound: commands run

ASSUME FilesAssumption == MaxCommands \in Nat

VARIABLES
  cpc, command, ended, \* the running command, and how the last one ended
  printing, blind,     \* external: what is printed; history: this command could not know it
  dest, before,        \* the local file of a download, and history: what it was before
  part, written,       \* its temporary sibling, stuck if it could not be removed; of so many bytes
  compared,            \* download_file's remote_size is not None
  commands
fileVars == <<cpc, command, ended, printing, blind, dest, before, part, written, compared, commands>>
transfer == <<pc, locals, result>>
sink == <<dest, before, part, written, compared>>
fvars == <<vars, fileVars>>

\* What the local file is: nothing, an earlier file, or so many bytes of the printer's.
Local(what, bytes) == [what |-> what, bytes |-> bytes]
\* Jobs the printer runs: this file, one whose name has the same key, another.
Jobs == {"this", "twin", "another"}

FTypeOK ==
  /\ cpc \in {"idle", "dry", "ask", "store", "delete", "login", "retr", "size", "replace", "clean"}
  /\ command \in {"none", "upload", "delete", "files", "download"}
  /\ ended \in {"none", "ok", "file", "network", "printer", "confirm", "stopped"}
  /\ printing \in Jobs \cup {"nothing"} /\ {blind, compared} \subseteq BOOLEAN
  /\ {dest, before} \subseteq [what : {"absent", "old", "ours", "other"}, bytes : Nat]
  /\ part \in {"none", "there", "stuck"} /\ written \in Nat /\ commands \in 0 .. MaxCommands
  /\ cpc # "store" => pc = "connect" /\ uploaded = 0

FInit ==
  /\ Init
  /\ cpc = "idle" /\ command = "none" /\ ended = "none" /\ commands = 0
  /\ printing = "nothing" /\ blind = FALSE
  /\ dest \in {Local("absent", 0), Local("old", 1)} /\ before = dest
  /\ part = "none" /\ written = 0 /\ compared = FALSE

Begin(name) ==
  /\ cpc = "idle" /\ commands < MaxCommands /\ commands' = commands + 1
  /\ command' = name /\ blind' = FALSE /\ before' = dest
  /\ UNCHANGED <<vars, printing, dest, part, written, compared>>
End(how) == cpc' = "idle" /\ ended' = how
Go(to) == cpc' = to /\ UNCHANGED ended
Here(place) == cpc = place /\ UNCHANGED <<command, commands, printing, before>>

-----------------------------------------------------------------------------
(* plate upload *)

\* The checks of the local file, before anything is asked of the printer.
CmdUpload ==
  /\ Begin("upload")
  /\ \/ End("file")
     \/ cpc' \in {"dry", "ask"} /\ ended' = "none"

\* --dry-run only logs in.
DryRun ==
  /\ Here("dry")
  /\ End("ok") \/ End("network")
  /\ UNCHANGED <<vars, blind, dest, part, written, compared>>

\* Bug: a print that names no file is taken for another one.
PrintingThisFileOptimist ==
  /\ Here("ask")
  /\ \E heard \in BOOLEAN, named \in BOOLEAN :
       /\ IF heard /\ named /\ printing \in {"this", "twin"} THEN End("printer") ELSE Go("store")
       /\ blind' = ~heard
  /\ UNCHANGED <<vars, dest, part, written, compared>>

\* One full status: a query that fails lets the upload pass; an active print
\* stops it if it has this file's key, or names none.
PrintingThisFile ==
  /\ Here("ask")
  /\ \E heard \in BOOLEAN, named \in BOOLEAN :
       /\ IF heard /\ (printing \in {"this", "twin"} \/ (printing # "nothing" /\ ~named))
          THEN End("printer") ELSE Go("store")
       /\ blind' = ~heard
  /\ UNCHANGED <<vars, dest, part, written, compared>>

\* upload_file, step by step, on a printer object that has served before.
UploadFile == cpc = "store" /\ Next /\ UNCHANGED fileVars

\* What it was told is reported; only last_size_verified outlives the call.
UploadEnds ==
  /\ Here("store") /\ pc = "returned"
  /\ End(IF result = "true" THEN "ok" ELSE "network")
  /\ pc' = "connect" /\ attempt' = 0 /\ uploaded' = 0 /\ attempted' = FALSE /\ result' = "none"
  /\ UNCHANGED <<sizeVerified, remote, blind, dest, part, written, compared>>

-----------------------------------------------------------------------------
(* plate delete, plate files *)

CmdDelete ==
  /\ Begin("delete")
  /\ \/ End("file")      \* an unsafe name
     \/ End("confirm")   \* no --confirm
     \/ cpc' = "delete" /\ ended' = "none"

\* The printer's answer to DELE may be lost.
DeleteFile ==
  /\ Here("delete")
  /\ \/ Exists /\ content' = "absent" /\ size' = 0 /\ (End("ok") \/ End("network") \/ End("stopped"))
     \/ UNCHANGED remote /\ End("network")
  /\ UNCHANGED <<transfer, sizeVerified, blind, dest, part, written, compared>>

CmdFiles ==
  /\ Begin("files") /\ (End("ok") \/ End("network"))

-----------------------------------------------------------------------------
(* download_file *)

\* mkstemp beside the destination, whose error nobody takes; an unsafe name is refused.
Download ==
  /\ cpc = "idle" /\ commands < MaxCommands /\ commands' = commands + 1
  /\ command' = "download" /\ blind' = FALSE /\ before' = dest
  /\ written' = 0 /\ compared' = FALSE
  /\ \/ part' = "there" /\ cpc' = "login" /\ ended' = "none"
     \/ part' = "none" /\ (End("network") \/ End("stopped"))
  /\ UNCHANGED <<vars, printing, dest>>

Quiet == UNCHANGED <<transfer, remote, blind>>

Login ==
  /\ Here("login") /\ (Go("retr") \/ Go("clean"))
  /\ Quiet /\ UNCHANGED <<sizeVerified, dest, part, written, compared>>

\* RETR: the data channel may end early without an error.
Retrieve ==
  /\ Here("retr")
  /\ written' \in 0 .. size
  /\ (Exists /\ Go("size")) \/ Go("clean")
  /\ Quiet /\ UNCHANGED <<sizeVerified, dest, part, compared>>

\* Bug: what RETR left is taken for the file.
CompareNot ==
  /\ Here("size")
  /\ compared' = TRUE /\ UNCHANGED sizeVerified /\ Go("replace")
  /\ Quiet /\ UNCHANGED <<dest, part, written>>

\* SIZE on the same connection: missing, different or the same.
Compare ==
  /\ Here("size")
  /\ \/ compared' = FALSE /\ sizeVerified' = "missing" /\ Go("replace")
     \/ /\ compared' = TRUE /\ UNCHANGED sizeVerified
        /\ Go(IF written = size THEN "replace" ELSE "clean")
  /\ Quiet /\ UNCHANGED <<dest, part, written>>

\* os.replace, or OSError; a Ctrl-C may come between it and the verdict.
ReplaceDest ==
  /\ Here("replace")
  /\ \/ /\ part' = "none" /\ dest' = Local(content, written)
        /\ \/ End("ok") /\ sizeVerified' = IF compared THEN "matched" ELSE sizeVerified
           \/ End("stopped") /\ UNCHANGED sizeVerified
     \/ Go("clean") /\ UNCHANGED <<part, dest, sizeVerified>>
  /\ Quiet /\ UNCHANGED <<written, compared>>

\* Removed if it can be.
CleanPart ==
  /\ Here("clean") /\ End("network") /\ part' \in {"none", "stuck"}
  /\ Quiet /\ UNCHANGED <<sizeVerified, dest, written, compared>>

-----------------------------------------------------------------------------
\* Ctrl-C, or an error that is none of the FTP, SSL and OS ones the handlers take:
\* nothing is undone.
Stopped ==
  /\ cpc # "idle" /\ End("stopped")
  /\ pc' = "connect" /\ attempt' = 0 /\ uploaded' = 0 /\ attempted' = FALSE /\ result' = "none"
  /\ UNCHANGED <<sizeVerified, remote, printing, blind, sink, command, commands>>

\* The printer, on its own or for somebody else.  A print that starts now is one
\* the running command has not seen.
PrintStarts ==
  /\ printing = "nothing" /\ printing' \in {j \in Jobs : j = "this" => Exists}
  /\ blind' = TRUE
  /\ UNCHANGED <<vars, cpc, command, ended, sink, commands>>
PrintEnds ==
  /\ printing # "nothing" /\ printing' = "nothing"
  /\ UNCHANGED <<vars, cpc, command, ended, blind, sink, commands>>

Commanding == \/ DryRun \/ PrintingThisFile \/ UploadFile \/ UploadEnds \/ DeleteFile
              \/ Login \/ Retrieve \/ Compare \/ ReplaceDest \/ CleanPart
FNext == \/ Commanding \/ CmdUpload \/ CmdDelete \/ CmdFiles \/ Download
         \/ Stopped \/ PrintStarts \/ PrintEnds
FSpec == FInit /\ [][FNext]_fvars /\ WF_fvars(Commanding)

-----------------------------------------------------------------------------
\* The file of a running print changes only under plate delete, or an upload that the
\* printer did not answer or that was past its check when the print began.
RunningFileKept ==
  [][printing = "this" /\ remote' # remote => blind \/ cpc = "delete"]_fvars

\* Every command that has begun ends, whatever the printer does: the attempts of an
\* upload are bounded.
CommandEnds == cpc # "idle" ~> cpc = "idle"

\* A download that ends well has put the printer's whole file in place of the old one,
\* unless the printer could not say how long it is; one that fails has not touched the
\* old one; one that is stopped has done one or the other.  A temporary file is left
\* only beside the old one: by one stopped, or by one that could not remove it.
DownloadAllOrNothing ==
  command = "download" /\ cpc = "idle" =>
    /\ ended = "ok" /\ sizeVerified # "missing" => dest = Local(content, size)
    /\ ended = "network" => dest = before
    /\ ended = "stopped" /\ compared => dest \in {before, Local(content, size)}
    /\ part # "none" => dest = before
    /\ part = "there" => ended = "stopped"
    /\ part = "stuck" => ended = "network"
=============================================================================
