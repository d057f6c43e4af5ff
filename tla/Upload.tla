------------------------------- MODULE Upload -------------------------------
(***************************************************************************)
(* BambuPrinter.upload_file (printer.py): store one local file on the      *)
(* printer over FTPS, in up to MaxRetries + 1 attempts that resume from    *)
(* what the printer already holds.  Every FTPS operation may fail, in a    *)
(* way worth retrying (a lost connection) or a permanent one (error_perm). *)
(*                                                                         *)
(* The printer is external.  Its file is a size and a content: "ours" when *)
(* every byte it holds is the local file's byte at that place.  An earlier *)
(* file of the same name, of a size in PreviousSizes, has another content. *)
(* Left out: the name check before the first attempt, the progress         *)
(* callbacks, the back-off.                                                *)
(***************************************************************************)
EXTENDS Naturals

CONSTANTS
  FileSize,       \* bytes of the local file; cmd_upload refuses an empty one
  MaxRetries,     \* 3 in the code
  PreviousSizes   \* sizes an earlier file of this name may have on the printer

ASSUME UploadAssumption ==
  /\ FileSize \in Nat /\ FileSize > 0
  /\ MaxRetries \in Nat
  /\ PreviousSizes \subseteq Nat

VARIABLES
  pc, attempt,
  uploaded,            \* uploaded_bytes: where the next STOR resumes
  attempted,           \* attempted_transfer
  result,              \* the value returned
  sizeVerified,        \* last_size_verified: None, True or False
  content, size        \* the printer's file

locals == <<attempt, uploaded, attempted>>
remote == <<content, size>>
vars == <<pc, locals, result, sizeVerified, remote>>

DataTypes ==
  /\ pc \in {"connect", "delete", "store", "verify", "probe", "returned"}
  /\ attempt \in 0..MaxRetries
  /\ uploaded \in Nat
  /\ result \in {"none", "true", "false"}
  /\ sizeVerified \in {"unset", "matched", "missing"}
  /\ content \in {"absent", "ours", "other"}
  /\ size \in Nat

TypeOK == DataTypes /\ attempted \in BOOLEAN

Init ==
  /\ pc = "connect" /\ attempt = 0 /\ uploaded = 0 /\ attempted = FALSE
  /\ result = "none" /\ sizeVerified = "unset"
  /\ \/ content = "absent" /\ size = 0
     \/ content = "ours" /\ size \in PreviousSizes /\ size = 0
     \/ content = "other" /\ size \in PreviousSizes /\ size > 0

----------------------------------------------------------------------------

Exists == content # "absent"

Return(v) == pc' = "returned" /\ result' = v

\* A failure worth retrying: probe what arrived, unless this was the last attempt.
Fail ==
  IF attempt < MaxRetries
  THEN pc' = "probe" /\ UNCHANGED result
  ELSE Return("false")

\* Bug: one attempt too many.
RetryLate ==
  IF attempt <= MaxRetries
  THEN pc' = "connect" /\ attempt' = attempt + 1 /\ UNCHANGED result
  ELSE Return("false") /\ UNCHANGED attempt

\* The next attempt, or the end of the loop.
Retry ==
  IF attempt < MaxRetries
  THEN pc' = "connect" /\ attempt' = attempt + 1 /\ UNCHANGED result
  ELSE Return("false") /\ UNCHANGED attempt

\* _delete_remote_quiet: errors are swallowed, so the file may still be there.
DeleteQuiet ==
  \/ content' = "absent" /\ size' = 0
  \/ UNCHANGED <<content, size>>

\* get_ftp_client: connect and log in.
Connect ==
  /\ pc = "connect"
  /\ \/ pc' = (IF attempt = 0 THEN "delete" ELSE "store") /\ UNCHANGED result
     \/ Fail
     \/ Return("false")
  /\ UNCHANGED <<locals, sizeVerified, remote>>

\* The first attempt starts by deleting an earlier file of the same name.
Delete ==
  /\ pc = "delete"
  /\ DeleteQuiet
  /\ pc' = "store"
  /\ UNCHANGED <<locals, result, sizeVerified>>

\* n bytes arrive: into a new file, or over and past what a resume found.
Write(n) ==
  \/ uploaded = 0 /\ size' = n /\ content' = "ours"
  \/ uploaded > 0 /\ uploaded + n >= size /\ size' = uploaded + n /\ UNCHANGED content
  \/ uploaded > 0 /\ uploaded + n < size /\ UNCHANGED <<content, size>>

\* storbinary with REST: refused before the printer touches its file, or some
\* of the remaining bytes arrive, with or without an error.
Store ==
  /\ pc = "store"
  /\ attempted' = TRUE
  /\ \/ /\ UNCHANGED <<content, size>>
        /\ Fail \/ Return("false")
     \/ /\ \E n \in 0..(FileSize - uploaded) : Write(n)
        /\ \/ pc' = "verify" /\ UNCHANGED result
           \/ Fail
           \/ Return("false")
  /\ UNCHANGED <<attempt, uploaded, sizeVerified>>

\* Bug: a STOR that raised nothing is trusted without comparing sizes.
VerifyTrusting ==
  /\ pc = "verify"
  /\ Return("true") /\ sizeVerified' = "matched"
  /\ UNCHANGED <<attempt, uploaded, attempted, content, size>>

\* After a STOR that did not raise: SIZE on the same connection, which may fail.
Verify ==
  /\ pc = "verify"
  /\ \/ Return("true") /\ sizeVerified' = "missing" /\ UNCHANGED <<attempt, uploaded, attempted, content, size>>
     \/ /\ size = FileSize
        /\ Return("true") /\ sizeVerified' = "matched"
        /\ UNCHANGED <<attempt, uploaded, attempted, content, size>>
     \/ /\ size < FileSize
        /\ uploaded' = size
        /\ Retry
        /\ UNCHANGED <<attempted, sizeVerified, content, size>>
     \/ /\ size > FileSize
        /\ DeleteQuiet /\ uploaded' = 0
        /\ Retry
        /\ UNCHANGED <<attempted, sizeVerified>>

\* Bugs: the offset survives the deletion; the sleep-and-retry never counts.
ProbeKeepingOffset ==
  /\ pc = "probe"
  /\ \/ UNCHANGED <<uploaded, content, size>>
     \/ Exists /\ size >= FileSize /\ DeleteQuiet /\ uploaded' = size
     \/ Exists /\ size < FileSize /\ uploaded' = size /\ UNCHANGED <<content, size>>
  /\ Retry
  /\ UNCHANGED <<attempted, sizeVerified>>

ProbeUncounted ==
  /\ pc = "probe"
  /\ pc' = "connect"
  /\ UNCHANGED <<locals, result, sizeVerified, remote>>

\* After an error: a second connection asks for SIZE.  A full-size file counts
\* once a transfer was attempted, any other size decides where to resume.
Probe ==
  /\ pc = "probe"
  /\ \/ UNCHANGED <<uploaded, content, size>> /\ Retry
     \/ /\ Exists /\ size = FileSize /\ attempted
        /\ Return("true")
        /\ UNCHANGED <<attempt, uploaded, content, size>>
     \/ /\ Exists
        /\ size > FileSize \/ (size = FileSize /\ ~attempted)
        /\ DeleteQuiet /\ uploaded' = 0
        /\ Retry
     \/ /\ Exists /\ size < FileSize
        /\ uploaded' = size
        /\ Retry
        /\ UNCHANGED <<content, size>>
  /\ UNCHANGED <<attempted, sizeVerified>>

Next == Connect \/ Delete \/ Store \/ Verify \/ Probe

Spec == Init /\ [][Next]_vars

----------------------------------------------------------------------------
(* Properties. *)

\* A successful upload that was not reported as unverified left exactly the
\* local file on the printer, whatever was lost and resumed on the way.
DeliveredWhole ==
  result = "true" /\ sizeVerified # "missing"
    => content = "ours" /\ size = FileSize

\* REST never points past the end of the printer's file, and always leaves
\* something to send.
ResumeOffsetExists ==
  uploaded > 0 => Exists /\ uploaded <= size /\ uploaded < FileSize
=============================================================================
