----------------------------- MODULE GcodeScan -----------------------------
(***************************************************************************)
(* The check of a printer-ready file's heater commands (gcode_limits.py),  *)
(* before it is uploaded: the file is read in chunks of any size, cut into *)
(* lines at LF, CR or CRLF, and every heater line is held to the limits.   *)
(*                                                                         *)
(* A file is a sequence of tokens: "CR" and "LF", "N" a line number, "M" a *)
(* heater command, "G" any other command, "T" a parameter, also one with a *)
(* plain temperature within the limit, "hot" one with a temperature above  *)
(* it, "odd" one with no plain number, "comment" the semicolon.            *)
(***************************************************************************)
EXTENDS Naturals, Sequences, SequencesExt

CONSTANTS
  Tokens,      \* of the ones above
  MaxFile,     \* tokens in a file
  MaxChunk,    \* 1 MiB in the code: what one read returns at most
  MaxLine      \* MAX_LINE_BYTES

ASSUME ScanAssumption == {MaxFile, MaxChunk, MaxLine} \subseteq Nat /\ MaxChunk > 0

VARIABLES
  whole,       \* the bytes read so far
  pending,     \* of them, those not yet given out as a line
  lines,       \* the lines given out
  verdict      \* "reading", then "clean" or "refused"

scanVars == <<whole, pending, lines, verdict>>

ScanInit == whole = <<>> /\ pending = <<>> /\ lines = <<>> /\ verdict = "reading"

----------------------------------------------------------------------------

\* One token of a text: a line ends at CR, LF, or CR LF.
Uncut == [lines |-> <<>>, line |-> <<>>, cr |-> FALSE]
Feed(s, t) ==
  CASE t = "LF" /\ s.cr  -> [s EXCEPT !.cr = FALSE]
    [] t = "LF" /\ ~s.cr -> [lines |-> Append(s.lines, s.line), line |-> <<>>, cr |-> FALSE]
    [] t = "CR"          -> [lines |-> Append(s.lines, s.line), line |-> <<>>, cr |-> TRUE]
    [] OTHER             -> [lines |-> s.lines, line |-> Append(s.line, t), cr |-> FALSE]
Fed(s, text) ==
  LET upTo[i \in 0..Len(text)] == IF i = 0 THEN s ELSE Feed(upTo[i - 1], text[i])
  IN  upTo[Len(text)]

\* _EOL.split.
Split(text) == LET s == Fed(Uncut, text) IN Append(s.lines, s.line)

\* Only the code before a comment reaches the firmware.
Code(line) ==
  LET at == {i \in DOMAIN line : line[i] = "comment"}
  IN  IF at = {} THEN line ELSE SubSeq(line, 1, (CHOOSE i \in at : \A j \in at : i <= j) - 1)

\* _HEATER_LINE: the first word of the line, after a number, is a heater command.
HeaterLine(line) ==
  \/ line # <<>> /\ line[1] = "M"
  \/ Len(line) > 1 /\ line[1] = "N" /\ line[2] = "M"

\* heater_problem: a command lasts until the next one; each temperature of it counts.
Cold == [heater |-> FALSE, problem |-> FALSE]
Word(s, t) ==
  CASE t = "M" -> [heater |-> TRUE, problem |-> s.problem]
    [] t = "G" -> [heater |-> FALSE, problem |-> s.problem]
    [] t \in {"hot", "odd"} -> [heater |-> s.heater, problem |-> s.problem \/ s.heater]
    [] OTHER -> s
Parsed(code) ==
  LET upTo[i \in 0..Len(code)] == IF i = 0 THEN Cold ELSE Word(upTo[i - 1], code[i])
  IN  upTo[Len(code)]
HeaterProblem(code) == Parsed(code).problem

LineProblem(line) == HeaterLine(line) /\ HeaterProblem(Code(line))
Problem(ls) == \E k \in DOMAIN ls : LineProblem(ls[k])

\* Bug: a CR at the end of a chunk ends its line at once.
CutEager(data) ==
  LET parts == Split(data)
  IN  [lines |-> Front(parts), pending |-> Last(parts)]

\* A CR that ends the chunk is held back: the LF of a CRLF may start the next one.
Cut(data) ==
  LET held  == data # <<>> /\ Last(data) = "CR"
      parts == Split(IF held THEN Front(data) ELSE data)
  IN  [lines |-> Front(parts), pending |-> Last(parts) \o (IF held THEN <<"CR">> ELSE <<>>)]

\* One chunk: its lines are checked, then the length of what is left over.
ReadChunk ==
  /\ verdict = "reading"
  /\ \E n \in 1..MaxChunk : \E chunk \in [1..n -> Tokens] :
       /\ Len(whole) + n <= MaxFile
       /\ LET cut == Cut(pending \o chunk)
          IN  /\ whole' = whole \o chunk
              /\ pending' = cut.pending
              /\ lines' = lines \o cut.lines
              /\ verdict' = IF Problem(cut.lines) \/ Len(cut.pending) > MaxLine
                            THEN "refused" ELSE "reading"

\* The end of the file: what is left over is its last line, or lines.
ReadEnd ==
  /\ verdict = "reading"
  /\ LET rest == IF pending = <<>> THEN <<>> ELSE Split(pending)
     IN  /\ lines' = lines \o rest
         /\ verdict' = IF Problem(rest) THEN "refused" ELSE "clean"
  /\ pending' = <<>> /\ UNCHANGED whole

\* A file that cannot be read is refused, since it cannot be checked.
ReadFails ==
  /\ verdict = "reading" /\ verdict' = "refused"
  /\ UNCHANGED <<whole, pending, lines>>

ScanNext == ReadChunk \/ ReadEnd \/ ReadFails

ScanSpec == ScanInit /\ [][ScanNext]_scanVars

----------------------------------------------------------------------------

\* However the reads fall, the lines given out and what is pending are the lines of
\* the file (_lines), but for an empty one after the last line break.
LinesOfTheFile ==
  LET rest == IF pending = <<>> THEN <<>> ELSE Split(pending)
      all  == Split(whole)
  IN  lines \o rest \in {all, IF Last(all) = <<>> THEN Front(all) ELSE all}

\* What the firmware does with a line: it runs the first command, with the parameters
\* up to the next one or to the comment.
FirmwareHeats(line) ==
  \E i \in DOMAIN line \cap {1, 2} :
    /\ line[i] = "M" /\ (i = 2 => line[1] = "N")
    /\ \E k \in (i + 1)..Len(line) :
         line[k] \in {"hot", "odd"} /\ \A j \in (i + 1)..k : line[j] \notin {"G", "comment"}

\* A file found clean has no line that sets a heater past its limit (gcode_limits.py: "a
\* typo such as M104 S2200 must not reach the heater because it came in by another path").
CleanIsCool ==
  LET all == Split(whole) IN verdict = "clean" => \A k \in DOMAIN all : ~FirmwareHeats(all[k])
=============================================================================
