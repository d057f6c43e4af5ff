---------------------------- MODULE Slicer_proofs ----------------------------
(***************************************************************************)
(* Slicer, for any number of runs of the same model and any requests: a    *)
(* run that ends leaves nothing of its own and reports nothing stale, a    *)
(* failed one costs no good output, and what OrcaSlicer is given keeps to  *)
(* the limits and to the profile asked for.                                *)
(*                                                                         *)
(* The temporary files and OrcaSlicer are a matter of one run: at every    *)
(* step the files it made are those it knows of, but for the profile it is *)
(* writing.  The output is shared: a run that has looked at it sees what   *)
(* it saw, nothing, or a file written while it was under way.              *)
(***************************************************************************)
EXTENDS MC_Slicer, WellFoundedInduction, SequenceTheorems, TLAPS

----------------------------------------------------------------------------
(* The inductive invariant. *)

Files == [is : Kinds, by : Runs \cup {Nothing}, with : SUBSET Runs]
Temps == {"step", "proc", "fil", "mach", "work"}

Walked ==
  /\ request \in Requests
  /\ pc \in [Runs -> Steps] /\ hit \in [Runs -> Steps \cup {"none"}]
  /\ outcome \in [Runs -> {"none", "ok", "failed"}]

Stored == temp \in [Runs -> SUBSET Temps] /\ held \in [Runs -> SUBSET Temps]

Produced ==
  /\ child \in [Runs -> {"none", "running", "exited", "reaped", "killed"}]
  /\ code \in [Runs -> {"zero", "error", "noise"}]
  /\ made \in [Runs -> Kinds \cup {Nothing}]
  /\ out \in Files \cup {Nothing}
  /\ snap \in [Runs -> Files \cup {Nothing}] /\ reported \in [Runs -> Files \cup {Nothing}]
  /\ DOMAIN profile = Runs /\ DOMAIN pipe = Runs

Typed == Walked /\ Stored /\ Produced

\* A run knows of the files it made, but while it writes its profiles, or after Ctrl-C then.
TempsKnown(r) ==
  /\ held[r] \subseteq temp[r]
  /\ pc[r] = "start" => held[r] = {}
  /\ pc[r] \in {"convert", "process", "filament"} => held[r] \subseteq {"step"}
  /\ pc[r] = "filament" => temp[r] = held[r] \cup {"proc"}
  /\ pc[r] \notin {"filament", "abandon", "over"} => temp[r] = held[r]
  /\ pc[r] \in {"abandon", "over"} =>
       \/ temp[r] = held[r]
       \/ hit[r] = "filament" /\ temp[r] \ held[r] \subseteq {"proc", "fil"}
       \/ hit[r] = "machine" /\ temp[r] \ held[r] = {"mach"}
  /\ pc[r] \in {"finalize", "remove", "over"} => held[r] = {}
  /\ made[r] # Nothing => "work" \in held[r]

\* OrcaSlicer runs only while it is watched, or where Ctrl-C came before it was, and its
\* output is held open only until the run has closed it, or where Ctrl-C came before that.
ChildWatched(r) ==
  /\ pc[r] \in {"start", "convert", "process", "filament", "machine", "workdir", "launch"} =>
       child[r] = "none"
  /\ child[r] = "none" => ~pipe[r]
  /\ child[r] = "running" =>
       \/ pc[r] \in {"launched", "watch"}
       \/ pc[r] \in {"abandon", "over"} /\ hit[r] = "launched"
  /\ pipe[r] =>
       \/ pc[r] \in {"launched", "watch", "close"}
       \/ pc[r] \in {"abandon", "over"} /\ hit[r] \in {"launched", "close"}

\* A run past its first step had its options accepted.
OptionsChecked(r) ==
  /\ pc[r] \notin {"start", "over"} \/ child[r] # "none" => Accepted(request.overrides)
  /\ profile[r] # Nothing => profile[r] \in ProcessProfiles(request.profiles, request.quality)

Snapped == {"launch", "launched", "watch", "move", "replace", "cleanup", "finalize"}

\* The output was written, or is not there, since the run came to know of it.
Fresh(r) == out = Nothing \/ r \in out.with

OutputSeen(r) ==
  /\ pc[r] \in Snapped => out = snap[r] \/ Fresh(r)
  /\ pc[r] = "replace" => made[r] # Nothing /\ (Judged(code[r], made[r]) = "ok" \/ Fresh(r))
  /\ pc[r] = "remove" => Fresh(r)

Reported(r) ==
  /\ pc[r] = "over" <=> outcome[r] \in {"ok", "failed"}
  /\ outcome[r] = "ok" => Valid(reported[r].is) /\ r \in reported[r].with

SInv ==
  /\ Typed
  /\ \A r \in Runs :
       TempsKnown(r) /\ ChildWatched(r) /\ OptionsChecked(r) /\ OutputSeen(r) /\ Reported(r)

Act(r) == Prepare(r) \/ Finish(r) \/ Interrupt(r) \/ Write(r) \/ Exit(r) \/ HelperEnds(r)

----------------------------------------------------------------------------
(* A step of a run keeps each part of what holds of it. *)

\* A run walks through its steps; the request stays.
LEMMA WalkedKept ==
  ASSUME Walked, Produced, NEW r \in Runs, Act(r)
  PROVE  Walked'
<1>1. CASE Start(r)
  BY <1>1 DEF Start, Go, Goto, orca, files, local, Walked, Steps
<1>2. CASE Convert(r)
  BY <1>2 DEF Convert, Go, Fail, Goto, Make, Hold, orca, files, local, Walked, Steps
<1>3. CASE Process(r)
  BY <1>3 DEF Process, Go, Fail, Goto, Make, orca, files, local, Walked, Steps
<1>4. CASE Filament(r)
  BY <1>4 DEF Filament, Go, Fail, Goto, Make, Hold, Drop, orca, files, local, Walked, Steps
<1>5. CASE Machine(r)
  BY <1>5 DEF Machine, Go, Fail, Goto, Make, Hold, orca, files, local, Walked, Steps
<1>6. CASE Workdir(r)
  BY <1>6 DEF Workdir, Go, Fail, Goto, Make, Hold, orca, local, Walked, Steps
<1>7. CASE Launch(r)
  BY <1>7 DEF Launch, Go, Fail, Goto, files, local, Walked, Steps
<1>8. CASE Watch(r)
  BY <1>8 DEF Watch, Go, Goto, orca, files, local, Walked, Steps
<1>9. CASE Poll(r)
  BY <1>9 DEF Poll, Reap, Go, Goto, orca, files, local, KillTree, Walked, Steps
<1>10. CASE Move(r)
  BY <1>10 DEF Move, Go, Goto, files, local, Walked, Steps
<1>11. CASE Replace(r)
  BY <1>11 DEF Replace, Go, Goto, local, Walked, Steps
<1>12. CASE Cleanup(r)
  BY <1>12 DEF Cleanup, Goto, Drop, files, local, Walked, Steps
<1>13. CASE Finalize(r)
  BY <1>13 DEF Finalize, Goto, orca, files, local, Judged, Walked, Steps
<1>14. CASE RemoveOutput(r)
  BY <1>14 DEF RemoveOutput, Goto, orca, local, Walked, Steps
<1>15. CASE Interrupt(r)
  BY <1>15 DEF Interrupt, Goto, Make, orca, files, local, KillTree, Walked, Steps
<1>16. CASE Write(r)
  BY <1>16 DEF Write, files, local, Walked, Steps
<1>17. CASE Exit(r)
  BY <1>17 DEF Exit, files, local, Walked, Steps
<1>18. CASE Close(r)
  BY <1>18 DEF Close, Fail, Goto, orca, files, local, Walked, Steps
<1>19. CASE HelperEnds(r)
  BY <1>19 DEF HelperEnds, files, local, Walked, Steps
<1>20. QED
  BY <1>1, <1>2, <1>3, <1>4, <1>5, <1>6, <1>7, <1>8, <1>9, <1>10, <1>11, <1>12, <1>13,
     <1>14, <1>15, <1>16, <1>17, <1>18, <1>19
     DEF Act, Prepare, Finish

\* The temporary files there are, and those known of.
LEMMA StoredKept ==
  ASSUME Stored, NEW r \in Runs, Act(r)
  PROVE  Stored'
<1>1. CASE Start(r)
  BY <1>1 DEF Start, Go, Goto, orca, files, local, Stored, Temps
<1>2. CASE Convert(r)
  BY <1>2 DEF Convert, Go, Fail, Goto, Make, Hold, orca, files, local, Stored, Temps
<1>3. CASE Process(r)
  BY <1>3 DEF Process, Go, Fail, Goto, Make, orca, files, local, Stored, Temps
<1>4. CASE Filament(r)
  BY <1>4 DEF Filament, Go, Fail, Goto, Make, Hold, Drop, orca, files, local, Stored, Temps
<1>5. CASE Machine(r)
  BY <1>5 DEF Machine, Go, Fail, Goto, Make, Hold, orca, files, local, Stored, Temps
<1>6. CASE Workdir(r)
  BY <1>6 DEF Workdir, Go, Fail, Goto, Make, Hold, orca, local, Stored, Temps
<1>7. CASE Launch(r)
  BY <1>7 DEF Launch, Go, Fail, Goto, files, local, Stored, Temps
<1>8. CASE Watch(r)
  BY <1>8 DEF Watch, Go, Goto, orca, files, local, Stored, Temps
<1>9. CASE Poll(r)
  BY <1>9 DEF Poll, Reap, Go, Goto, orca, files, local, KillTree, Stored, Temps
<1>10. CASE Move(r)
  BY <1>10 DEF Move, Go, Goto, files, local, Stored, Temps
<1>11. CASE Replace(r)
  BY <1>11 DEF Replace, Go, Goto, local, Stored, Temps
<1>12. CASE Cleanup(r)
  BY <1>12 DEF Cleanup, Goto, Drop, files, local, Stored, Temps
<1>13. CASE Finalize(r)
  BY <1>13 DEF Finalize, Goto, orca, files, local, Stored, Temps
<1>14. CASE RemoveOutput(r)
  BY <1>14 DEF RemoveOutput, Goto, orca, local, Stored, Temps
<1>15. CASE Interrupt(r)
  BY <1>15 DEF Interrupt, Goto, Make, orca, files, local, KillTree, Stored, Temps
<1>16. CASE Write(r)
  BY <1>16 DEF Write, files, local, Stored, Temps
<1>17. CASE Exit(r)
  BY <1>17 DEF Exit, files, local, Stored, Temps
<1>18. CASE Close(r)
  BY <1>18 DEF Close, Fail, Goto, orca, files, local, Stored, Temps
<1>19. CASE HelperEnds(r)
  BY <1>19 DEF HelperEnds, files, local, Stored, Temps
<1>20. QED
  BY <1>1, <1>2, <1>3, <1>4, <1>5, <1>6, <1>7, <1>8, <1>9, <1>10, <1>11, <1>12, <1>13,
     <1>14, <1>15, <1>16, <1>17, <1>18, <1>19
     DEF Act, Prepare, Finish

\* What OrcaSlicer did, and the output.
LEMMA ProducedKept ==
  ASSUME Walked, Produced, NEW r \in Runs, Act(r), OutputSeen(r)
  PROVE  Produced'
<1>1. CASE Start(r)
  BY <1>1 DEF Start, Go, Goto, orca, files, local, Produced
<1>2. CASE Convert(r)
  BY <1>2 DEF Convert, Go, Fail, Goto, Make, Hold, orca, files, local, Produced
<1>3. CASE Process(r)
  BY <1>3 DEF Process, Go, Fail, Goto, Make, orca, files, local, Produced
<1>4. CASE Filament(r)
  BY <1>4 DEF Filament, Go, Fail, Goto, Make, Hold, Drop, orca, files, local, Produced
<1>5. CASE Machine(r)
  BY <1>5 DEF Machine, Go, Fail, Goto, Make, Hold, orca, files, local, Produced
<1>6. CASE Workdir(r)
  BY <1>6 DEF Workdir, Go, Fail, Goto, Make, Hold, orca, local, Produced
<1>7. CASE Launch(r)
  BY <1>7 DEF Launch, Go, Fail, Goto, files, local, Produced
<1>8. CASE Watch(r)
  BY <1>8 DEF Watch, Go, Goto, orca, files, local, Produced
<1>9. CASE Poll(r)
  BY <1>9 DEF Poll, Reap, Go, Goto, orca, files, local, KillTree, Produced
<1>10. CASE Move(r)
  BY <1>10 DEF Move, Go, Goto, files, local, Produced
<1>11. CASE Replace(r)
  BY <1>11 DEF Replace, Go, Goto, local, OutputSeen, File, Active, Files, Produced
<1>12. CASE Cleanup(r)
  BY <1>12 DEF Cleanup, Goto, Drop, files, local, Produced
<1>13. CASE Finalize(r)
  BY <1>13 DEF Finalize, Goto, orca, files, local, Produced
<1>14. CASE RemoveOutput(r)
  BY <1>14 DEF RemoveOutput, Goto, orca, local, Produced
<1>15. CASE Interrupt(r)
  BY <1>15 DEF Interrupt, Goto, Make, orca, files, local, KillTree, Produced
<1>16. CASE Write(r)
  BY <1>16 DEF Write, files, local, Produced
<1>17. CASE Exit(r)
  BY <1>17 DEF Exit, files, local, Produced
<1>18. CASE Close(r)
  BY <1>18 DEF Close, Fail, Goto, orca, files, local, Produced
<1>19. CASE HelperEnds(r)
  BY <1>19 DEF HelperEnds, files, local, Produced
<1>20. QED
  BY <1>1, <1>2, <1>3, <1>4, <1>5, <1>6, <1>7, <1>8, <1>9, <1>10, <1>11, <1>12, <1>13,
     <1>14, <1>15, <1>16, <1>17, <1>18, <1>19
     DEF Act, Prepare, Finish

\* What a step makes it tells the run of, but for a profile that is being written.
LEMMA TempsKept ==
  ASSUME Walked, Stored, Produced, NEW r \in Runs, Act(r), TempsKnown(r), ChildWatched(r)
  PROVE  TempsKnown(r)'
<1>1. CASE Start(r)
  BY <1>1 DEF Start, Go, Goto, orca, files, local, Walked, Stored, Produced, TempsKnown,
     ChildWatched
<1>2. CASE Convert(r)
  <2>1. pc[r] = "convert" /\ made'[r] = made[r]
  BY <1>2 DEF Convert, orca
  <2>2. CASE Go(r, "process") /\ Make(r, {"step"}) /\ Hold(r, {"step"})
    <3>1. /\ temp'[r] = temp[r] \cup {"step"} /\ held'[r] = held[r] \cup {"step"}
          /\ pc'[r] = "process"
      BY <2>2 DEF Make, Hold, Go, Goto, Walked, Stored
    <3>2. QED
      BY <2>1, <3>1 DEF TempsKnown
  <2>3. CASE Fail(r) /\ UNCHANGED <<temp, held>>
    <3>1. pc'[r] = "abandon" /\ temp' = temp /\ held' = held
      BY <2>3 DEF Fail, Goto, Walked
    <3>2. QED
      BY <2>1, <3>1 DEF TempsKnown
  <2>4. QED
    BY <1>2, <2>2, <2>3 DEF Convert
<1>3. CASE Process(r)
  BY <1>3 DEF Process, Go, Fail, Goto, Make, orca, files, local, Walked, Stored, Produced,
     TempsKnown, ChildWatched
<1>4. CASE Filament(r)
  <2>1. pc[r] = "filament" /\ made'[r] = made[r]
  BY <1>4 DEF Filament, orca
  <2>2. CASE Make(r, {"fil"}) /\ Hold(r, {"proc", "fil"}) /\ Go(r, "machine")
    <3>1. /\ temp'[r] = temp[r] \cup {"fil"} /\ held'[r] = held[r] \cup {"proc", "fil"}
          /\ pc'[r] = "machine"
      BY <2>2 DEF Make, Hold, Go, Goto, Walked, Stored
    <3>2. QED
      BY <2>1, <3>1 DEF TempsKnown
  <2>3. CASE Drop(r, {"proc"}) /\ UNCHANGED held /\ Fail(r)
    <3>1. temp'[r] = temp[r] \ {"proc"} /\ held'[r] = held[r] /\ pc'[r] = "abandon"
      BY <2>3 DEF Drop, Fail, Goto, Walked, Stored
    <3>2. temp'[r] = held'[r]
      BY <2>1, <3>1 DEF TempsKnown
    <3>3. QED
      BY <2>1, <3>1, <3>2 DEF TempsKnown
  <2>4. QED
    BY <1>4, <2>2, <2>3 DEF Filament
<1>5. CASE Machine(r)
  <2>1. pc[r] = "machine" /\ made'[r] = made[r]
  BY <1>5 DEF Machine, orca
  <2>2. CASE Make(r, {"mach"}) /\ Hold(r, {"mach"}) /\ Go(r, "workdir")
    <3>1. /\ temp'[r] = temp[r] \cup {"mach"} /\ held'[r] = held[r] \cup {"mach"}
          /\ pc'[r] = "workdir"
      BY <2>2 DEF Make, Hold, Go, Goto, Walked, Stored
    <3>2. QED
      BY <2>1, <3>1 DEF TempsKnown
  <2>3. CASE UNCHANGED <<temp, held>> /\ Fail(r)
    <3>1. pc'[r] = "abandon" /\ temp' = temp /\ held' = held
      BY <2>3 DEF Fail, Goto, Walked
    <3>2. QED
      BY <2>1, <3>1 DEF TempsKnown
  <2>4. QED
    BY <1>5, <2>2, <2>3 DEF Machine
<1>6. CASE Workdir(r)
  <2>1. pc[r] = "workdir" /\ made'[r] = made[r]
  BY <1>6 DEF Workdir, orca
  <2>2. CASE Make(r, {"work"}) /\ Hold(r, {"work"}) /\ Go(r, "launch")
    <3>1. /\ temp'[r] = temp[r] \cup {"work"} /\ held'[r] = held[r] \cup {"work"}
          /\ pc'[r] = "launch"
      BY <2>2 DEF Make, Hold, Go, Goto, Walked, Stored
    <3>2. QED
      BY <2>1, <3>1 DEF TempsKnown
  <2>3. CASE UNCHANGED <<temp, held>> /\ Fail(r)
    <3>1. pc'[r] = "abandon" /\ temp' = temp /\ held' = held
      BY <2>3 DEF Fail, Goto, Walked
    <3>2. QED
      BY <2>1, <3>1 DEF TempsKnown
  <2>4. QED
    BY <1>6, <2>2, <2>3 DEF Workdir
<1>7. CASE Launch(r)
  BY <1>7 DEF Launch, Go, Fail, Goto, files, local, Walked, Stored, Produced, TempsKnown,
     ChildWatched
<1>8. CASE Watch(r)
  BY <1>8 DEF Watch, Go, Goto, orca, files, local, Walked, Stored, Produced, TempsKnown,
     ChildWatched
<1>9. CASE Poll(r)
  BY <1>9 DEF Poll, Reap, Go, Goto, orca, files, local, KillTree, Walked, Stored, Produced,
     TempsKnown, ChildWatched
<1>10. CASE Move(r)
  BY <1>10 DEF Move, Go, Goto, files, local, Walked, Stored, Produced, TempsKnown,
     ChildWatched
<1>11. CASE Replace(r)
  BY <1>11 DEF Replace, Go, Goto, local, Walked, Stored, Produced, TempsKnown, ChildWatched
<1>12. CASE Cleanup(r)
  BY <1>12 DEF Cleanup, Goto, Drop, files, local, Walked, Stored, Produced, TempsKnown,
     ChildWatched
<1>13. CASE Finalize(r)
  BY <1>13 DEF Finalize, Goto, orca, files, local, Walked, Stored, Produced, TempsKnown,
     ChildWatched
<1>14. CASE RemoveOutput(r)
  BY <1>14 DEF RemoveOutput, Goto, orca, local, Walked, Stored, Produced, TempsKnown,
     ChildWatched
<1>15. CASE Interrupt(r)
  <2>1. /\ pc[r] \notin {"start", "over", "cleanup", "abandon"} /\ hit'[r] = pc[r]
        /\ pc'[r] = IF pc[r] \in {"finalize", "remove"} THEN "over"
                    ELSE IF pc[r] = "watch" THEN "close" ELSE "abandon"
        /\ held' = held /\ made' = made
  BY <1>15 DEF Interrupt, Goto, KillTree, orca, Walked
  <2>2. \/ temp' = temp
        \/ pc[r] = "filament" /\ temp'[r] = temp[r] \cup {"fil"}
        \/ pc[r] = "machine" /\ temp'[r] = temp[r] \cup {"mach"}
  BY <1>15 DEF Interrupt, Make, Stored
  <2>3. CASE pc[r] = "filament"
    <3>1. temp'[r] \ held'[r] \subseteq {"proc", "fil"} /\ held'[r] \subseteq temp'[r]
      BY <2>1, <2>2, <2>3 DEF TempsKnown
    <3>2. QED
      BY <2>1, <2>3, <3>1 DEF TempsKnown
  <2>4. CASE pc[r] = "machine"
    <3>1. held'[r] \subseteq temp'[r] /\ (temp'[r] = held'[r] \/ temp'[r] \ held'[r] = {"mach"})
      BY <2>1, <2>2, <2>4 DEF TempsKnown
    <3>2. QED
      BY <2>1, <2>4, <3>1 DEF TempsKnown
  <2>5. CASE pc[r] \notin {"filament", "machine"}
    <3>1. temp' = temp
      BY <2>2, <2>5
    <3>2. QED
      BY <2>1, <2>5, <3>1 DEF TempsKnown
  <2>6. QED
    BY <2>3, <2>4, <2>5
<1>16. CASE Write(r)
  BY <1>16 DEF Write, files, local, Walked, Stored, Produced, TempsKnown, ChildWatched
<1>17. CASE Exit(r)
  BY <1>17 DEF Exit, files, local, Walked, Stored, Produced, TempsKnown, ChildWatched
<1>18. CASE Close(r)
  BY <1>18 DEF Close, Fail, Goto, orca, files, local, Walked, Stored, Produced, TempsKnown,
     ChildWatched
<1>19. CASE HelperEnds(r)
  BY <1>19 DEF HelperEnds, files, local, Walked, Stored, Produced, TempsKnown, ChildWatched
<1>20. QED
  BY <1>1, <1>2, <1>3, <1>4, <1>5, <1>6, <1>7, <1>8, <1>9, <1>10, <1>11, <1>12, <1>13,
     <1>14, <1>15, <1>16, <1>17, <1>18, <1>19
     DEF Act, Prepare, Finish

\* OrcaSlicer is started to be watched, and the loop that watches it waits for it or kills it.
LEMMA ChildKept ==
  ASSUME Walked, Produced, NEW r \in Runs, Act(r), ChildWatched(r)
  PROVE  ChildWatched(r)'
<1>1. CASE Start(r)
  BY <1>1 DEF Start, Go, Goto, orca, files, local, Walked, Produced, ChildWatched
<1>2. CASE Convert(r)
  BY <1>2 DEF Convert, Go, Fail, Goto, Make, Hold, orca, files, local, Walked, Produced,
     ChildWatched
<1>3. CASE Process(r)
  BY <1>3 DEF Process, Go, Fail, Goto, Make, orca, files, local, Walked, Produced,
     ChildWatched
<1>4. CASE Filament(r)
  BY <1>4 DEF Filament, Go, Fail, Goto, Make, Hold, Drop, orca, files, local, Walked,
     Produced, ChildWatched
<1>5. CASE Machine(r)
  BY <1>5 DEF Machine, Go, Fail, Goto, Make, Hold, orca, files, local, Walked, Produced,
     ChildWatched
<1>6. CASE Workdir(r)
  BY <1>6 DEF Workdir, Go, Fail, Goto, Make, Hold, orca, local, Walked, Produced,
     ChildWatched
<1>7. CASE Launch(r)
  BY <1>7 DEF Launch, Go, Fail, Goto, files, local, Walked, Produced, ChildWatched
<1>8. CASE Watch(r)
  BY <1>8 DEF Watch, Go, Goto, orca, files, local, Walked, Produced, ChildWatched
<1>9. CASE Poll(r)
  BY <1>9 DEF Poll, Reap, Go, Goto, orca, files, local, KillTree, Walked, Produced,
     ChildWatched
<1>10. CASE Move(r)
  BY <1>10 DEF Move, Go, Goto, files, local, Walked, Produced, ChildWatched
<1>11. CASE Replace(r)
  BY <1>11 DEF Replace, Go, Goto, local, Walked, Produced, ChildWatched
<1>12. CASE Cleanup(r)
  BY <1>12 DEF Cleanup, Goto, Drop, files, local, Walked, Produced, ChildWatched
<1>13. CASE Finalize(r)
  BY <1>13 DEF Finalize, Goto, orca, files, local, Walked, Produced, ChildWatched
<1>14. CASE RemoveOutput(r)
  BY <1>14 DEF RemoveOutput, Goto, orca, local, Walked, Produced, ChildWatched
<1>15. CASE Interrupt(r)
  BY <1>15 DEF Interrupt, Goto, Make, orca, files, local, KillTree, Walked, Produced,
     ChildWatched
<1>16. CASE Write(r)
  BY <1>16 DEF Write, files, local, Walked, Produced, ChildWatched
<1>17. CASE Exit(r)
  BY <1>17 DEF Exit, files, local, Walked, Produced, ChildWatched
<1>18. CASE Close(r)
  BY <1>18 DEF Close, Fail, Goto, orca, files, local, Walked, Produced, ChildWatched
<1>19. CASE HelperEnds(r)
  BY <1>19 DEF HelperEnds, files, local, Walked, Produced, ChildWatched
<1>20. QED
  BY <1>1, <1>2, <1>3, <1>4, <1>5, <1>6, <1>7, <1>8, <1>9, <1>10, <1>11, <1>12, <1>13,
     <1>14, <1>15, <1>16, <1>17, <1>18, <1>19
     DEF Act, Prepare, Finish

\* The options are checked before anything is made.
LEMMA OptionsKept ==
  ASSUME Walked, Produced, NEW r \in Runs, Act(r), ChildWatched(r), OptionsChecked(r)
  PROVE  OptionsChecked(r)'
<1>1. CASE Start(r)
  BY <1>1 DEF Start, Go, Goto, orca, files, local, Walked, Produced, ChildWatched,
     OptionsChecked
<1>2. CASE Convert(r)
  BY <1>2 DEF Convert, Go, Fail, Goto, Make, Hold, orca, files, local, Walked, Produced,
     ChildWatched, OptionsChecked
<1>3. CASE Process(r)
  BY <1>3 DEF Process, Go, Fail, Goto, Make, orca, files, local, Walked, Produced,
     ChildWatched, OptionsChecked
<1>4. CASE Filament(r)
  BY <1>4 DEF Filament, Go, Fail, Goto, Make, Hold, Drop, orca, files, local, Walked,
     Produced, ChildWatched, OptionsChecked
<1>5. CASE Machine(r)
  BY <1>5 DEF Machine, Go, Fail, Goto, Make, Hold, orca, files, local, Walked, Produced,
     ChildWatched, OptionsChecked
<1>6. CASE Workdir(r)
  BY <1>6 DEF Workdir, Go, Fail, Goto, Make, Hold, orca, local, Walked, Produced,
     ChildWatched, OptionsChecked
<1>7. CASE Launch(r)
  BY <1>7 DEF Launch, Go, Fail, Goto, files, local, Walked, Produced, ChildWatched,
     OptionsChecked
<1>8. CASE Watch(r)
  BY <1>8 DEF Watch, Go, Goto, orca, files, local, Walked, Produced, ChildWatched,
     OptionsChecked
<1>9. CASE Poll(r)
  BY <1>9 DEF Poll, Reap, Go, Goto, orca, files, local, KillTree, Walked, Produced,
     ChildWatched, OptionsChecked
<1>10. CASE Move(r)
  BY <1>10 DEF Move, Go, Goto, files, local, Walked, Produced, ChildWatched, OptionsChecked
<1>11. CASE Replace(r)
  BY <1>11 DEF Replace, Go, Goto, local, Walked, Produced, ChildWatched, OptionsChecked
<1>12. CASE Cleanup(r)
  BY <1>12 DEF Cleanup, Goto, Drop, files, local, Walked, Produced, ChildWatched,
     OptionsChecked
<1>13. CASE Finalize(r)
  BY <1>13 DEF Finalize, Goto, orca, files, local, Walked, Produced, ChildWatched,
     OptionsChecked
<1>14. CASE RemoveOutput(r)
  BY <1>14 DEF RemoveOutput, Goto, orca, local, Walked, Produced, ChildWatched,
     OptionsChecked
<1>15. CASE Interrupt(r)
  BY <1>15 DEF Interrupt, Goto, Make, orca, files, local, KillTree, Walked, Produced,
     ChildWatched, OptionsChecked
<1>16. CASE Write(r)
  BY <1>16 DEF Write, files, local, Walked, Produced, ChildWatched, OptionsChecked
<1>17. CASE Exit(r)
  BY <1>17 DEF Exit, files, local, Walked, Produced, ChildWatched, OptionsChecked
<1>18. CASE Close(r)
  BY <1>18 DEF Close, Fail, Goto, orca, files, local, Walked, Produced, ChildWatched,
     OptionsChecked
<1>19. CASE HelperEnds(r)
  BY <1>19 DEF HelperEnds, files, local, Walked, Produced, ChildWatched, OptionsChecked
<1>20. QED
  BY <1>1, <1>2, <1>3, <1>4, <1>5, <1>6, <1>7, <1>8, <1>9, <1>10, <1>11, <1>12, <1>13,
     <1>14, <1>15, <1>16, <1>17, <1>18, <1>19
     DEF Act, Prepare, Finish

\* A run that moves or removes a file judged it first.
LEMMA OutputKept ==
  ASSUME Walked, Produced, NEW r \in Runs, Act(r), ChildWatched(r), OutputSeen(r)
  PROVE  OutputSeen(r)'
<1>1. CASE Start(r)
  BY <1>1 DEF Start, Go, Goto, orca, files, local, Walked, Produced, ChildWatched,
     OutputSeen, Snapped, Fresh
<1>2. CASE Convert(r)
  BY <1>2 DEF Convert, Go, Fail, Goto, Make, Hold, orca, files, local, Walked, Produced,
     ChildWatched, OutputSeen, Snapped, Fresh
<1>3. CASE Process(r)
  BY <1>3 DEF Process, Go, Fail, Goto, Make, orca, files, local, Walked, Produced,
     ChildWatched, OutputSeen, Snapped, Fresh
<1>4. CASE Filament(r)
  BY <1>4 DEF Filament, Go, Fail, Goto, Make, Hold, Drop, orca, files, local, Walked,
     Produced, ChildWatched, OutputSeen, Snapped, Fresh
<1>5. CASE Machine(r)
  BY <1>5 DEF Machine, Go, Fail, Goto, Make, Hold, orca, files, local, Walked, Produced,
     ChildWatched, OutputSeen, Snapped, Fresh
<1>6. CASE Workdir(r)
  BY <1>6 DEF Workdir, Go, Fail, Goto, Make, Hold, orca, local, Walked, Produced,
     ChildWatched, OutputSeen, Snapped, Fresh
<1>7. CASE Launch(r)
  BY <1>7 DEF Launch, Go, Fail, Goto, files, local, Walked, Produced, ChildWatched,
     OutputSeen, Snapped, Fresh
<1>8. CASE Watch(r)
  BY <1>8 DEF Watch, Go, Goto, orca, files, local, Walked, Produced, ChildWatched,
     OutputSeen, Snapped, Fresh
<1>9. CASE Poll(r)
  BY <1>9 DEF Poll, Reap, Go, Goto, orca, files, local, KillTree, Walked, Produced,
     ChildWatched, OutputSeen, Snapped, Fresh
<1>10. CASE Move(r)
  BY <1>10 DEF Move, Go, Goto, files, local, Walked, Produced, ChildWatched, OutputSeen,
     Snapped, Fresh
<1>11. CASE Replace(r)
  BY <1>11 DEF Replace, Go, Goto, local, File, Active, Walked, Produced, ChildWatched,
     OutputSeen, Snapped, Fresh
<1>12. CASE Cleanup(r)
  BY <1>12 DEF Cleanup, Goto, Drop, files, local, Walked, Produced, ChildWatched,
     OutputSeen, Snapped, Fresh
<1>13. CASE Finalize(r)
  BY <1>13 DEF Finalize, Goto, orca, files, local, Judged, Walked, Produced, ChildWatched,
     OutputSeen, Snapped, Fresh
<1>14. CASE RemoveOutput(r)
  BY <1>14 DEF RemoveOutput, Goto, orca, local, Walked, Produced, ChildWatched, OutputSeen,
     Snapped, Fresh
<1>15. CASE Interrupt(r)
  BY <1>15 DEF Interrupt, Goto, Make, orca, files, local, KillTree, Walked, Produced,
     ChildWatched, OutputSeen, Snapped, Fresh
<1>16. CASE Write(r)
  BY <1>16 DEF Write, files, local, Walked, Produced, ChildWatched, OutputSeen, Snapped,
     Fresh
<1>17. CASE Exit(r)
  BY <1>17 DEF Exit, files, local, Walked, Produced, ChildWatched, OutputSeen, Snapped,
     Fresh
<1>18. CASE Close(r)
  BY <1>18 DEF Close, Fail, Goto, orca, files, local, Walked, Produced, ChildWatched,
     OutputSeen, Snapped, Fresh
<1>19. CASE HelperEnds(r)
  BY <1>19 DEF HelperEnds, files, local, Walked, Produced, ChildWatched, OutputSeen,
     Snapped, Fresh
<1>20. QED
  BY <1>1, <1>2, <1>3, <1>4, <1>5, <1>6, <1>7, <1>8, <1>9, <1>10, <1>11, <1>12, <1>13,
     <1>14, <1>15, <1>16, <1>17, <1>18, <1>19
     DEF Act, Prepare, Finish

\* What is reported as done is valid, and not what was there before.
LEMMA ReportedKept ==
  ASSUME Walked, Produced, NEW r \in Runs, Act(r), OutputSeen(r), Reported(r)
  PROVE  Reported(r)'
<1>1. CASE Start(r)
  BY <1>1 DEF Start, Go, Goto, orca, files, local, Walked, Produced, Reported
<1>2. CASE Convert(r)
  BY <1>2 DEF Convert, Go, Fail, Goto, Make, Hold, orca, files, local, Walked, Produced,
     Reported
<1>3. CASE Process(r)
  BY <1>3 DEF Process, Go, Fail, Goto, Make, orca, files, local, Walked, Produced, Reported
<1>4. CASE Filament(r)
  BY <1>4 DEF Filament, Go, Fail, Goto, Make, Hold, Drop, orca, files, local, Walked,
     Produced, Reported
<1>5. CASE Machine(r)
  BY <1>5 DEF Machine, Go, Fail, Goto, Make, Hold, orca, files, local, Walked, Produced,
     Reported
<1>6. CASE Workdir(r)
  BY <1>6 DEF Workdir, Go, Fail, Goto, Make, Hold, orca, local, Walked, Produced, Reported
<1>7. CASE Launch(r)
  BY <1>7 DEF Launch, Go, Fail, Goto, files, local, Walked, Produced, Reported
<1>8. CASE Watch(r)
  BY <1>8 DEF Watch, Go, Goto, orca, files, local, Walked, Produced, Reported
<1>9. CASE Poll(r)
  BY <1>9 DEF Poll, Reap, Go, Goto, orca, files, local, KillTree, Walked, Produced, Reported
<1>10. CASE Move(r)
  BY <1>10 DEF Move, Go, Goto, files, local, Walked, Produced, Reported
<1>11. CASE Replace(r)
  BY <1>11 DEF Replace, Go, Goto, local, Walked, Produced, Reported
<1>12. CASE Cleanup(r)
  BY <1>12 DEF Cleanup, Goto, Drop, files, local, Walked, Produced, Reported
<1>13. CASE Finalize(r)
  BY <1>13 DEF Finalize, Goto, orca, files, local, OutputSeen, Snapped, Fresh, Judged,
     Walked, Produced, Reported
<1>14. CASE RemoveOutput(r)
  BY <1>14 DEF RemoveOutput, Goto, orca, local, Walked, Produced, Reported
<1>15. CASE Interrupt(r)
  BY <1>15 DEF Interrupt, Goto, Make, orca, files, local, KillTree, Walked, Produced,
     Reported
<1>16. CASE Write(r)
  BY <1>16 DEF Write, files, local, Walked, Produced, Reported
<1>17. CASE Exit(r)
  BY <1>17 DEF Exit, files, local, Walked, Produced, Reported
<1>18. CASE Close(r)
  BY <1>18 DEF Close, Fail, Goto, orca, files, local, Walked, Produced, Reported
<1>19. CASE HelperEnds(r)
  BY <1>19 DEF HelperEnds, files, local, Walked, Produced, Reported
<1>20. QED
  BY <1>1, <1>2, <1>3, <1>4, <1>5, <1>6, <1>7, <1>8, <1>9, <1>10, <1>11, <1>12, <1>13,
     <1>14, <1>15, <1>16, <1>17, <1>18, <1>19
     DEF Act, Prepare, Finish

----------------------------------------------------------------------------
(* The other runs. *)

Elsewhere(q) ==
  /\ pc'[q] = pc[q] /\ profile'[q] = profile[q] /\ temp'[q] = temp[q] /\ held'[q] = held[q]
  /\ child'[q] = child[q] /\ pipe'[q] = pipe[q] /\ code'[q] = code[q] /\ made'[q] = made[q] /\ snap'[q] = snap[q]
  /\ outcome'[q] = outcome[q] /\ reported'[q] = reported[q] /\ hit'[q] = hit[q]

\* The runs share the request and the output alone, and the output names the runs under way.
LEMMA OthersUntouched ==
  ASSUME Walked, Stored, Produced, NEW r \in Runs, Act(r), NEW q \in Runs, q # r
  PROVE  /\ Elsewhere(q) /\ request' = request
         /\ out' = out \/ out' = Nothing \/ out'.with = Active
<1>1. CASE Start(r)
  BY <1>1 DEF Start, Go, Goto, orca, files, local, Walked, Stored, Produced, Elsewhere
<1>2. CASE Convert(r)
  BY <1>2 DEF Convert, Go, Fail, Goto, Make, Hold, orca, files, local, Walked, Stored,
     Produced, Elsewhere
<1>3. CASE Process(r)
  BY <1>3 DEF Process, Go, Fail, Goto, Make, orca, files, local, Walked, Stored, Produced,
     Elsewhere
<1>4. CASE Filament(r)
  BY <1>4 DEF Filament, Go, Fail, Goto, Make, Hold, Drop, orca, files, local, Walked,
     Stored, Produced, Elsewhere
<1>5. CASE Machine(r)
  BY <1>5 DEF Machine, Go, Fail, Goto, Make, Hold, orca, files, local, Walked, Stored,
     Produced, Elsewhere
<1>6. CASE Workdir(r)
  BY <1>6 DEF Workdir, Go, Fail, Goto, Make, Hold, orca, local, Walked, Stored, Produced,
     Elsewhere
<1>7. CASE Launch(r)
  BY <1>7 DEF Launch, Go, Fail, Goto, files, local, Walked, Stored, Produced, Elsewhere
<1>8. CASE Watch(r)
  BY <1>8 DEF Watch, Go, Goto, orca, files, local, Walked, Stored, Produced, Elsewhere
<1>9. CASE Poll(r)
  BY <1>9 DEF Poll, Reap, Go, Goto, orca, files, local, KillTree, Walked, Stored, Produced,
     Elsewhere
<1>10. CASE Move(r)
  BY <1>10 DEF Move, Go, Goto, files, local, Walked, Stored, Produced, Elsewhere
<1>11. CASE Replace(r)
  BY <1>11 DEF Replace, Go, Goto, local, File, Walked, Stored, Produced, Elsewhere
<1>12. CASE Cleanup(r)
  BY <1>12 DEF Cleanup, Goto, Drop, files, local, Walked, Stored, Produced, Elsewhere
<1>13. CASE Finalize(r)
  BY <1>13 DEF Finalize, Goto, orca, files, local, Walked, Stored, Produced, Elsewhere
<1>14. CASE RemoveOutput(r)
  BY <1>14 DEF RemoveOutput, Goto, orca, local, Walked, Stored, Produced, Elsewhere
<1>15. CASE Interrupt(r)
  BY <1>15 DEF Interrupt, Goto, Make, orca, files, local, KillTree, Walked, Stored,
     Produced, Elsewhere
<1>16. CASE Write(r)
  BY <1>16 DEF Write, files, local, Walked, Stored, Produced, Elsewhere
<1>17. CASE Exit(r)
  BY <1>17 DEF Exit, files, local, Walked, Stored, Produced, Elsewhere
<1>18. CASE Close(r)
  BY <1>18 DEF Close, Fail, Goto, orca, files, local, Walked, Stored, Produced, Elsewhere
<1>19. CASE HelperEnds(r)
  BY <1>19 DEF HelperEnds, files, local, Walked, Stored, Produced, Elsewhere
<1>20. QED
  BY <1>1, <1>2, <1>3, <1>4, <1>5, <1>6, <1>7, <1>8, <1>9, <1>10, <1>11, <1>12, <1>13,
     <1>14, <1>15, <1>16, <1>17, <1>18, <1>19
     DEF Act, Prepare, Finish

\* So what holds of another run goes on to hold.
LEMMA OthersKept ==
  ASSUME SInv, NEW r \in Runs, Act(r), NEW q \in Runs, q # r
  PROVE  (TempsKnown(q) /\ ChildWatched(q) /\ OptionsChecked(q) /\ OutputSeen(q) /\ Reported(q))'
<1>1. /\ Elsewhere(q) /\ request' = request
      /\ out' = out \/ out' = Nothing \/ out'.with = Active
  BY OthersUntouched DEF SInv, Typed
<1>2. TempsKnown(q) /\ ChildWatched(q) /\ OptionsChecked(q) /\ OutputSeen(q) /\ Reported(q)
  BY DEF SInv
<1>3. TempsKnown(q)' /\ ChildWatched(q)' /\ OptionsChecked(q)' /\ Reported(q)'
  BY <1>1, <1>2 DEF Elsewhere, TempsKnown, ChildWatched, OptionsChecked, Reported
<1>4. pc[q] \notin {"start", "over"} => out' = out \/ Fresh(q)'
  BY <1>1 DEF Fresh, Active
<1>5. OutputSeen(q)'
  BY <1>1, <1>2, <1>4 DEF Elsewhere, OutputSeen, Snapped, Fresh
<1>6. QED
  BY <1>3, <1>5

----------------------------------------------------------------------------

\* Initially no run has begun.
LEMMA SlicerStarts == Init => SInv
<1> SUFFICES ASSUME Init PROVE SInv
  OBVIOUS
<1>1. Typed
  BY SlicerAssumption DEF SlicerAssumption, Init, InitRuns, Typed, Walked, Stored, Produced, Files,
     Steps, Temps
<1>2. ASSUME NEW r \in Runs
      PROVE  TempsKnown(r) /\ ChildWatched(r) /\ OptionsChecked(r) /\ OutputSeen(r) /\ Reported(r)
  BY DEF Init, InitRuns, TempsKnown, ChildWatched, OptionsChecked, OutputSeen, Reported, Snapped
<1>3. QED
  BY <1>1, <1>2 DEF SInv

\* Every step keeps the invariant for the run that takes it and for the others.
LEMMA SlicerKeeps == SInv /\ [Next]_vars => SInv'
<1> SUFFICES ASSUME SInv, [Next]_vars PROVE SInv'
  OBVIOUS
<1>1. CASE UNCHANGED vars
  BY <1>1 DEF SInv, vars, local, Typed, Walked, Stored, Produced, TempsKnown, ChildWatched,
     OptionsChecked, OutputSeen, Reported, Fresh
<1>2. ASSUME NEW r \in Runs, Act(r)
      PROVE  SInv'
  <2>1. /\ Walked /\ Stored /\ Produced
        /\ TempsKnown(r) /\ ChildWatched(r) /\ OptionsChecked(r) /\ OutputSeen(r) /\ Reported(r)
    BY DEF SInv, Typed
  <2>2. Typed'
    BY <1>2, <2>1, WalkedKept, StoredKept, ProducedKept DEF Typed
  <2>3. (TempsKnown(r) /\ ChildWatched(r) /\ OptionsChecked(r) /\ OutputSeen(r) /\ Reported(r))'
    BY <1>2, <2>1, TempsKept, ChildKept, OptionsKept, OutputKept, ReportedKept
  <2>4. \A q \in Runs \ {r} :
          (TempsKnown(q) /\ ChildWatched(q) /\ OptionsChecked(q) /\ OutputSeen(q) /\ Reported(q))'
    BY <1>2, OthersKept
  <2>5. QED
    BY <2>2, <2>3, <2>4 DEF SInv
<1>3. QED
  BY <1>1, <1>2 DEF Next, Act

\* What a run made is what it knows of, and what it saw of the output still holds.
THEOREM SlicerInvariant == Spec => []SInv
<1>1. Init => SInv
  BY SlicerStarts
<1>2. SInv /\ [Next]_vars => SInv'
  BY SlicerKeeps
<1>3. QED
  BY <1>1, <1>2, PTL DEF Spec

----------------------------------------------------------------------------
(* The properties. *)

\* Type correctness (TypeOK).
THEOREM TypeCorrect == Spec => []TypeOK
<1>1. SInv => TypeOK
  <2> SUFFICES ASSUME SInv PROVE TypeOK
    OBVIOUS
  <2>1. ASSUME NEW r \in Runs
        PROVE  /\ pc[r] \in Steps /\ held[r] \subseteq temp[r]
               /\ temp[r] \subseteq {"step", "proc", "fil", "mach", "work"}
               /\ made[r] # Nothing => "work" \in temp[r]
               /\ (pc[r] = "over") <=> (outcome[r] \in {"ok", "failed"})
    BY DEF SInv, Typed, Walked, Stored, Temps, TempsKnown, Reported
  <2>2. out # Nothing => out.is \in Kinds /\ out.with \subseteq Runs
    BY DEF SInv, Typed, Produced, Files
  <2>3. QED
    BY <2>1, <2>2 DEF TypeOK
<1>2. QED
  BY <1>1, SlicerInvariant, PTL

\* However a run ends (EndsClean): it leaves no temporary file and no OrcaSlicer, but for the
\* windows named, and what it reports as done was written while it was under way.
THEOREM EveryRunEndsClean == Spec => []EndsClean
<1>1. SInv => EndsClean
  <2> SUFFICES ASSUME SInv PROVE EndsClean
    OBVIOUS
  <2>1. ASSUME NEW r \in Runs
        PROVE  /\ TempsKnown(r) /\ ChildWatched(r) /\ Reported(r) /\ temp[r] \subseteq Temps
    BY DEF SInv, Typed, Stored
  <2>2. NothingLeft
    BY <2>1 DEF NothingLeft, TempsKnown, ChildWatched
  <2>3. ReportedIsNew
    BY <2>1 DEF ReportedIsNew, Reported
  <2>4. QED
    BY <2>2, <2>3 DEF EndsClean
<1>2. QED
  BY <1>1, SlicerInvariant, PTL

\* A good output gives way to a good one only, or to a run that was under way when it was
\* written (GoodOutputKept).
THEOREM GoodOutputIsKept == Spec => GoodOutputKept
<1> DEFINE Kept == out # Nothing /\ Valid(out.is) /\ out' # out =>
                     \/ out' # Nothing /\ Valid(out'.is)
                     \/ \E r \in out.with : pc'[r] # pc[r]
<1>1. ASSUME SInv, [Next]_vars
      PROVE  [Kept]_vars
  <2>1. CASE UNCHANGED vars
    BY <2>1
  <2>2. ASSUME NEW r \in Runs, Act(r)
        PROVE  Kept
    <3> SUFFICES ASSUME out # Nothing, Valid(out.is), out' # out PROVE Kept
      OBVIOUS
    <3>1. OutputSeen(r) /\ Walked /\ Produced
      BY <1>1 DEF SInv, Typed
    <3>2. CASE Replace(r)
      <4>1. /\ pc[r] = "replace" /\ pc'[r] = "cleanup"
            /\ out' = File(made[r], r, Active)
        BY <3>1, <3>2 DEF Replace, Go, Goto, Walked
      <4>2. made[r] \in Kinds /\ (Judged(code[r], made[r]) = "ok" \/ r \in out.with)
        BY <3>1, <4>1 DEF OutputSeen, Fresh, Produced
      <4>3. CASE r \in out.with
        BY <4>1, <4>3
      <4>4. CASE Judged(code[r], made[r]) = "ok"
        <5>1. Valid(made[r])
          BY <4>4 DEF Judged
        <5>2. out' \in Files /\ out'.is = made[r]
          BY <4>1, <4>2 DEF File, Files, Active
        <5>3. QED
          BY <5>1, <5>2, SlicerAssumption DEF SlicerAssumption, Files
      <4>5. QED
        BY <4>2, <4>3, <4>4
    <3>3. CASE RemoveOutput(r)
      <4>1. pc[r] = "remove" /\ pc'[r] = "over"
        BY <3>1, <3>3 DEF RemoveOutput, Goto, Walked
      <4>2. r \in out.with
        BY <3>1, <4>1 DEF OutputSeen, Fresh
      <4>3. QED
        BY <4>1, <4>2
    <3>4. CASE Prepare(r) \/ Interrupt(r) \/ Write(r) \/ Exit(r) \/ HelperEnds(r)
      BY <3>4 DEF Prepare, Start, Convert, Process, Filament, Machine, Workdir, Interrupt, Write,
         Exit, HelperEnds, files
    <3>5. CASE Launch(r) \/ Watch(r) \/ Poll(r) \/ Close(r) \/ Move(r) \/ Cleanup(r) \/ Finalize(r)
      BY <3>5 DEF Launch, Watch, Poll, Close, Move, Cleanup, Finalize, files
    <3>6. QED
      BY <2>2, <3>2, <3>3, <3>4, <3>5 DEF Act, Finish
  <2>3. QED
    BY <1>1, <2>1, <2>2 DEF Next, Act
<1>2. QED
  BY <1>1, SlicerInvariant, PTL DEF Spec, GoodOutputKept

----------------------------------------------------------------------------
(* What OrcaSlicer is given. *)

\* Every profile the choice may fall on is one for the printer and as asked for.
LEMMA ChosenAsAsked ==
  ASSUME NEW profiles, NEW q, NEW p \in ProcessProfiles(profiles, q)
  PROVE  /\ p.mine \/ p.fits
         /\ q.numeric => p.height = q.height
         /\ (\E o \in profiles : Usable(o) /\ o.height = q.height /\ o.word = q.word)
              => p.height = q.height /\ p.word = q.word
<1> DEFINE exact == {o \in profiles : o.mine /\ o.height = q.height /\ o.word = q.word}
           found == Choose(profiles, q.height, q.word)
<1>1. \A height, word : \A o \in Choose(profiles, height, word) :
        /\ o \in profiles /\ Usable(o) /\ o.height = height
        /\ (\E x \in profiles : Usable(x) /\ x.height = height /\ x.word = word) => o.word = word
  BY DEF Choose
<1>2. (\E o \in profiles : Usable(o) /\ o.height = q.height /\ o.word = q.word) => found # {}
  BY DEF Choose
<1>3. CASE p \in exact
  BY <1>3
<1>4. CASE p \in found
  BY <1>1, <1>4 DEF Usable
<1>5. CASE found = {} /\ ~q.numeric /\ p \in Choose(profiles, "0.20", "Standard")
  BY <1>1, <1>2, <1>5 DEF Usable
<1>6. QED
  BY <1>3, <1>4, <1>5 DEF ProcessProfiles

\* The process profile is one for this printer and as asked for (ProfileAsAsked, a part of
\* what the run of Slicer checks as SettingsAreSafe).
THEOREM ProfileIsAsAsked == Spec => []ProfileAsAsked
<1>1. SInv => ProfileAsAsked
  BY ChosenAsAsked DEF SInv, OptionsChecked, ProfileAsAsked
<1>2. QED
  BY <1>1, SlicerInvariant, PTL

\* A value put into a list keeps its texts.
LEMMA CoercedTexts ==
  ASSUME NEW base, NEW v \in [form : Forms, items : Seq(Seq(Texts))]
  PROVE  /\ AllTexts(Coerce(base, v)) = AllTexts(v)
         /\ Coerce(base, v).form = "object" => v.form = "object"
<1>1. Coerce(base, v).items = v.items
  BY DEF Coerce
<1>2. Coerce(base, v).form \in {v.form, "list"}
  BY DEF Coerce
<1>3. QED
  BY <1>1, <1>2 DEF AllTexts

\* Whatever OrcaSlicer is given keeps to the limits and leaves scripts and the machine alone
\* (OverridesSafe, a part of SettingsAreSafe).
THEOREM OverridesAreSafe == Spec => []OverridesSafe
<1>1. SInv => OverridesSafe
  <2> SUFFICES ASSUME SInv, NEW r \in Runs, child[r] # "none",
                      NEW o \in Written(request.overrides, request.base)
               PROVE  /\ o.key \notin {"script", "machine"}
                      /\ o.key \in TemperatureKeys =>
                           /\ o.value.form # "object" /\ AllTexts(o.value) # {}
                           /\ AllTexts(o.value) \subseteq Allowed(o.key)
    BY DEF OverridesSafe
  <2> DEFINE given == request.overrides
  <2>1. Accepted(given)
    BY DEF SInv, OptionsChecked
  <2>2. PICK s \in Sections : \E x \in Merged(given, s) :
           o = [key |-> x.key, value |-> Coerce(request.base, x.value)]
    BY DEF Written
  <2>3. PICK x \in Merged(given, s) : o = [key |-> x.key, value |-> Coerce(request.base, x.value)]
    BY <2>2
  <2>4. PICK source \in Sources : x \in given[source][s]
    BY <2>3 DEF Merged, Sources
  <2>5. ~OverrideProblem(x.key, x.value)
    BY <2>1, <2>4 DEF Accepted
  <2>6. x \in [key : Keys, value : [form : Forms, items : Seq(Seq(Texts))]]
    BY <2>4, SlicerAssumption DEF SlicerAssumption, SInv, Typed, Walked
  <2>7. /\ AllTexts(o.value) = AllTexts(x.value) /\ o.key = x.key
        /\ o.value.form = "object" => x.value.form = "object"
    BY <2>3, <2>6, CoercedTexts
  <2>8. QED
    BY <2>5, <2>7 DEF OverrideProblem, TemperatureProblem
<1>2. QED
  BY <1>1, SlicerInvariant, PTL

----------------------------------------------------------------------------
(* The scan of a printer-ready file (GcodeScan).  Its recursive functions are  *)
(* reasoned about by induction over the text, which follows from the least      *)
(* element of a set of numbers.  A file and its lines are kept in balance: read *)
(* on from the lines given out, what is pending gives what the whole file gives.*)

\* A nonempty set of numbers has a least one, by the well-foundedness of <.
LEMMA NatMin == ASSUME NEW S, S \subseteq Nat, S # {} PROVE \E n \in S : \A m \in S : n <= m
<1> DEFINE R == OpToRel(<, Nat)
<1>1. IsWellFoundedOn(R, Nat)
  BY NatLessThanWellFounded, Zenon
<1>2. \A x, y \in Nat : x < y => <<x, y>> \in R
  BY Zenon DEF OpToRel
<1> HIDE DEF R
<1>3. PICK x \in S : \A y \in S : ~ (<<y, x>> \in R)
  BY <1>1, WFMin
<1>4. \A y \in S : ~(y < x)
  BY <1>2, <1>3
<1> QED
  BY <1>4

\* Induction over the numbers, for a set instead of a predicate.
LEMMA NatInduct == ASSUME NEW S, 0 \in S, \A n \in Nat : n \in S => n + 1 \in S PROVE Nat \subseteq S
<1> SUFFICES ASSUME Nat \ S # {} PROVE FALSE
  OBVIOUS
<1>1. PICK n \in Nat \ S : \A m \in Nat \ S : n <= m
  BY NatMin
<1>2. n # 0
  OBVIOUS
<1>3. n - 1 \in Nat /\ n - 1 \in S
  BY <1>1, <1>2
<1> QED
  BY <1>3, <1>1

\* Induction over the sequences, one more element at the end.
LEMMA SeqInduct ==
  ASSUME NEW T, NEW P, <<>> \in P, \A s \in Seq(T), t \in T : s \in P => Append(s, t) \in P
  PROVE  Seq(T) \subseteq P
<1> DEFINE N == {n \in Nat : \A s \in Seq(T) : Len(s) = n => s \in P}
<1>1. 0 \in N
  BY EmptySeq
<1>2. ASSUME NEW n \in Nat, n \in N PROVE n + 1 \in N
  <2> SUFFICES ASSUME NEW s \in Seq(T), Len(s) = n + 1 PROVE s \in P
    OBVIOUS
  <2>1. s # <<>>
    OBVIOUS
  <2>2. PICK r \in Seq(T) : \E t \in T : s = Append(r, t)
    BY <2>1, SequenceEmptyOrAppend
  <2>3. PICK t \in T : s = Append(r, t)
    BY <2>2
  <2>4. Len(r) = n
    BY <2>3
  <2>5. r \in P
    BY <1>2, <2>4
  <2> QED
    BY <2>3, <2>5
<1> HIDE DEF N
<1>3. Nat \subseteq N
  BY <1>1, <1>2, NatInduct
<1> QED
  BY <1>3, LenProperties DEF N

\* The states of a scan from s, one for each token of the text read.
FeedTrace(s, text, f) == f = [i \in 0..Len(text) |-> IF i = 0 THEN s ELSE Feed(f[i - 1], text[i])]

\* The same, token by token.
FeedSteps(s, text, f) == f[0] = s /\ \A i \in 1..Len(text) : f[i] = Feed(f[i - 1], text[i])

\* A trace holds the state after each token of the text.
LEMMA FeedTraceSteps ==
  ASSUME NEW s, NEW T, NEW text \in Seq(T), NEW f, FeedTrace(s, text, f)
  PROVE  FeedSteps(s, text, f)
<1>1. \A i \in 0..Len(text) : f[i] = IF i = 0 THEN s ELSE Feed(f[i - 1], text[i])
  BY DEF FeedTrace
<1>2. 0 \in 0..Len(text) /\ \A i \in 1..Len(text) : i \in 0..Len(text) /\ i # 0
  OBVIOUS
<1> QED
  BY <1>1, <1>2 DEF FeedSteps

\* What holds the state after each token is a trace.
LEMMA FeedTraceIf ==
  ASSUME NEW s, NEW T, NEW text \in Seq(T), NEW f, f = [i \in 0..Len(text) |-> f[i]], FeedSteps(s, text, f)
  PROVE  FeedTrace(s, text, f)
<1> DEFINE h == [i \in 0..Len(text) |-> IF i = 0 THEN s ELSE Feed(f[i - 1], text[i])]
<1>1. \A i \in 0..Len(text) : f[i] = h[i]
  <2> TAKE i \in 0..Len(text)
  <2>1. CASE i = 0
    BY <2>1 DEF FeedSteps
  <2>2. CASE i # 0
    <3>1. i \in 1..Len(text)
      BY <2>2
    <3>2. f[i] = Feed(f[i - 1], text[i])
      BY <3>1 DEF FeedSteps
    <3> QED
      BY <2>2, <3>2
  <2> QED
    BY <2>1, <2>2
<1>2. [i \in 0..Len(text) |-> f[i]] = h
  BY <1>1
<1>3. f = h
  BY <1>2, Zenon
<1> QED
  BY <1>3, Zenon DEF FeedTrace

\* Every text has a trace: the recursion of Fed is well-founded.
LEMMA FeedTraceExists == ASSUME NEW s, NEW T, NEW text \in Seq(T) PROVE \E f : FeedTrace(s, text, f)
<1> DEFINE P == {x \in Seq(T) : \E f : FeedTrace(s, x, f)}
<1>1. <<>> \in P
  <2> DEFINE g == [i \in 0..0 |-> s]
  <2>1. Len(<<>>) = 0 /\ <<>> \in Seq(T) /\ g = [i \in 0..0 |-> g[i]] /\ g[0] = s
    OBVIOUS
  <2> HIDE DEF g
  <2>2. FeedTrace(s, <<>>, g)
    <3>1. FeedSteps(s, <<>>, g)
      BY <2>1 DEF FeedSteps
    <3>2. g = [i \in 0..Len(<<>>) |-> g[i]]
      BY <2>1
    <3> QED
      BY <2>1, <3>1, <3>2, FeedTraceIf, Zenon
  <2> QED
    BY <2>1, <2>2
<1>2. ASSUME NEW x \in Seq(T), NEW t \in T, x \in P PROVE Append(x, t) \in P
  <2>1. PICK f : FeedTrace(s, x, f)
    BY <1>2
  <2> DEFINE n == Len(x)
             g == [i \in 0..(n + 1) |-> IF i = n + 1 THEN Feed(f[n], t) ELSE f[i]]
             y == Append(x, t)
  <2>2. n \in Nat /\ y \in Seq(T) /\ Len(y) = n + 1 /\ y[n + 1] = t /\ \A i \in 1..n : y[i] = x[i]
    OBVIOUS
  <2>3. f[0] = s /\ \A i \in 1..n : f[i] = Feed(f[i - 1], x[i])
    <3>1. FeedSteps(s, x, f)
      BY <2>1, FeedTraceSteps, Zenon
    <3> QED
      BY <3>1 DEF FeedSteps
  <2> HIDE DEF n, y
  <2>4. g = [i \in 0..(n + 1) |-> g[i]] /\ g[n + 1] = Feed(f[n], t)
    BY <2>2
  <2>5. \A i \in 0..n : g[i] = f[i]
    BY <2>2
  <2> HIDE DEF g
  <2>6. g[0] = s
    BY <2>2, <2>3, <2>5
  <2>7. ASSUME NEW i \in 1..(n + 1) PROVE g[i] = Feed(g[i - 1], y[i])
    <3>1. CASE i \in 1..n
      <4>1. i \in 0..n /\ i - 1 \in 0..n
        BY <3>1, <2>2
      <4> QED
        BY <2>2, <2>3, <2>5, <3>1, <4>1
    <3>2. CASE i = n + 1
      <4>1. i - 1 = n /\ n \in 0..n
        BY <3>2, <2>2
      <4> QED
        BY <2>2, <2>4, <2>5, <3>2, <4>1
    <3> QED
      BY <2>2, <3>1, <3>2
  <2>8. FeedTrace(s, y, g)
    <3>1. FeedSteps(s, y, g)
      BY <2>2, <2>6, <2>7 DEF FeedSteps
    <3>2. g = [i \in 0..Len(y) |-> g[i]]
      BY <2>2, <2>4
    <3> QED
      BY <2>2, <3>1, <3>2, FeedTraceIf, Zenon
  <2> QED
    BY <2>2, <2>8 DEF y
<1> HIDE DEF P
<1>3. text \in P
  BY <1>1, <1>2, SeqInduct
<1> QED
  BY <1>3 DEF P

\* Fed is the end of a trace.
LEMMA FedByTrace ==
  ASSUME NEW s, NEW T, NEW text \in Seq(T)
  PROVE  \E f : FeedTrace(s, text, f) /\ Fed(s, text) = f[Len(text)]
<1>1. FeedTrace(s, text, CHOOSE f : FeedTrace(s, text, f))
  BY FeedTraceExists, Zenon
<1>2. Fed(s, text) = (CHOOSE f : FeedTrace(s, text, f))[Len(text)]
  BY Zenon DEF Fed, FeedTrace
<1> QED
  BY <1>1, <1>2

\* A text has one trace.
LEMMA FeedStepsUnique ==
  ASSUME NEW s, NEW T, NEW text \in Seq(T), NEW f, NEW g, FeedSteps(s, text, f), FeedSteps(s, text, g)
  PROVE  \A n \in 0..Len(text) : f[n] = g[n]
<1> DEFINE N == {n \in Nat : n \in 0..Len(text) => f[n] = g[n]}
<1>2. 0 \in N
  BY DEF FeedSteps
<1>3. ASSUME NEW n \in Nat, n \in N PROVE n + 1 \in N
  <2> SUFFICES ASSUME n + 1 \in 0..Len(text) PROVE f[n + 1] = g[n + 1]
    OBVIOUS
  <2>1. n \in 0..Len(text) /\ n + 1 \in 1..Len(text) /\ (n + 1) - 1 = n
    OBVIOUS
  <2> QED
    BY <1>3, <2>1 DEF FeedSteps
<1> HIDE DEF N
<1>4. Nat \subseteq N
  BY <1>2, <1>3, NatInduct
<1> QED
  BY <1>4 DEF N

\* Nothing read changes nothing.
LEMMA FedNone == ASSUME NEW s PROVE Fed(s, <<>>) = s
<1>1. <<>> \in Seq({}) /\ Len(<<>>) = 0
  OBVIOUS
<1>2. PICK f : FeedTrace(s, <<>>, f) /\ Fed(s, <<>>) = f[0]
  BY <1>1, FedByTrace
<1>3. FeedSteps(s, <<>>, f)
  BY <1>1, <1>2, FeedTraceSteps, Zenon
<1> QED
  BY <1>2, <1>3 DEF FeedSteps

\* One more token read is one more step: the equation Fed is defined by.
LEMMA FedMore ==
  ASSUME NEW s, NEW T, NEW text \in Seq(T), NEW t \in T
  PROVE  Fed(s, Append(text, t)) = Feed(Fed(s, text), t)
<1> DEFINE more == Append(text, t)
           n == Len(text)
<1>1. n \in Nat /\ more \in Seq(T) /\ Len(more) = n + 1 /\ more[n + 1] = t
  OBVIOUS
<1>2. \A i \in 1..n : more[i] = text[i]
  OBVIOUS
<1> HIDE DEF more
<1>3. PICK g : FeedTrace(s, more, g) /\ Fed(s, more) = g[n + 1]
  BY <1>1, FedByTrace
<1>4. FeedSteps(s, more, g)
  BY <1>1, <1>3, FeedTraceSteps, Zenon
<1>5. PICK f : FeedTrace(s, text, f) /\ Fed(s, text) = f[n]
  BY FedByTrace
<1>6. FeedSteps(s, text, f)
  BY <1>5, FeedTraceSteps, Zenon
<1>7. FeedSteps(s, text, g)
  BY <1>1, <1>2, <1>4 DEF FeedSteps
<1>8. f[n] = g[n]
  <2>1. n \in 0..Len(text)
    BY <1>1
  <2>2. \A m \in 0..Len(text) : f[m] = g[m]
    BY <1>6, <1>7, FeedStepsUnique
  <2> QED
    BY <2>1, <2>2
<1>9. g[n + 1] = Feed(g[n], t)
  <2>1. n + 1 \in 1..Len(more) /\ (n + 1) - 1 = n
    BY <1>1
  <2> QED
    BY <1>1, <1>4, <2>1 DEF FeedSteps
<1> QED
  BY <1>3, <1>5, <1>8, <1>9 DEF more
\* The states of heater_problem, one for each word of the line.
WordTrace(words, f) == f = [i \in 0..Len(words) |-> IF i = 0 THEN Cold ELSE Word(f[i - 1], words[i])]

\* The same, word by word.
WordSteps(words, f) == f[0] = Cold /\ \A i \in 1..Len(words) : f[i] = Word(f[i - 1], words[i])

\* The same of the words of a line: a trace holds the state after each of them.
LEMMA WordTraceSteps ==
  ASSUME NEW T, NEW words \in Seq(T), NEW f, WordTrace(words, f)
  PROVE  WordSteps(words, f)
<1>1. \A i \in 0..Len(words) : f[i] = IF i = 0 THEN Cold ELSE Word(f[i - 1], words[i])
  BY DEF WordTrace
<1>2. 0 \in 0..Len(words) /\ \A i \in 1..Len(words) : i \in 0..Len(words) /\ i # 0
  OBVIOUS
<1> QED
  BY <1>1, <1>2 DEF WordSteps

\* What holds the state after each word is a trace.
LEMMA WordTraceIf ==
  ASSUME NEW T, NEW words \in Seq(T), NEW f, f = [i \in 0..Len(words) |-> f[i]], WordSteps(words, f)
  PROVE  WordTrace(words, f)
<1> DEFINE h == [i \in 0..Len(words) |-> IF i = 0 THEN Cold ELSE Word(f[i - 1], words[i])]
<1>1. \A i \in 0..Len(words) : f[i] = h[i]
  <2> TAKE i \in 0..Len(words)
  <2>1. CASE i = 0
    BY <2>1 DEF WordSteps
  <2>2. CASE i # 0
    <3>1. i \in 1..Len(words)
      BY <2>2
    <3>2. f[i] = Word(f[i - 1], words[i])
      BY <3>1 DEF WordSteps
    <3> QED
      BY <2>2, <3>2
  <2> QED
    BY <2>1, <2>2
<1>2. [i \in 0..Len(words) |-> f[i]] = h
  BY <1>1
<1>3. f = h
  BY <1>2, Zenon
<1> QED
  BY <1>3, Zenon DEF WordTrace

\* Every line has a trace.
LEMMA WordTraceExists == ASSUME NEW T, NEW words \in Seq(T) PROVE \E f : WordTrace(words, f)
<1> DEFINE P == {x \in Seq(T) : \E f : WordTrace(x, f)}
<1>1. <<>> \in P
  <2> DEFINE g == [i \in 0..0 |-> Cold]
  <2>1. Len(<<>>) = 0 /\ <<>> \in Seq(T) /\ g = [i \in 0..0 |-> g[i]] /\ g[0] = Cold
    OBVIOUS
  <2> HIDE DEF g
  <2>2. WordTrace(<<>>, g)
    <3>1. WordSteps(<<>>, g)
      BY <2>1 DEF WordSteps
    <3>2. g = [i \in 0..Len(<<>>) |-> g[i]]
      BY <2>1
    <3> QED
      BY <2>1, <3>1, <3>2, WordTraceIf, Zenon
  <2> QED
    BY <2>1, <2>2
<1>2. ASSUME NEW x \in Seq(T), NEW t \in T, x \in P PROVE Append(x, t) \in P
  <2>1. PICK f : WordTrace(x, f)
    BY <1>2
  <2> DEFINE n == Len(x)
             g == [i \in 0..(n + 1) |-> IF i = n + 1 THEN Word(f[n], t) ELSE f[i]]
             y == Append(x, t)
  <2>2. n \in Nat /\ y \in Seq(T) /\ Len(y) = n + 1 /\ y[n + 1] = t /\ \A i \in 1..n : y[i] = x[i]
    OBVIOUS
  <2>3. f[0] = Cold /\ \A i \in 1..n : f[i] = Word(f[i - 1], x[i])
    <3>1. WordSteps(x, f)
      BY <2>1, WordTraceSteps, Zenon
    <3> QED
      BY <3>1 DEF WordSteps
  <2> HIDE DEF n, y
  <2>4. g = [i \in 0..(n + 1) |-> g[i]] /\ g[n + 1] = Word(f[n], t)
    BY <2>2
  <2>5. \A i \in 0..n : g[i] = f[i]
    BY <2>2
  <2> HIDE DEF g
  <2>6. g[0] = Cold
    BY <2>2, <2>3, <2>5
  <2>7. ASSUME NEW i \in 1..(n + 1) PROVE g[i] = Word(g[i - 1], y[i])
    <3>1. CASE i \in 1..n
      <4>1. i \in 0..n /\ i - 1 \in 0..n
        BY <3>1, <2>2
      <4> QED
        BY <2>2, <2>3, <2>5, <3>1, <4>1
    <3>2. CASE i = n + 1
      <4>1. i - 1 = n /\ n \in 0..n
        BY <3>2, <2>2
      <4> QED
        BY <2>2, <2>4, <2>5, <3>2, <4>1
    <3> QED
      BY <2>2, <3>1, <3>2
  <2>8. WordTrace(y, g)
    <3>1. WordSteps(y, g)
      BY <2>2, <2>6, <2>7 DEF WordSteps
    <3>2. g = [i \in 0..Len(y) |-> g[i]]
      BY <2>2, <2>4
    <3> QED
      BY <2>2, <3>1, <3>2, WordTraceIf, Zenon
  <2> QED
    BY <2>2, <2>8 DEF y
<1> HIDE DEF P
<1>3. words \in P
  BY <1>1, <1>2, SeqInduct
<1> QED
  BY <1>3 DEF P

\* Parsed is the end of a trace.
LEMMA ParsedByTrace ==
  ASSUME NEW T, NEW words \in Seq(T)
  PROVE  \E f : WordTrace(words, f) /\ Parsed(words) = f[Len(words)]
<1>1. WordTrace(words, CHOOSE f : WordTrace(words, f))
  BY WordTraceExists, Zenon
<1>2. Parsed(words) = (CHOOSE f : WordTrace(words, f))[Len(words)]
  BY Zenon DEF Parsed, WordTrace
<1> QED
  BY <1>1, <1>2

\* A line has one trace.
LEMMA WordStepsUnique ==
  ASSUME NEW T, NEW words \in Seq(T), NEW f, NEW g, WordSteps(words, f), WordSteps(words, g)
  PROVE  \A n \in 0..Len(words) : f[n] = g[n]
<1> DEFINE N == {n \in Nat : n \in 0..Len(words) => f[n] = g[n]}
<1>2. 0 \in N
  BY DEF WordSteps
<1>3. ASSUME NEW n \in Nat, n \in N PROVE n + 1 \in N
  <2> SUFFICES ASSUME n + 1 \in 0..Len(words) PROVE f[n + 1] = g[n + 1]
    OBVIOUS
  <2>1. n \in 0..Len(words) /\ n + 1 \in 1..Len(words) /\ (n + 1) - 1 = n
    OBVIOUS
  <2> QED
    BY <1>3, <2>1 DEF WordSteps
<1> HIDE DEF N
<1>4. Nat \subseteq N
  BY <1>2, <1>3, NatInduct
<1> QED
  BY <1>4 DEF N

\* A line of no words sets no heater.
LEMMA ParsedNone == Parsed(<<>>) = Cold
<1>1. <<>> \in Seq({}) /\ Len(<<>>) = 0
  OBVIOUS
<1>2. PICK f : WordTrace(<<>>, f) /\ Parsed(<<>>) = f[0]
  BY <1>1, ParsedByTrace
<1>3. WordSteps(<<>>, f)
  BY <1>1, <1>2, WordTraceSteps, Zenon
<1> QED
  BY <1>2, <1>3 DEF WordSteps

\* One more word is one more turn of the loop of heater_problem.
LEMMA ParsedMore ==
  ASSUME NEW T, NEW words \in Seq(T), NEW t \in T
  PROVE  Parsed(Append(words, t)) = Word(Parsed(words), t)
<1> DEFINE more == Append(words, t)
           n == Len(words)
<1>1. n \in Nat /\ more \in Seq(T) /\ Len(more) = n + 1 /\ more[n + 1] = t
  OBVIOUS
<1>2. \A i \in 1..n : more[i] = words[i]
  OBVIOUS
<1> HIDE DEF more
<1>3. PICK g : WordTrace(more, g) /\ Parsed(more) = g[n + 1]
  BY <1>1, ParsedByTrace
<1>4. WordSteps(more, g)
  BY <1>1, <1>3, WordTraceSteps, Zenon
<1>5. PICK f : WordTrace(words, f) /\ Parsed(words) = f[n]
  BY ParsedByTrace
<1>6. WordSteps(words, f)
  BY <1>5, WordTraceSteps, Zenon
<1>7. WordSteps(words, g)
  BY <1>1, <1>2, <1>4 DEF WordSteps
<1>8. f[n] = g[n]
  <2>1. n \in 0..Len(words)
    BY <1>1
  <2>2. \A m \in 0..Len(words) : f[m] = g[m]
    BY <1>6, <1>7, WordStepsUnique
  <2> QED
    BY <2>1, <2>2
<1>9. g[n + 1] = Word(g[n], t)
  <2>1. n + 1 \in 1..Len(more) /\ (n + 1) - 1 = n
    BY <1>1
  <2> QED
    BY <1>1, <1>4, <2>1 DEF WordSteps
<1> QED
  BY <1>3, <1>5, <1>8, <1>9 DEF more

\* A line has no line break.
Unbroken == Seq(Tokens \ {"CR", "LF"})
\* The states of a scan.
Scans == [lines : Seq(Seq(Tokens)), line : Unbroken, cr : BOOLEAN]
\* A scan that has given out the lines ls, at the start of a line.
From(ls) == [lines |-> ls, line |-> <<>>, cr |-> FALSE]
\* The scan s, with the lines ls given out before it.
Behind(ls, s) == [lines |-> ls \o s.lines, line |-> s.line, cr |-> s.cr]

\* A line is a text.
LEMMA PlainText == ASSUME NEW w \in Unbroken PROVE w \in Seq(Tokens)
BY DEF Unbroken

\* A token leads from a state of the scan to another, that remembers if it was a CR.
LEMMA FeedTyped ==
  ASSUME NEW s \in Scans, NEW t \in Tokens
  PROVE  Feed(s, t) \in Scans /\ (Feed(s, t).cr <=> t = "CR")
<1>1. s.lines \in Seq(Seq(Tokens)) /\ s.line \in Unbroken /\ s.line \in Seq(Tokens) /\ s.cr \in BOOLEAN
  BY PlainText DEF Scans
<1>2. Append(s.lines, s.line) \in Seq(Seq(Tokens)) /\ <<>> \in Unbroken
  BY <1>1 DEF Unbroken
<1>3. CASE t = "LF" /\ s.cr
  BY <1>1, <1>3 DEF Feed, Scans
<1>4. CASE t = "LF" /\ ~s.cr
  BY <1>1, <1>2, <1>4 DEF Feed, Scans
<1>5. CASE t = "CR"
  BY <1>1, <1>2, <1>5 DEF Feed, Scans
<1>6. CASE t \notin {"CR", "LF"}
  <2>1. Append(s.line, t) \in Unbroken
    BY <1>1, <1>6 DEF Unbroken
  <2>2. Feed(s, t) = [lines |-> s.lines, line |-> Append(s.line, t), cr |-> FALSE]
    BY <1>6 DEF Feed
  <2> QED
    <3>1. Feed(s, t) \in Scans
      BY <1>1, <2>1, <2>2 DEF Scans
    <3>2. Feed(s, t).cr = FALSE
      BY <2>2
    <3> QED
      BY <1>6, <3>1, <3>2
<1> QED
  BY <1>1, <1>3, <1>4, <1>5, <1>6

\* So does a text.
LEMMA FedTyped == ASSUME NEW s \in Scans, NEW text \in Seq(Tokens) PROVE Fed(s, text) \in Scans
<1> DEFINE P == {x \in Seq(Tokens) : Fed(s, x) \in Scans}
<1>1. <<>> \in P
  BY FedNone, EmptySeq
<1>2. ASSUME NEW x \in Seq(Tokens), NEW t \in Tokens, x \in P PROVE Append(x, t) \in P
  <2>1. Fed(s, Append(x, t)) = Feed(Fed(s, x), t) /\ Append(x, t) \in Seq(Tokens)
    BY FedMore
  <2> QED
    BY <1>2, <2>1, FeedTyped
<1> HIDE DEF P
<1>3. text \in P
  BY <1>1, <1>2, SeqInduct
<1> QED
  BY <1>3 DEF P

\* Two texts one after the other are read as their concatenation.
LEMMA FedJoin ==
  ASSUME NEW s, NEW a \in Seq(Tokens), NEW b \in Seq(Tokens)
  PROVE  Fed(s, a \o b) = Fed(Fed(s, a), b)
<1> DEFINE P == {x \in Seq(Tokens) : Fed(s, a \o x) = Fed(Fed(s, a), x)}
<1>1. <<>> \in P
  <2>1. a \o <<>> = a /\ <<>> \in Seq(Tokens)
    OBVIOUS
  <2> QED
    BY <2>1, FedNone
<1>2. ASSUME NEW x \in Seq(Tokens), NEW t \in Tokens, x \in P PROVE Append(x, t) \in P
  <2>1. a \o Append(x, t) = Append(a \o x, t) /\ a \o x \in Seq(Tokens) /\ Append(x, t) \in Seq(Tokens)
    OBVIOUS
  <2>2. Fed(s, Append(a \o x, t)) = Feed(Fed(s, a \o x), t)
    <3> DEFINE c == a \o x
    <3>1. c \in Seq(Tokens)
      BY <2>1
    <3> HIDE DEF c
    <3>2. Fed(s, Append(c, t)) = Feed(Fed(s, c), t)
      BY <3>1, FedMore
    <3> QED
      BY <3>2 DEF c
  <2>3. Fed(Fed(s, a), Append(x, t)) = Feed(Fed(Fed(s, a), x), t)
    BY FedMore
  <2> QED
    BY <1>2, <2>1, <2>2, <2>3
<1> HIDE DEF P
<1>3. b \in P
  BY <1>1, <1>2, SeqInduct
<1> QED
  BY <1>3 DEF P

\* Append and concatenation.
LEMMA AppendJoin ==
  ASSUME NEW T, NEW a \in Seq(T), NEW b \in Seq(T), NEW t \in T
  PROVE  a \o Append(b, t) = Append(a \o b, t)
OBVIOUS

\* Lines cut before make no difference to what a token does.
LEMMA FeedBehind ==
  ASSUME NEW ls \in Seq(Seq(Tokens)), NEW s \in Scans, NEW t \in Tokens
  PROVE  Feed(Behind(ls, s), t) = Behind(ls, Feed(s, t))
<1>1. s.lines \in Seq(Seq(Tokens)) /\ s.line \in Seq(Tokens) /\ s.cr \in BOOLEAN
  BY PlainText DEF Scans
<1>2. ls \o Append(s.lines, s.line) = Append(ls \o s.lines, s.line)
  <2> DEFINE T == Seq(Tokens)
             a == s.lines
             b == s.line
  <2>1. ls \in Seq(T) /\ a \in Seq(T) /\ b \in T
    BY <1>1
  <2> HIDE DEF T, a, b
  <2>2. ls \o Append(a, b) = Append(ls \o a, b)
    BY <2>1, AppendJoin
  <2> QED
    BY <2>2 DEF a, b
<1>3. CASE t = "LF" /\ s.cr
  BY <1>3 DEF Feed, Behind, Scans
<1>4. CASE t = "LF" /\ ~s.cr
  BY <1>2, <1>4 DEF Feed, Behind
<1>5. CASE t = "CR"
  BY <1>2, <1>5 DEF Feed, Behind
<1>6. CASE t \notin {"CR", "LF"}
  BY <1>6 DEF Feed, Behind
<1> QED
  BY <1>1, <1>3, <1>4, <1>5, <1>6

\* Nor to what a text does.
LEMMA FedBehind ==
  ASSUME NEW ls \in Seq(Seq(Tokens)), NEW s \in Scans, NEW text \in Seq(Tokens)
  PROVE  Fed(Behind(ls, s), text) = Behind(ls, Fed(s, text))
<1> DEFINE P == {x \in Seq(Tokens) : Fed(Behind(ls, s), x) = Behind(ls, Fed(s, x))}
<1>1. <<>> \in P
  BY FedNone, EmptySeq
<1>2. ASSUME NEW x \in Seq(Tokens), NEW t \in Tokens, x \in P PROVE Append(x, t) \in P
  <2>1. Fed(Behind(ls, s), Append(x, t)) = Feed(Fed(Behind(ls, s), x), t)
    BY FedMore
  <2>2. Fed(s, Append(x, t)) = Feed(Fed(s, x), t) /\ Append(x, t) \in Seq(Tokens)
    BY FedMore
  <2>3. Fed(s, x) \in Scans
    BY FedTyped
  <2> QED
    BY <1>2, <2>1, <2>2, <2>3, FeedBehind
<1> HIDE DEF P
<1>3. text \in P
  BY <1>1, <1>2, SeqInduct
<1> QED
  BY <1>3 DEF P

\* A text with no line break is one line.
LEMMA FedPlain ==
  ASSUME NEW ls, NEW w \in Unbroken
  PROVE  Fed(From(ls), w) = [lines |-> ls, line |-> w, cr |-> FALSE]
<1> DEFINE P == {x \in Unbroken : Fed(From(ls), x) = [lines |-> ls, line |-> x, cr |-> FALSE]}
<1>1. <<>> \in P
  BY FedNone, EmptySeq DEF From, Unbroken
<1>2. ASSUME NEW x \in Unbroken, NEW t \in Tokens \ {"CR", "LF"}, x \in P PROVE Append(x, t) \in P
  <2>1. Fed(From(ls), Append(x, t)) = Feed(Fed(From(ls), x), t) /\ Append(x, t) \in Unbroken
    BY FedMore DEF Unbroken
  <2>2. Feed([lines |-> ls, line |-> x, cr |-> FALSE], t)
          = [lines |-> ls, line |-> Append(x, t), cr |-> FALSE]
    BY DEF Feed
  <2> QED
    BY <1>2, <2>1, <2>2
<1> HIDE DEF P
<1>3. w \in P
  BY <1>1, <1>2, SeqInduct DEF Unbroken
<1> QED
  BY <1>3 DEF P

\* A text ends in its last token.
LEMMA FedReturn ==
  ASSUME NEW s, NEW text \in Seq(Tokens), text # <<>>
  PROVE  Fed(s, text) = Feed(Fed(s, Front(text)), Last(text)) /\ Front(text) \in Seq(Tokens)
         /\ Last(text) \in Tokens
<1>1. PICK a \in Seq(Tokens) : \E t \in Tokens : text = Append(a, t)
  BY SequenceEmptyOrAppend
<1>2. PICK t \in Tokens : text = Append(a, t)
  BY <1>1
<1>3. Front(text) = a /\ Last(text) = t
  BY <1>2 DEF Front, Last
<1> QED
  BY <1>2, <1>3, FedMore

\* The front and the last of an appended sequence.
LEMMA AppendEnds ==
  ASSUME NEW T, NEW a \in Seq(T), NEW t \in T
  PROVE  /\ Append(a, t) \in Seq(T) /\ Append(a, t) # <<>>
         /\ Front(Append(a, t)) = a /\ Last(Append(a, t)) = t
<1> DEFINE b == Append(a, t)
<1>1. b \in Seq(T) /\ b # <<>> /\ Len(b) = Len(a) + 1 /\ b[Len(a) + 1] = t
  OBVIOUS
<1>2. \A i \in 1..Len(a) : b[i] = a[i]
  OBVIOUS
<1> HIDE DEF b
<1>3. Front(b) = SubSeq(b, 1, Len(a)) /\ Last(b) = t
  BY <1>1 DEF Front, Last
<1>4. SubSeq(b, 1, Len(a)) = a
  BY <1>1, <1>2
<1> QED
  BY <1>1, <1>3, <1>4 DEF b

\* _EOL.split: its parts are the lines cut off and the line under way.
LEMMA SplitIs ==
  ASSUME NEW text \in Seq(Tokens)
  PROVE  /\ Fed(Uncut, text) \in Scans
         /\ Split(text) = Append(Fed(Uncut, text).lines, Fed(Uncut, text).line)
         /\ Split(text) \in Seq(Seq(Tokens)) /\ Split(text) # <<>>
         /\ Front(Split(text)) = Fed(Uncut, text).lines
         /\ Last(Split(text)) = Fed(Uncut, text).line
<1>1. Uncut \in Scans
  BY EmptySeq DEF Uncut, Scans, Unbroken
<1>2. Fed(Uncut, text) \in Scans
  BY <1>1, FedTyped
<1> DEFINE ls == Fed(Uncut, text).lines
           l == Fed(Uncut, text).line
<1>3. ls \in Seq(Seq(Tokens)) /\ l \in Seq(Tokens)
  BY <1>2, PlainText DEF Scans
<1>4. Split(text) = Append(ls, l)
  BY DEF Split
<1> HIDE DEF ls, l
<1>5. /\ Append(ls, l) \in Seq(Seq(Tokens)) /\ Append(ls, l) # <<>>
      /\ Front(Append(ls, l)) = ls /\ Last(Append(ls, l)) = l
  BY <1>3, AppendEnds
<1> QED
  BY <1>2, <1>4, <1>5 DEF ls, l

\* Whatever the chunk ends in, a CR held back or not, its lines and what is pending read as the chunk.
LEMMA CutKeepsText ==
  ASSUME NEW data \in Seq(Tokens)
  PROVE  /\ Cut(data).lines \in Seq(Seq(Tokens)) /\ Cut(data).pending \in Seq(Tokens)
         /\ Fed(Uncut, data) = Fed(From(Cut(data).lines), Cut(data).pending)
<1>1. CASE data # <<>> /\ Last(data) = "CR"
  <2> DEFINE fed == Fed(Uncut, Front(data))
  <2>1. Front(data) \in Seq(Tokens) /\ "CR" \in Tokens /\ Fed(Uncut, data) = Feed(fed, "CR")
    BY <1>1, FedReturn
  <2>2. Cut(data) = [lines |-> fed.lines, pending |-> fed.line \o <<"CR">>]
    BY <1>1, <2>1, SplitIs DEF Cut
  <2>3. fed \in Scans
    BY <2>1, SplitIs
  <2> HIDE DEF fed
  <2>4. fed.lines \in Seq(Seq(Tokens)) /\ fed.line \in Unbroken /\ fed.line \in Seq(Tokens)
    BY <2>3, PlainText DEF Scans
  <2>5. fed.line \o <<"CR">> = Append(fed.line, "CR") /\ Append(fed.line, "CR") \in Seq(Tokens)
    BY <2>1, <2>4
  <2>6. Fed(From(fed.lines), Append(fed.line, "CR"))
          = Feed([lines |-> fed.lines, line |-> fed.line, cr |-> FALSE], "CR")
    <3>1. Fed(From(fed.lines), Append(fed.line, "CR")) = Feed(Fed(From(fed.lines), fed.line), "CR")
      BY <2>1, <2>4, FedMore
    <3>2. Fed(From(fed.lines), fed.line) = [lines |-> fed.lines, line |-> fed.line, cr |-> FALSE]
      BY <2>4, FedPlain
    <3> QED
      BY <3>1, <3>2
  <2>7. Feed([lines |-> fed.lines, line |-> fed.line, cr |-> FALSE], "CR") = Feed(fed, "CR")
    BY DEF Feed
  <2>8. Cut(data).lines = fed.lines /\ Cut(data).pending = Append(fed.line, "CR")
    BY <2>2, <2>5
  <2> QED
    BY <2>1, <2>4, <2>5, <2>6, <2>7, <2>8
<1>2. CASE ~(data # <<>> /\ Last(data) = "CR")
  <2> DEFINE fed == Fed(Uncut, data)
  <2>1. fed \in Scans
    BY SplitIs
  <2>2. Cut(data) = [lines |-> fed.lines, pending |-> fed.line \o <<>>]
    BY <1>2, SplitIs DEF Cut
  <2>3. fed.cr = FALSE
    <3>1. CASE data = <<>>
      BY <3>1, FedNone DEF Uncut
    <3>2. CASE data # <<>>
      <4>1. fed = Feed(Fed(Uncut, Front(data)), Last(data)) /\ Front(data) \in Seq(Tokens)
            /\ Last(data) \in Tokens
        BY <3>2, FedReturn
      <4>2. Fed(Uncut, Front(data)) \in Scans
        BY <4>1, SplitIs
      <4>3. ~fed.cr
        BY <1>2, <3>2, <4>1, <4>2, FeedTyped
      <4> QED
        BY <2>1, <4>3 DEF Scans
    <3> QED
      BY <3>1, <3>2
  <2> HIDE DEF fed
  <2>4. fed.lines \in Seq(Seq(Tokens)) /\ fed.line \in Unbroken /\ fed.line \in Seq(Tokens)
    BY <2>1, PlainText DEF Scans
  <2>5. fed.line \o <<>> = fed.line
    BY <2>4
  <2>6. Fed(From(fed.lines), fed.line) = [lines |-> fed.lines, line |-> fed.line, cr |-> FALSE]
    BY <2>4, FedPlain
  <2>7. fed = [lines |-> fed.lines, line |-> fed.line, cr |-> FALSE]
    BY <2>1, <2>3 DEF Scans
  <2>8. Cut(data).lines = fed.lines /\ Cut(data).pending = fed.line
    BY <2>2, <2>5
  <2> QED
    BY <2>4, <2>6, <2>7, <2>8 DEF fed
<1> QED
  BY <1>1, <1>2

\* The lines given out and the rest read as the text: what every chunk keeps.
Balanced(ls, rest, text) == Fed(Uncut, text) = Fed(From(ls), rest)

\* In balance, the lines given out and those of the rest are the lines of the text.
LEMMA BalancedSplits ==
  ASSUME NEW ls \in Seq(Seq(Tokens)), NEW rest \in Seq(Tokens), NEW text \in Seq(Tokens),
         Balanced(ls, rest, text)
  PROVE  Split(text) = ls \o Split(rest)
<1> DEFINE fed == Fed(Uncut, rest)
<1>1. fed \in Scans
  BY SplitIs
<1>2. From(ls) = Behind(ls, Uncut) /\ Uncut \in Scans
  BY EmptySeq DEF From, Behind, Uncut, Scans, Unbroken
<1>3. Fed(Uncut, text) = Behind(ls, fed)
  BY <1>2, FedBehind DEF Balanced
<1>4. Split(text) = Append(Fed(Uncut, text).lines, Fed(Uncut, text).line)
      /\ Split(rest) = Append(fed.lines, fed.line)
  BY SplitIs
<1> HIDE DEF fed
<1> DEFINE T == Seq(Tokens)
           a == fed.lines
           b == fed.line
<1>5. ls \in Seq(T) /\ a \in Seq(T) /\ b \in T
  BY <1>1, PlainText DEF Scans
<1>6. Split(text) = Append(ls \o fed.lines, fed.line)
  BY <1>3, <1>4 DEF Behind
<1>7. ls \o Append(fed.lines, fed.line) = Append(ls \o fed.lines, fed.line)
  <2> HIDE DEF T, a, b
  <2>1. ls \o Append(a, b) = Append(ls \o a, b)
    BY <1>5, AppendJoin
  <2> QED
    BY <2>1 DEF a, b
<1> QED
  BY <1>4, <1>6, <1>7

\* One chunk keeps the balance.
LEMMA BalancedChunk ==
  ASSUME NEW ls \in Seq(Seq(Tokens)), NEW rest \in Seq(Tokens), NEW text \in Seq(Tokens),
         NEW chunk \in Seq(Tokens), Balanced(ls, rest, text)
  PROVE  Balanced(ls \o Cut(rest \o chunk).lines, Cut(rest \o chunk).pending, text \o chunk)
<1> DEFINE data == rest \o chunk
           cut == Cut(data)
<1>1. data \in Seq(Tokens)
  OBVIOUS
<1>2. cut.lines \in Seq(Seq(Tokens)) /\ cut.pending \in Seq(Tokens)
      /\ Fed(Uncut, data) = Fed(From(cut.lines), cut.pending)
  BY <1>1, CutKeepsText
<1>3. Fed(Uncut, text \o chunk) = Fed(From(ls), data)
  BY FedJoin DEF Balanced
<1>4. From(ls) = Behind(ls, Uncut) /\ Uncut \in Scans
  BY EmptySeq DEF From, Behind, Uncut, Scans, Unbroken
<1> HIDE DEF data, cut
<1>5. Fed(From(ls), data) = Behind(ls, Fed(From(cut.lines), cut.pending))
  BY <1>1, <1>2, <1>4, FedBehind
<1>6. From(cut.lines) \in Scans /\ From(ls \o cut.lines) = Behind(ls, From(cut.lines))
  BY <1>2, EmptySeq DEF From, Behind, Scans, Unbroken
<1>7. Behind(ls, Fed(From(cut.lines), cut.pending)) = Fed(From(ls \o cut.lines), cut.pending)
  BY <1>2, <1>6, FedBehind
<1> QED
  BY <1>3, <1>5, <1>7 DEF Balanced, data, cut

\* A heater command is the last one of the words c.
HeaterOn(c) == \E i \in 1..Len(c) : c[i] = "M" /\ \A j \in (i + 1)..Len(c) : c[j] # "G"
\* A temperature in c past the limit belongs to a heater command.
HotFound(c) ==
  \E k \in 1..Len(c) :
    /\ c[k] \in {"hot", "odd"}
    /\ \E i \in 1..(k - 1) : c[i] = "M" /\ \A j \in (i + 1)..k : c[j] # "G"

\* heater_problem knows both.
WordFinds(c) ==
  /\ Parsed(c) \in [heater : BOOLEAN, problem : BOOLEAN]
  /\ HeaterOn(c) => Parsed(c).heater
  /\ HotFound(c) => Parsed(c).problem

\* The loop of heater_problem finds every temperature of a heater command.
LEMMA ParsedFinds == ASSUME NEW words \in Seq(Tokens) PROVE WordFinds(words)
<1> DEFINE P == {x \in Seq(Tokens) : WordFinds(x)}
<1>1. <<>> \in P
  <2>1. Parsed(<<>>) \in [heater : BOOLEAN, problem : BOOLEAN]
    <3>1. Cold \in [heater : BOOLEAN, problem : BOOLEAN]
      BY Zenon DEF Cold
    <3> QED
      BY <3>1, ParsedNone
  <2>2. ~HeaterOn(<<>>) /\ ~HotFound(<<>>)
    BY DEF HeaterOn, HotFound
  <2> QED
    BY <2>1, <2>2, EmptySeq DEF WordFinds
<1>2. ASSUME NEW x \in Seq(Tokens), NEW t \in Tokens, x \in P PROVE Append(x, t) \in P
  <2> DEFINE n == Len(x)
             y == Append(x, t)
             s == Parsed(x)
  <2>1. n \in Nat /\ y \in Seq(Tokens) /\ Len(y) = n + 1 /\ y[n + 1] = t /\ \A i \in 1..n : y[i] = x[i]
    OBVIOUS
  <2>2. Parsed(y) = Word(s, t)
    BY ParsedMore
  <2>3. WordFinds(x)
    BY <1>2
  <2> HIDE DEF n, y, s
  <2>4. s \in [heater : BOOLEAN, problem : BOOLEAN] /\ (HeaterOn(x) => s.heater) /\ (HotFound(x) => s.problem)
    BY <2>3 DEF WordFinds, s
  <2>5. Word(s, t) \in [heater : BOOLEAN, problem : BOOLEAN] /\ (s.problem => Word(s, t).problem)
    BY <2>4 DEF Word
  <2>6. ASSUME HeaterOn(y) PROVE Word(s, t).heater
    <3>1. PICK i \in 1..(n + 1) : y[i] = "M" /\ \A j \in (i + 1)..(n + 1) : y[j] # "G"
      BY <2>1, <2>6 DEF HeaterOn
    <3>2. CASE i = n + 1
      BY <2>1, <3>1, <3>2 DEF Word
    <3>3. CASE i \in 1..n
      <4>1. t # "G"
        BY <2>1, <3>1, <3>3
      <4>2. \A j \in (i + 1)..n : x[j] # "G"
        BY <2>1, <3>1, <3>3
      <4>3. HeaterOn(x)
        BY <2>1, <3>1, <3>3, <4>2 DEF HeaterOn, n
      <4>4. s.heater = TRUE
        BY <2>4, <4>3
      <4> QED
        BY <4>1, <4>4 DEF Word
    <3> QED
      BY <2>1, <3>1, <3>2, <3>3
  <2>7. ASSUME HotFound(y) PROVE Word(s, t).problem
    <3>1. PICK k \in 1..(n + 1) :
            y[k] \in {"hot", "odd"} /\ \E i \in 1..(k - 1) : y[i] = "M" /\ \A j \in (i + 1)..k : y[j] # "G"
      BY <2>1, <2>7 DEF HotFound
    <3>2. PICK i \in 1..(k - 1) : y[i] = "M" /\ \A j \in (i + 1)..k : y[j] # "G"
      BY <3>1
    <3>3. CASE k = n + 1
      <4>1. t \in {"hot", "odd"} /\ i \in 1..n
        BY <2>1, <3>1, <3>3
      <4>2. \A j \in (i + 1)..n : x[j] # "G"
        BY <2>1, <3>2, <3>3
      <4>3. HeaterOn(x)
        BY <2>1, <3>2, <4>1, <4>2 DEF HeaterOn, n
      <4>4. s.heater = TRUE
        BY <2>4, <4>3
      <4> QED
        BY <4>1, <4>4 DEF Word
    <3>4. CASE k \in 1..n
      <4>1. x[k] \in {"hot", "odd"} /\ i \in 1..n /\ x[i] = "M"
        BY <2>1, <3>1, <3>2, <3>4
      <4>2. \A j \in (i + 1)..k : x[j] # "G"
        BY <2>1, <3>2, <3>4
      <4>3. HotFound(x)
        BY <3>4, <4>1, <4>2 DEF HotFound, n
      <4> QED
        BY <2>4, <2>5, <4>3
    <3> QED
      BY <2>1, <3>1, <3>3, <3>4
  <2>8. WordFinds(y)
    BY <2>2, <2>5, <2>6, <2>7 DEF WordFinds
  <2> QED
    BY <2>1, <2>8 DEF y
<1> HIDE DEF P
<1>3. words \in P
  BY <1>1, <1>2, SeqInduct
<1> QED
  BY <1>3 DEF P

\* What comes before the first semicolon is in the code.
LEMMA CodeIsPrefix ==
  ASSUME NEW line \in Seq(Tokens), NEW k \in 1..Len(line), \A j \in 1..k : line[j] # "comment"
  PROVE  Code(line) \in Seq(Tokens) /\ k <= Len(Code(line)) /\ \A j \in 1..k : Code(line)[j] = line[j]
<1> DEFINE at == {i \in DOMAIN line : line[i] = "comment"}
           p == CHOOSE i \in at : \A j \in at : i <= j
<1>1. CASE at = {}
  <2>1. Code(line) = line
    BY <1>1 DEF Code
  <2> QED
    BY <2>1
<1>2. CASE at # {}
  <2>1. at \subseteq Nat /\ at \subseteq 1..Len(line)
    OBVIOUS
  <2>2. Code(line) = SubSeq(line, 1, p - 1)
    BY <1>2 DEF Code
  <2>3. p \in at
    <3>1. \E i \in at : \A j \in at : i <= j
      BY <1>2, <2>1, NatMin
    <3> QED
      BY <3>1
  <2>4. p \in 1..Len(line) /\ line[p] = "comment"
    BY <2>3
  <2> HIDE DEF p, at
  <2>5. k < p
    BY <2>4
  <2>6. Len(line) \in Nat /\ p - 1 \in 1..Len(line) /\ k <= p - 1
    BY <2>4, <2>5
  <2>7. SubSeq(line, 1, p - 1) \in Seq(Tokens) /\ Len(SubSeq(line, 1, p - 1)) = p - 1
        /\ \A j \in 1..(p - 1) : SubSeq(line, 1, p - 1)[j] = line[j]
    BY <2>6
  <2> QED
    BY <2>2, <2>6, <2>7
<1> QED
  BY <1>1, <1>2

\* What the firmware would heat on, the check of the line finds.
LEMMA HeatedIsFound == ASSUME NEW line \in Seq(Tokens), FirmwareHeats(line) PROVE LineProblem(line)
<1>1. PICK i \in DOMAIN line \cap {1, 2} :
        /\ line[i] = "M" /\ (i = 2 => line[1] = "N")
        /\ \E k \in (i + 1)..Len(line) :
             line[k] \in {"hot", "odd"} /\ \A j \in (i + 1)..k : line[j] \notin {"G", "comment"}
  BY DEF FirmwareHeats
<1>2. PICK k \in (i + 1)..Len(line) :
        line[k] \in {"hot", "odd"} /\ \A j \in (i + 1)..k : line[j] \notin {"G", "comment"}
  BY <1>1
<1>3. i \in 1..2 /\ i \in Nat /\ Len(line) \in Nat /\ k \in 1..Len(line) /\ i < k /\ i \in 1..Len(line)
  BY <1>1, <1>2
<1>4. \A j \in 1..k : line[j] # "comment"
  <2> SUFFICES ASSUME NEW j \in 1..k PROVE line[j] # "comment"
    OBVIOUS
  <2>1. CASE j \in (i + 1)..k
    BY <1>2, <2>1
  <2>2. CASE j = i
    BY <1>1, <2>2
  <2>3. CASE j < i
    <3>1. i = 2 /\ j = 1
      BY <1>3, <2>3
    <3> QED
      BY <1>1, <3>1
  <2> QED
    BY <1>3, <2>1, <2>2, <2>3
<1> DEFINE c == Code(line)
<1>5. c \in Seq(Tokens) /\ k <= Len(c) /\ \A j \in 1..k : c[j] = line[j]
  BY <1>3, <1>4, CodeIsPrefix
<1>6. HeaterLine(line)
  <2>1. CASE i = 1
    BY <1>1, <1>3, <2>1 DEF HeaterLine
  <2>2. CASE i = 2
    <3>1. Len(line) > 1
      BY <1>3, <2>2
    <3> QED
      BY <1>1, <2>2, <3>1 DEF HeaterLine
  <2> QED
    BY <1>3, <2>1, <2>2
<1> HIDE DEF c
<1>7. HotFound(c)
  <2>1. k \in 1..Len(c) /\ c[k] \in {"hot", "odd"}
    BY <1>2, <1>3, <1>5
  <2>2. i \in 1..(k - 1) /\ c[i] = "M"
    BY <1>1, <1>3, <1>5
  <2>3. \A j \in (i + 1)..k : c[j] # "G"
    BY <1>2, <1>3, <1>5
  <2> QED
    BY <2>1, <2>2, <2>3 DEF HotFound
<1>8. HeaterProblem(c)
  BY <1>5, <1>7, ParsedFinds DEF WordFinds, HeaterProblem
<1> QED
  BY <1>6, <1>8 DEF LineProblem, c

\* The lines of what is pending.
Rest(rest) == IF rest = <<>> THEN <<>> ELSE Split(rest)
\* LinesOfTheFile, of any lines, rest and text.
LinesOf(ls, rest, text) ==
  ls \o Rest(rest) \in {Split(text), IF Last(Split(text)) = <<>> THEN Front(Split(text)) ELSE Split(text)}

\* The inductive invariant of the scan.
ScanInv ==
  /\ whole \in Seq(Tokens) /\ pending \in Seq(Tokens) /\ lines \in Seq(Seq(Tokens))
  /\ verdict \in {"reading", "clean", "refused"}
  /\ verdict = "reading" => Balanced(lines, pending, whole)
  /\ verdict = "clean" => pending = <<>>
  /\ verdict # "refused" => ~Problem(lines)
  /\ LinesOf(lines, pending, whole)

\* The rest is cut into lines.
LEMMA RestTyped == ASSUME NEW rest \in Seq(Tokens) PROVE Rest(rest) \in Seq(Seq(Tokens))
BY SplitIs DEF Rest

\* In balance, LinesOfTheFile holds.
LEMMA BalancedLines ==
  ASSUME NEW ls \in Seq(Seq(Tokens)), NEW rest \in Seq(Tokens), NEW text \in Seq(Tokens),
         Balanced(ls, rest, text)
  PROVE  LinesOf(ls, rest, text)
<1>1. Split(text) = ls \o Split(rest)
  BY BalancedSplits
<1>2. CASE rest # <<>>
  BY <1>1, <1>2 DEF LinesOf, Rest
<1>3. CASE rest = <<>>
  <2>1. Split(rest) = Append(<<>>, <<>>)
    <3>1. Fed(Uncut, <<>>) = Uncut
      BY FedNone
    <3>2. Split(rest) = Append(Fed(Uncut, rest).lines, Fed(Uncut, rest).line)
      BY DEF Split
    <3>3. Uncut.lines = <<>> /\ Uncut.line = <<>>
      BY DEF Uncut
    <3>4. Split(rest) = Append(Uncut.lines, Uncut.line)
      BY <1>3, <3>1, <3>2, Zenon
    <3> QED
      BY <3>3, <3>4, Zenon
  <2>2. Split(text) = Append(ls, <<>>)
    BY <1>1, <2>1
  <2>3. Last(Split(text)) = <<>> /\ Front(Split(text)) = ls
    <3>1. <<>> \in Seq(Tokens)
      OBVIOUS
    <3> QED
      BY <2>2, <3>1, AppendEnds
  <2>4. ls \o Rest(rest) = ls
    BY <1>3 DEF Rest
  <2> QED
    BY <2>3, <2>4 DEF LinesOf
<1> QED
  BY <1>2, <1>3

\* A problem in a list of lines is in one of its parts.
LEMMA ProblemJoin ==
  ASSUME NEW a \in Seq(Seq(Tokens)), NEW b \in Seq(Seq(Tokens)), ~Problem(a), ~Problem(b)
  PROVE  ~Problem(a \o b)
<1> SUFFICES ASSUME NEW k \in 1..(Len(a) + Len(b)) PROVE ~LineProblem((a \o b)[k])
  BY DEF Problem
<1>1. CASE k <= Len(a)
  BY <1>1 DEF Problem
<1>2. CASE k > Len(a)
  <2>1. k - Len(a) \in DOMAIN b /\ (a \o b)[k] = b[k - Len(a)]
    BY <1>2
  <2> QED
    BY <2>1 DEF Problem
<1> QED
  BY <1>1, <1>2

\* The scan starts in balance.
LEMMA ScanStarts == ScanInit => ScanInv
<1> SUFFICES ASSUME ScanInit PROVE ScanInv
  OBVIOUS
<1>1. whole = <<>> /\ pending = <<>> /\ lines = <<>> /\ verdict = "reading"
  BY DEF ScanInit
<1>2. whole \in Seq(Tokens) /\ pending \in Seq(Tokens) /\ lines \in Seq(Seq(Tokens))
  BY <1>1
<1>3. Balanced(lines, pending, whole)
  BY <1>1, FedNone DEF Balanced, From, Uncut
<1>4. ~Problem(lines)
  BY <1>1 DEF Problem
<1>5. LinesOf(lines, pending, whole)
  BY <1>2, <1>3, BalancedLines
<1> QED
  BY <1>1, <1>2, <1>3, <1>4, <1>5 DEF ScanInv

\* Every read keeps the invariant.
LEMMA ScanKeeps == ScanInv /\ [ScanNext]_scanVars => ScanInv'
<1> SUFFICES ASSUME ScanInv, [ScanNext]_scanVars PROVE ScanInv'
  OBVIOUS
<1>1. whole \in Seq(Tokens) /\ pending \in Seq(Tokens) /\ lines \in Seq(Seq(Tokens))
  BY DEF ScanInv
<1>2. CASE ReadChunk
  <2>1. PICK n \in 1..MaxChunk : \E chunk \in [1..n -> Tokens] :
          LET cut == Cut(pending \o chunk)
          IN  /\ whole' = whole \o chunk /\ pending' = cut.pending /\ lines' = lines \o cut.lines
              /\ verdict' = IF Problem(cut.lines) \/ Len(cut.pending) > MaxLine THEN "refused" ELSE "reading"
    BY <1>2 DEF ReadChunk
  <2>2. PICK chunk \in [1..n -> Tokens] :
          LET cut == Cut(pending \o chunk)
          IN  /\ whole' = whole \o chunk /\ pending' = cut.pending /\ lines' = lines \o cut.lines
              /\ verdict' = IF Problem(cut.lines) \/ Len(cut.pending) > MaxLine THEN "refused" ELSE "reading"
    BY <2>1
  <2> DEFINE cut == Cut(pending \o chunk)
  <2>3. chunk \in Seq(Tokens)
    BY ScanAssumption
  <2>4. whole' \in Seq(Tokens) /\ pending \o chunk \in Seq(Tokens)
    BY <1>1, <2>2, <2>3
  <2>5. cut.lines \in Seq(Seq(Tokens)) /\ cut.pending \in Seq(Tokens)
    BY <2>4, CutKeepsText
  <2>6. Balanced(lines, pending, whole) /\ ~Problem(lines)
    BY <1>2 DEF ScanInv, ReadChunk
  <2>7. Balanced(lines \o cut.lines, cut.pending, whole \o chunk)
    BY <1>1, <2>3, <2>6, BalancedChunk
  <2> HIDE DEF cut
  <2>8. /\ whole' = whole \o chunk /\ pending' = cut.pending /\ lines' = lines \o cut.lines
        /\ verdict' = IF Problem(cut.lines) \/ Len(cut.pending) > MaxLine THEN "refused" ELSE "reading"
    BY <2>2 DEF cut
  <2>9. pending' \in Seq(Tokens) /\ lines' \in Seq(Seq(Tokens)) /\ verdict' \in {"reading", "refused"}
    BY <1>1, <2>5, <2>8
  <2>10. Balanced(lines', pending', whole')
    BY <2>7, <2>8
  <2>11. LinesOf(lines', pending', whole')
    BY <2>4, <2>9, <2>10, BalancedLines
  <2>12. verdict' # "refused" => ~Problem(lines')
    <3> SUFFICES ASSUME verdict' # "refused" PROVE ~Problem(lines')
      OBVIOUS
    <3>1. ~Problem(cut.lines)
      BY <2>8
    <3>2. ~Problem(lines \o cut.lines)
      BY <1>1, <2>5, <2>6, <3>1, ProblemJoin
    <3> QED
      BY <2>8, <3>2
  <2> QED
    BY <2>4, <2>9, <2>10, <2>11, <2>12 DEF ScanInv
<1>3. CASE ReadEnd
  <2>1. /\ lines' = lines \o Rest(pending) /\ pending' = <<>> /\ whole' = whole
        /\ verdict' = IF Problem(Rest(pending)) THEN "refused" ELSE "clean"
    BY <1>3 DEF ReadEnd, Rest
  <2>2. Rest(pending) \in Seq(Seq(Tokens))
    BY <1>1, RestTyped
  <2>3. whole' \in Seq(Tokens) /\ pending' \in Seq(Tokens) /\ lines' \in Seq(Seq(Tokens))
        /\ verdict' \in {"clean", "refused"}
    BY <1>1, <2>1, <2>2
  <2>4. LinesOf(lines', pending', whole')
    <3>1. Rest(pending') = <<>>
      BY <2>1 DEF Rest
    <3>2. lines' \o Rest(pending') = lines \o Rest(pending)
      <4>1. lines' \o <<>> = lines'
        BY <2>3
      <4> QED
        BY <2>1, <3>1, <4>1, Zenon
    <3>3. LinesOf(lines, pending, whole)
      BY DEF ScanInv
    <3> QED
      BY <2>1, <3>2, <3>3 DEF LinesOf
  <2>5. verdict' # "refused" => ~Problem(lines')
    <3> SUFFICES ASSUME verdict' # "refused" PROVE ~Problem(lines')
      OBVIOUS
    <3>1. ~Problem(Rest(pending))
      BY <2>1
    <3>2. ~Problem(lines)
      BY <1>3 DEF ScanInv, ReadEnd
    <3>3. ~Problem(lines \o Rest(pending))
      BY <1>1, <2>2, <3>1, <3>2, ProblemJoin
    <3> QED
      BY <2>1, <3>3, Zenon
  <2> QED
    BY <2>1, <2>3, <2>4, <2>5 DEF ScanInv
<1>4. CASE ReadFails
  BY <1>4 DEF ScanInv, ReadFails, LinesOf, Rest
<1>5. CASE UNCHANGED scanVars
  BY <1>5 DEF ScanInv, scanVars, LinesOf, Rest, Balanced, Problem
<1> QED
  BY <1>2, <1>3, <1>4, <1>5 DEF ScanNext

\* The lines given out and the pending bytes are what was read, and no line with a problem was passed.
THEOREM ScanInvariant == ScanSpec => []ScanInv
<1>1. ScanInit => ScanInv
  BY ScanStarts
<1>2. ScanInv /\ [ScanNext]_scanVars => ScanInv'
  BY ScanKeeps
<1> QED
  BY <1>1, <1>2, PTL DEF ScanSpec

\* The invariant says that the lines are those of the file and that a clean one is cool.
LEMMA ScanSafe == ScanInv => LinesOfTheFile /\ CleanIsCool
<1> SUFFICES ASSUME ScanInv PROVE LinesOfTheFile /\ CleanIsCool
  OBVIOUS
<1>1. LinesOf(lines, pending, whole)
  BY DEF ScanInv
<1>2. LinesOfTheFile
  BY <1>1 DEF LinesOfTheFile, LinesOf, Rest
<1>3. ASSUME verdict = "clean", NEW k \in DOMAIN Split(whole) PROVE ~FirmwareHeats(Split(whole)[k])
  <2>1. lines \in Seq(Seq(Tokens)) /\ whole \in Seq(Tokens) /\ ~Problem(lines) /\ pending = <<>>
    BY <1>3 DEF ScanInv
  <2>2. lines \o Rest(pending) = lines
    BY <2>1 DEF Rest
  <2>3. lines = Split(whole) \/ (Last(Split(whole)) = <<>> /\ lines = Front(Split(whole)))
    BY <1>1, <2>2 DEF LinesOf
  <2> DEFINE all == Split(whole)
  <2>4. all \in Seq(Seq(Tokens)) /\ all # <<>>
    BY <2>1, SplitIs
  <2> HIDE DEF all
  <2>5. k \in 1..Len(all) /\ all[k] \in Seq(Tokens)
    BY <1>3, <2>4 DEF all
  <2>6. CASE k \in DOMAIN lines /\ lines[k] = all[k]
    <3>1. ~LineProblem(all[k])
      BY <2>1, <2>6 DEF Problem
    <3>2. ~FirmwareHeats(all[k])
      BY <2>5, <3>1, HeatedIsFound
    <3> QED
      BY <3>2 DEF all
  <2>7. CASE all[k] = <<>>
    <3>1. ~FirmwareHeats(<<>>)
      BY DEF FirmwareHeats
    <3> QED
      BY <2>7, <3>1 DEF all
  <2>8. (k \in DOMAIN lines /\ lines[k] = all[k]) \/ all[k] = <<>>
    <3>1. CASE lines = all
      BY <2>5, <3>1
    <3>2. CASE Last(all) = <<>> /\ lines = Front(all)
      <4>1. CASE k = Len(all)
        BY <3>2, <4>1 DEF Last
      <4>2. CASE k # Len(all)
        <5>1. k \in 1..(Len(all) - 1) /\ Len(all) - 1 \in 0..Len(all)
          BY <2>4, <2>5, <4>2
        <5>2. k \in DOMAIN SubSeq(all, 1, Len(all) - 1) /\ SubSeq(all, 1, Len(all) - 1)[k] = all[k]
          BY <2>4, <5>1
        <5> QED
          BY <3>2, <5>2 DEF Front
      <4> QED
        BY <4>1, <4>2
    <3> QED
      BY <2>3, <3>1, <3>2 DEF all
  <2> QED
    BY <2>6, <2>7, <2>8
<1> QED
  BY <1>2, <1>3 DEF CleanIsCool

\* However the reads of a printer-ready file fall, its lines are cut as the whole file
\* would be (_lines), and a file found clean sets no heater past its limit.
THEOREM FilesAreScanned == ScanSpec => [](LinesOfTheFile /\ CleanIsCool)
<1>1. ScanInv => LinesOfTheFile /\ CleanIsCool
  BY ScanSafe
<1> QED
  BY <1>1, ScanInvariant, PTL

\* No heater is set past its limit, by an override or by a line of a file, and the profile
\* is the one asked for, whatever runs of a slice and a scan of a file do.
THEOREM SettingsStaySafe == Spec /\ ScanSpec => []SettingsAreSafe
<1>1. ProfileAsAsked /\ OverridesSafe /\ LinesOfTheFile /\ CleanIsCool => SettingsAreSafe
  BY DEF SettingsAreSafe
<1> QED
  BY <1>1, ProfileIsAsAsked, OverridesAreSafe, FilesAreScanned, PTL
=============================================================================
