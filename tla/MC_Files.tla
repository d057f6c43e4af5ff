------------------------------ MODULE MC_Files ------------------------------
(* Model-checking instance of the file commands on one printer object and  *)
(* of two snapshots into one output, one scene at a time.                  *)
EXTENDS Files, Snapshot

VARIABLE scene
all == <<scene, fvars, svars>>

\* The second process only ever has the streamer to ask, the first one anything.
Streaming == [pin |-> FALSE, insecure |-> FALSE, directOnly |-> FALSE, opted |-> TRUE, sim |-> FALSE, local |-> TRUE]

MCInit ==
  /\ scene \in {"files", "snapshot"}
  /\ FInit /\ SInit
  /\ settings["s2"] = Streaming
  /\ settings["s1"].directOnly => settings["s1"].opted      \* without leave it changes nothing,
  /\ settings["s1"].pin => ~settings["s1"].insecure         \* nor does the flag beside a pin
  /\ scene = "files" => settings["s1"] = Streaming /\ container = "none"
  /\ scene = "snapshot" => content = "absent" /\ dest.what = "absent"

MCNext ==
  /\ UNCHANGED scene
  /\ \/ scene = "files" /\ FNext /\ UNCHANGED svars
     \/ scene = "snapshot" /\ SNext /\ UNCHANGED fvars

\* Of the scene that is not played nothing is fair.
MCSpec == /\ MCInit /\ [][MCNext]_all
          /\ WF_all(scene = "files" /\ Commanding /\ UNCHANGED <<scene, svars>>)
          /\ \A s \in Shooters : WF_all(scene = "snapshot" /\ Shooting(s) /\ UNCHANGED <<scene, fvars>>)

\* Every variable of both scenes has its type.
FilesTypes == TypeOK /\ FTypeOK /\ STypeOK

\* An upload and a snapshot end, whatever the printer, the camera and docker do.
CommandsEnd == CommandEnds /\ SnapshotEnds
=============================================================================
