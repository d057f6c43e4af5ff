----------------------------- MODULE MC_Slicer -----------------------------
(* Model-checking instance of Slicer and GcodeScan: all runs at once on one *)
(* output with a plain request, or one run alone with any request, or the   *)
(* check of one file.                                                       *)
EXTENDS Slicer, GcodeScan

None == [source \in Sources |-> [section \in Sections |-> {}]]
MyStandard == [height |-> "0.20", word |-> "Standard", mine |-> TRUE, fits |-> FALSE]
Quality == [height |-> "0.20", word |-> "Standard", numeric |-> FALSE]
PlainRequest == [overrides |-> None, base |-> "text", profiles |-> {MyStandard}, quality |-> Quality]

\* One override, or one of each source for the same key.
Items == {<<t>> : t \in {"cold", "ok", "hot", "odd"}} \cup {<<"ok", t>> : t \in {"warm", "hot", "word"}}
Values ==
  {[form |-> "text", items |-> <<i>>] : i \in Items} \cup {[form |-> "object", items |-> <<>>]}
  \cup {[form |-> "list", items |-> v] : v \in {<<>>, <<<<"ok">>>>, <<<<"hot">>>>, <<<<"ok">>, <<"warm">>>>, <<<<"ok", "hot">>>>}}
Override(section, key, jsons, sets) ==
  [None EXCEPT !["json"][section] = {[key |-> key, value |-> v] : v \in jsons},
               !["set"][section] = {[key |-> key, value |-> v] : v \in sets}]
Singles == {{}} \cup {{v} : v \in Values}
OverrideRequests ==
  {[PlainRequest EXCEPT !.overrides = Override(section, key, j, s), !.base = b] :
     section \in {"process"}, key \in {"bed", "delta"}, j \in Singles, s \in Singles, b \in {"text"}}
  \cup {[PlainRequest EXCEPT !.overrides = Override("filament", key, {v}, {}), !.base = b] :
     key \in Keys, v \in Values, b \in {"text", "list"}}

Profiles ==
  {[height |-> h, word |-> w, mine |-> m, fits |-> f] :
     h \in {"0.20", "0.12"}, w \in {"Standard", "Support"}, m \in BOOLEAN, f \in BOOLEAN}
Qualities == {Quality, [Quality EXCEPT !.height = "0.12"], [Quality EXCEPT !.height = "0.12", !.numeric = TRUE]}
ProfileRequests ==
  {[PlainRequest EXCEPT !.profiles = ps, !.quality = q] :
     ps \in {{p, o} : p \in Profiles, o \in Profiles}, q \in Qualities}

MCRequests == {PlainRequest} \cup OverrideRequests \cup ProfileRequests
MCBefore == {Nothing, File("plates", Nothing, {})}

Idle(S) == \A r \in Runs : IF r \in S THEN pc[r] = "over" /\ outcome[r] = "failed"
                                      ELSE pc[r] = "start" /\ outcome[r] = "none"
Alone == CHOOSE r \in Runs : TRUE

RestInit ==
  /\ step \in [Runs -> BOOLEAN]
  /\ profile = [r \in Runs |-> Nothing] /\ snap = [r \in Runs |-> Nothing]
  /\ temp = [r \in Runs |-> {}] /\ held = [r \in Runs |-> {}]
  /\ child = [r \in Runs |-> "none"] /\ pipe = [r \in Runs |-> FALSE]
  /\ code = [r \in Runs |-> "zero"] /\ made = [r \in Runs |-> Nothing]
  /\ reported = [r \in Runs |-> Nothing] /\ hit = [r \in Runs |-> "none"]

MCInit ==
  /\ pc \in [Runs -> {"start", "over"}]
  /\ outcome = [r \in Runs |-> IF pc[r] = "over" THEN "failed" ELSE "none"]
  /\ RestInit
  /\ whole = <<>> /\ pending = <<>> /\ lines = <<>>
  /\ \/ Idle({}) /\ request = PlainRequest /\ out \in MCBefore /\ verdict = "clean"
        /\ step = [r \in Runs |-> r = Alone]
     \/ Idle(Runs \ {Alone}) /\ request \in MCRequests /\ out = Nothing /\ verdict = "clean"
        /\ step = [r \in Runs |-> FALSE]
     \/ Idle(Runs) /\ request = PlainRequest /\ out = Nothing /\ verdict = "reading"
        /\ step = [r \in Runs |-> FALSE]

MCNext == (Next /\ UNCHANGED scanVars) \/ (ScanNext /\ UNCHANGED vars)
MCSpec == MCInit /\ [][MCNext]_<<vars, scanVars>> /\ Fairness

\* No heater is set past its limit, whether by an override in any form or by a line of
\* a file that was read in pieces; and the profile is the one asked for.
SettingsAreSafe == ProfileAsAsked /\ OverridesSafe /\ LinesOfTheFile /\ CleanIsCool
=============================================================================
