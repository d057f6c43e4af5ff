---------------------------- MODULE SliceOptions ----------------------------
(***************************************************************************)
(* What a slice is asked for and what OrcaSlicer is given: the overrides   *)
(* of --set, --set-filament and --settings-json (slicer/options.py) and    *)
(* the choice of the process profile (slicer/profiles.py, slicer/cmd.py).  *)
(*                                                                         *)
(* An override's value is a sequence of items, each a sequence of the      *)
(* texts between its commas: "cold" (below zero), "ok", "warm" (too much   *)
(* for the bed), "hot" (too much for the nozzle), "odd" (a number only     *)
(* Python reads, such as 1e2), "word".  What the profiles of an            *)
(* installation contain besides is left out.                               *)
(***************************************************************************)
EXTENDS Naturals, Sequences, SequencesExt, FiniteSetsExt

Texts == {"cold", "ok", "warm", "hot", "odd", "word"}
Plain == {"cold", "ok", "warm", "hot"}
Sections == {"process", "filament"}
Sources == {"json", "set"}

\* "list" is a JSON array, also when it is given as text; "object" what is neither.
Forms == {"text", "list", "object"}

\* The kinds of keys the checks tell apart.
TemperatureKeys == {"nozzle", "bed", "delta"}
Keys == TemperatureKeys \cup {"script", "machine", "other"}

\* The limits of a key: standby_temperature_delta may be negative.
Allowed(key) ==
  CASE key = "bed" -> {"ok"}
    [] key = "delta" -> {"cold", "ok", "warm"}
    [] OTHER -> {"ok", "warm"}

\* The numbers OrcaSlicer would read: every text between commas, of every item.
AllTexts(value) == UNION {Range(value.items[i]) : i \in DOMAIN value.items}

\* _temperature_values and the range check: what is no plain number is refused.
TemperatureProblem(key, value) ==
  \/ value.form = "object" \/ AllTexts(value) = {}
  \/ ~(AllTexts(value) \subseteq Plain)
  \/ ~(AllTexts(value) \subseteq Allowed(key))

\* _override_safety_problem, for one override.
OverrideProblem(key, value) ==
  \/ key \in {"script", "machine"}
  \/ key \in TemperatureKeys /\ TemperatureProblem(key, value)

\* overrides[source][section] is a set of records [key, value]: every one is checked.
Accepted(overrides) ==
  \A source \in Sources, section \in Sections :
    \A o \in overrides[source][section] : ~OverrideProblem(o.key, o.value)

\* _generic_section_overrides: --set wins over --settings-json.
Merged(overrides, section) ==
  overrides["set"][section] \cup
    {o \in overrides["json"][section] : ~\E p \in overrides["set"][section] : p.key = o.key}

\* _coerce_override_value: a list value of the profile gets a list.
Coerce(base, value) ==
  IF base = "list" /\ value.form # "list" THEN [value EXCEPT !.form = "list"] ELSE value

\* What the temporary profiles of this slice say, with "text" or "list" values before.
Written(overrides, base) ==
  UNION {{[key |-> o.key, value |-> Coerce(base, o.value)] : o \in Merged(overrides, s)} : s \in Sections}

----------------------------------------------------------------------------
(* Profiles: [height, word, mine, fits], mine for the model's own profile,  *)
(* fits for one whose compatible_printers name this printer.               *)

\* A quality: [height, word, numeric]; numeric is a layer height without a name.
Usable(p) == p.mine \/ p.fits

\* The best of the profiles of this height: the word asked for, then the model's own.
Choose(profiles, height, word) ==
  LET matches == {p \in profiles : p.height = height /\ Usable(p)}
      worded  == {p \in matches : p.word = word}
      named   == IF worded = {} THEN matches ELSE worded
      own     == {p \in named : p.mine}
  IN  IF own = {} THEN named ELSE own

\* The profile with the very name asked for, or _discover_process_profile: a layer
\* height without a name is never replaced by another, and no printer's by another's.
\* Of equally good ones the first by name is taken; empty where the slice is refused.
ProcessProfiles(profiles, quality) ==
  LET exact == {p \in profiles : p.mine /\ p.height = quality.height /\ p.word = quality.word}
      found == Choose(profiles, quality.height, quality.word)
  IN  IF ~quality.numeric /\ exact # {} THEN exact
      ELSE IF found # {} \/ quality.numeric THEN found
      ELSE Choose(profiles, "0.20", "Standard")
=============================================================================
