------------------------------ MODULE AmsFeed ------------------------------
(***************************************************************************)
(* Which spool a print feeds from: parse_ams (ams.py) and the rules of     *)
(* interactive/core.py that the wizard and the terminal UI share.          *)
(*                                                                         *)
(* A report is what one status read says: now is tray_now, tray the type   *)
(* of filament in each AMS tray by absolute number (unit * 4 + slot), ext  *)
(* the type on the external spool.  Other readings are left out.           *)
(***************************************************************************)
EXTENDS Naturals

CONSTANTS
  Materials,   \* the materials with a preset
  Default,     \* the one offered without a detection
  Nothing      \* no material, no tray, an empty tray, no reading

ASSUME DefaultAssumption == Default \in Materials
ASSUME MaterialsAssumption == Nothing \notin Materials /\ Nothing \notin Nat

External == 254   \* tray_now: feeding from the external spool
NotLoaded == 255  \* tray_now: nothing loaded

NoDetection == [material |-> Nothing, slot |-> Nothing]

Tray(unit, slot) == unit * 4 + slot

ActiveTray(rep) == IF rep.now \in {External, NotLoaded} THEN Nothing ELSE rep.now

Filled(rep) == {t \in DOMAIN rep.tray : rep.tray[t] # Nothing}

\* The first filled tray of the first unit that has one, then the external spool.
AnyLoaded(rep) ==
  IF Filled(rep) = {} THEN rep.ext
  ELSE rep.tray[CHOOSE t \in Filled(rep) : \A u \in Filled(rep) : t <= u]

\* A reported tray number is the only one trusted, and the only one recorded.
ReadLoaded(rep) ==
  LET active == ActiveTray(rep)
  IN  IF active # Nothing
      THEN IF active \in Filled(rep)
           THEN [material |-> rep.tray[active], slot |-> active]
           ELSE NoDetection
      ELSE [material |-> IF rep.now = External /\ rep.ext # Nothing
                         THEN rep.ext ELSE AnyLoaded(rep),
            slot |-> Nothing]

\* Bug: a type without a preset is taken over.
DetectAny(rep) == IF rep # Nothing THEN ReadLoaded(rep) ELSE NoDetection

\* detect_ams_material; rep is Nothing when the status could not be read.
Detect(rep) ==
  IF rep # Nothing /\ ReadLoaded(rep).material \in Materials
  THEN ReadLoaded(rep) ELSE NoDetection

\* Bug: the material the user chose does not matter.
FeedSlotOfDetection(state) ==
  IF state.det.material # Nothing THEN state.det.slot ELSE Nothing

FeedSlot(state) ==
  IF state.det.material # Nothing /\ state.det.slot # Nothing /\ state.material = state.det.material
  THEN state.det.slot ELSE Nothing

\* Bug: a failed read does not stop the print.
ChangeProblemIfRead(state, rep) ==
  FeedSlot(state) # Nothing /\ rep # Nothing /\ Detect(rep) # state.det

\* The AMS is read again before a print that feeds from it.
ChangeProblem(state, rep) == FeedSlot(state) # Nothing /\ Detect(rep) # state.det
=============================================================================
