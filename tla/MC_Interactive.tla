--------------------------- MODULE MC_Interactive ---------------------------
(* Model-checking instance of the two interactive front ends, one at a time: *)
(* the terminal UI, where the tray of the second unit is active and its      *)
(* spool may be swapped for a material without a preset, and plate go, with  *)
(* every report of an AMS with a tray in each of two units and an external   *)
(* spool.                                                                    *)
EXTENDS Tui, Wizard

VARIABLE front
all == <<front, vars, wvars>>

Rep(now, first, second, ext) ==
  [now |-> now, tray |-> (Tray(0, 0) :> first @@ Tray(1, 0) :> second), ext |-> ext]
MCReports == {Rep(4, "PLA", "PETG", Nothing), Rep(4, "PETG", "PVA", Nothing)}

Types == Materials \cup {"PVA", Nothing}
\* The external spool only counts when it is in use, or no tray has one.
MCReadings ==
  {r \in [now : {Tray(0, 0), Tray(1, 0), External, NotLoaded, Nothing},
          tray : [{Tray(0, 0), Tray(1, 0)} -> Types],
          ext : {"PETG", Nothing}] :
     r.ext = Nothing => r.now = External \/ Filled(r) = {}}

MCInit ==
  /\ front \in {"tui", "wizard"}
  /\ Init /\ WInit
  /\ front = "tui" => configured
  /\ front = "wizard" => ams = Rep(4, "PLA", "PETG", Nothing)

MCNext ==
  /\ UNCHANGED front
  /\ \/ front = "tui" /\ Next /\ UNCHANGED wvars
     \/ front = "wizard" /\ WNext /\ UNCHANGED vars

MCSpec == MCInit /\ [][MCNext]_all

\* Every variable of both front ends has its type.
InteractiveTypes == TypeOK /\ WTypeOK

\* Whichever front end starts a print that feeds from the AMS, the tray was seen and
\* still holds what the file was prepared for.
FedRight == FedAsPrepared /\ WizardFedAsPrepared /\ DetectionIsReal
=============================================================================
