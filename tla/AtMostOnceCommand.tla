------------------------- MODULE AtMostOnceCommand -------------------------
(***************************************************************************)
(* What plate promises about one printer command (docstrings of            *)
(* send_command in protocols/mqtt_session.py and protocols/mqtt_cmd.py):   *)
(* the payload goes out at most once, True means the printer took it,      *)
(* False means it never went out, and CommandUnconfirmed covers the rest.  *)
(***************************************************************************)
EXTENDS Naturals

VARIABLES
  sent,    \* how often the payload was handed to the network
  ran,     \* how often the printer executed it
  result   \* what the caller was told; "none" while the call runs

vars == <<sent, ran, result>>

Init == sent = 0 /\ ran = 0 /\ result = "none"

Send ==
  /\ result = "none" /\ sent = 0
  /\ sent' = 1
  /\ UNCHANGED <<ran, result>>

\* The printer may run a command long after its caller gave up on it.
Run ==
  /\ sent = 1 /\ ran = 0
  /\ ran' = 1
  /\ UNCHANGED <<sent, result>>

Return ==
  /\ result = "none"
  /\ \/ ran = 1 /\ result' = "true"
     \/ sent = 0 /\ result' = "false"
     \/ sent = 1 /\ result' = "unconfirmed"
  /\ UNCHANGED <<sent, ran>>

Next == Send \/ Run \/ Return

Spec == Init /\ [][Next]_vars
=============================================================================
