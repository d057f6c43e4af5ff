------------------------------ MODULE Delivery ------------------------------
(***************************************************************************)
(* What plate download promises those who share its output directory: to   *)
(* them a download is one step.  It puts finished files there under new    *)
(* names, which stay, or it fails and at most leaves one it had finished;  *)
(* whatever was there is left as it was.  (download/downloader.py:168-173: *)
(* nothing is left "that a later run/agent could mistake for a real        *)
(* download".)                                                             *)
(***************************************************************************)
CONSTANT Procs     \* the downloads

VARIABLES
  shelf,           \* the files of those who answered and of others: whose it is, what it holds
  told             \* what each download has answered; a call refused at once has "failed"

Init ==
  /\ told \in [Procs -> {"none", "failed"}]
  /\ \A f \in DOMAIN shelf : shelf[f].by \notin Procs

\* What was there stays as it was, and what comes is this download's and finished.
New == DOMAIN shelf' \ DOMAIN shelf

Adds(p) ==
  /\ \A f \in DOMAIN shelf : f \in DOMAIN shelf' /\ shelf'[f] = shelf[f]
  /\ \A f \in New : shelf'[f].by = p /\ shelf'[f].is # "unfinished"

Deliver(p) ==
  /\ told[p] = "none" /\ told' = [told EXCEPT ![p] = "ok"]
  /\ Adds(p) /\ New # {}

GiveUp(p) ==
  /\ told[p] = "none" /\ told' = [told EXCEPT ![p] = "failed"]
  /\ Adds(p)

Next == \E p \in Procs : Deliver(p) \/ GiveUp(p)

Spec == Init /\ [][Next]_<<shelf, told>>
=============================================================================
