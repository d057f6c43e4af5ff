---------------------------- MODULE MC_OneShot -----------------------------
(* Model-checking instance of the clients that live as long as one call, of *)
(* the Terminal UI's held one and of name resolution, one at a time.        *)
EXTENDS CommandSend, PrintStart, StatusQuery, Monitor, StatusHold, Resolver

VARIABLE part
all == <<part, vars, pvars, qvars, mvars, hvars, rvars>>

MCInit ==
  /\ part \in {"command", "print", "query", "monitor", "hold", "resolve"}
  /\ Init /\ PInit /\ QInit /\ MInit /\ HInit /\ RInit
  /\ part # "query" => ask = "full"
  /\ part # "print" => ~latched

MCNext ==
  /\ UNCHANGED part
  /\ \/ part = "command" /\ Next /\ UNCHANGED <<pvars, qvars, mvars, hvars, rvars>>
     \/ part = "print" /\ PNext /\ UNCHANGED <<vars, qvars, mvars, hvars, rvars>>
     \/ part = "query" /\ QNext /\ UNCHANGED <<vars, pvars, mvars, hvars, rvars>>
     \/ part = "monitor" /\ MNext /\ UNCHANGED <<vars, pvars, qvars, hvars, rvars>>
     \/ part = "hold" /\ HNext /\ UNCHANGED <<vars, pvars, qvars, mvars, rvars>>
     \/ part = "resolve" /\ RNext /\ UNCHANGED <<vars, pvars, qvars, mvars, hvars>>

\* Of a part that does not run nothing is fair.
FairCommand ==
  /\ WF_all(part = "command" /\ Caller /\ UNCHANGED <<part, pvars, qvars, mvars, hvars, rvars>>)
  /\ WF_all(part = "command" /\ OnConnectPublish /\ UNCHANGED <<part, pvars, qvars, mvars, hvars, rvars>>)
FairPrint ==
  /\ WF_all(part = "print" /\ PCaller /\ UNCHANGED <<part, vars, qvars, mvars, hvars, rvars>>)
  /\ WF_all(part = "print" /\ POnConnectPublish /\ UNCHANGED <<part, vars, qvars, mvars, hvars, rvars>>)
FairQuery == WF_all(part = "query" /\ Asking /\ UNCHANGED <<part, vars, pvars, mvars, hvars, rvars>>)
FairMonitor == WF_all(part = "monitor" /\ Watching /\ UNCHANGED <<part, vars, pvars, qvars, hvars, rvars>>)
FairHold ==
  /\ \A w \in Workers : WF_all(part = "hold" /\ Fetching(w) /\ UNCHANGED <<part, vars, pvars, qvars, mvars, rvars>>)
  /\ WF_all(part = "hold" /\ Leaving /\ UNCHANGED <<part, vars, pvars, qvars, mvars, rvars>>)
FairResolve ==
  \A a \in Askers : WF_all(part = "resolve" /\ Resolving(a) /\ UNCHANGED <<part, vars, pvars, qvars, mvars, hvars>>)

MCSpec == /\ MCInit /\ [][MCNext]_all
          /\ FairCommand /\ FairPrint /\ FairQuery /\ FairMonitor /\ FairHold /\ FairResolve

\* Every variable of every part has its type.
OneShotTypes == TypeOK /\ PTypeOK /\ QTypeOK /\ MTypeOK /\ HTypeOK /\ RTypeOK

\* What a one-shot client tells its caller is what the printer did or said: the
\* verdict on a print, a status, a silence, the end of a job that is watched.
AnswersAreTrue == VerdictIsTrue /\ SnapshotIsWhole /\ SilenceMeansSilence /\ SuccessIsTerminal

\* No call waits for good, whatever the link, the printer and the name server do.
OneShotsEnd ==
  /\ Returns /\ PrintReturns /\ QueryReturns
  /\ UnansweredEnds /\ TerminalEnds /\ QuitCompletes /\ ResolveReturns
=============================================================================
