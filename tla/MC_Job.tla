------------------------------- MODULE MC_Job -------------------------------
(* Model-checking instance of the commands an agent or a user runs one after *)
(* another: the job pipeline, or setup and the migration of the access code. *)
(* Setup finds nothing yet, or the config of a first printer, with its code  *)
(* inline, in the default file or in both, and that file in any state;       *)
(* perhaps a file of a second printer.                                       *)
EXTENDS JobPipeline, Setup

VARIABLE agenda
all == <<agenda, vars, setupVars>>

First == <<"p1", 1>>
Second == <<"p2", 1>>

\* The side that does not move starts in one of its states.
NoFiles == redirected = FALSE /\ config = Gone /\ secret = [p \in Paths |-> NoSecret]
NoJob ==
  /\ source = "local" /\ args = [plate |-> 0, confirm |-> FALSE, uploadOnly |-> FALSE, output |-> "none"]
  /\ given = [kind |-> "other", archived |-> FALSE, plates |-> {}, empty |-> TRUE, hot |-> FALSE]

MCInit ==
  \/ agenda = "job" /\ NoFiles /\ SetupInit /\ Init
  \/ /\ agenda = "setup" /\ NoJob /\ Init /\ SetupInit
     /\ Readable(config) => config.serial = "p1" /\ config.inline \in {NoCode, First} /\ config.file \in {None, Default}
     /\ secret[Default] \in {NoSecret, Written(Junk), Written(First), ByHand(First), Written(Second)}
     /\ \A p \in Paths \ {Default} : secret[p] \in {NoSecret, Written(Second)}

MCNext ==
  /\ UNCHANGED agenda
  /\ \/ agenda = "job" /\ Next /\ UNCHANGED setupVars
     \/ agenda = "setup" /\ SetupNext /\ UNCHANGED vars

MCSpec == MCInit /\ [][MCNext]_all

\* Every variable of both agendas has its type.
JobTypes == TypeOK /\ SetupTypeOK
=============================================================================
