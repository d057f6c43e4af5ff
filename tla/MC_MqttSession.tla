-------------------------- MODULE MC_MqttSession --------------------------
(* Model-checking instance of MqttSession. *)
EXTENDS MqttSession, TLC

ThreadSymmetry == Permutations(Threads)
CommandSymmetry == Permutations(Cmds)
Symmetry == ThreadSymmetry \cup CommandSymmetry
=============================================================================
