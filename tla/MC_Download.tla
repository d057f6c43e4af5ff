---------------------------- MODULE MC_Download ----------------------------
(* Model-checking instance of Download: all downloads at once with the same *)
(* plain name, or one of them with any name of up to three tokens.          *)
EXTENDS Download

Plain == <<"x", ".", "stl">>
MCPresent == {Plain}
AnyNames == UNION {[1..n -> Tokens] : n \in 0..3}
AllPlain == [p \in Procs |-> Spellings(Plain)]
Alone == CHOOSE p \in Procs : TRUE

MCInit ==
  /\ \/ names = AllPlain
     \/ \E raw \in AnyNames : names = [AllPlain EXCEPT ![Alone] = Spellings(raw)]
  /\ InitLocals
  /\ \A p \in Procs :
       (pc[p] = "start") <=> (names = AllPlain \/ p = Alone)
  /\ opt = [p \in Procs |-> opt[Alone]]

MCSpec == MCInit /\ [][Next]_vars /\ Fairness
=============================================================================
