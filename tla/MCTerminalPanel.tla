-------------------------- MODULE MCTerminalPanel ---------------------------
(* Small instances of TerminalPanel for TLC. *)
EXTENDS TerminalPanel, TLC

(* Openings are alike, and so are the laboratories with a terminal: the    *)
(* properties and the fairness do not tell them apart.                     *)
PanelSymmetry == Permutations(Conns) \cup Permutations(Labs \ LocalLabs)

(* The laboratory of a socket that is closing, closed or not used is not   *)
(* read any more: states that differ only there count as one.              *)
Used ==
  <<access, active, locked, runtime, waiting, completed,
    [c \in Conns |->
       IF conn[c].phase \in Live \cup {"posting"} THEN conn[c]
       ELSE [conn[c] EXCEPT !.lab = None]]>>

=============================================================================
