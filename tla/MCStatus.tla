------------------------------ MODULE MCStatus ------------------------------
(* Instances of StatusIncidents: one bot, a short journal, a short time.      *)
EXTENDS StatusIncidents, TLC

Symmetry == Permutations(Workers)
=============================================================================
