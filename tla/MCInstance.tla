----------------------------- MODULE MCInstance -----------------------------
(* Instances of InstanceClaims: a few concurrent calls on one bot.           *)
EXTENDS InstanceClaims, TLC

Symmetries == Permutations(Calls)
=============================================================================
