------------------------------ MODULE MCAlert ------------------------------
(* Instances of AlertDelivery in which every worker takes from the queue of *)
(* every destination.  Events and announcers are interchangeable.           *)
EXTENDS AlertDelivery, TLC

SharedQueue == [w \in Workers |-> Dests]

Symmetry == Permutations(Events) \cup Permutations(Announcers)
=============================================================================
