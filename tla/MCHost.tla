------------------------------ MODULE MCHost ------------------------------
(* HostLifecycle with small constants; the provisioning calls are            *)
(* interchangeable.                                                          *)
EXTENDS HostLifecycle, TLC

Symmetry == Permutations(Provisioners)
=============================================================================
