---------------------------- MODULE MCConditioning ----------------------------
(* Model checking of Conditioning: the bounds are given by the .cfg files. *)
EXTENDS Conditioning
===============================================================================
