----------------------------- MODULE MCOfflineJobs -----------------------------
(* Model checking of OfflineJobs: the bounds are given by the .cfg files. *)
EXTENDS OfflineJobs
===============================================================================
