-------------------------- MODULE MCEventProjects --------------------------
(* Constants for model checking EventProjects. *)
EXTENDS EventProjects
CONSTANTS t1, t2, none
=============================================================================
