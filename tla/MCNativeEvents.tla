-------------------------- MODULE MCNativeEvents ---------------------------
(* The native server alone, for the run that looks at one of its properties. *)
EXTENDS NativeEvents
=============================================================================
