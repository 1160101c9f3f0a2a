---------------------------- MODULE EventSwitch -----------------------------
(***************************************************************************)
(* What preparing an event promises: the room goes from one event to the   *)
(* next in a single step, together with the project that records it and    *)
(* the configuration it is run with, or not at all.  NativeEvents          *)
(* implements it with five files, any of which may fail to be written,     *)
(* and a process that may stop between any two of them.                    *)
(***************************************************************************)
CONSTANTS
  Id,      \* of events; a project and the event it records share theirs
  Nobody   \* no project, no event

VARIABLES
  event,   \* the event the room runs
  active,  \* the project that records it, or Nobody
  config   \* the project whose configuration the room uses, or Nobody

vars == <<event, active, config>>

Init == event = Nobody /\ active = Nobody /\ config = Nobody

\* An event without a project keeps the configuration of the last one.
Switch(id) ==
  /\ event' = id
  /\ \/ active' = id /\ config' = id
     \/ active' = Nobody /\ config' = config

Spec == Init /\ [][\E id \in Id : Switch(id)]_vars
=============================================================================
