---------------------------- MODULE MCPreparing ----------------------------
(* The event projects of the two servers, checked side by side: a behaviour  *)
(* is one of the Cloudflare room or of the native server, and the other      *)
(* stays as it began.  The Cloudflare room has three scenarios, with bounds  *)
(* of their own.                                                             *)
EXTENDS EventProjects

CONSTANTS
  t1, t2, none,
  Package, FaultyFile, NativeMaxId, NativeMaxFault   \* of the native server

VARIABLES scenario, core, listed, nativeDisk, job, given, failures

native == <<core, listed, nativeDisk, job, given, failures>>

N == INSTANCE NativeEvents WITH
       projects <- listed, disk <- nativeDisk, fresh <- given, faults <- failures,
       MaxId <- NativeMaxId, MaxFault <- NativeMaxFault

\* The bounds of the native server are numbers, too.
ASSUME PreparingAssumption == N!NativeConstants

PreparingInit ==
  /\ scenario \in {"records", "files", "hosting", "native"}
  /\ Init /\ N!Init

\* Bounds of the scenarios.  "records": races and penalties, no track.
\* "files": no race, one track.  "hosting": one project at a time, one race, no
\* penalty and no fault.
Bounds ==
  /\ scenario = "records" => room'.track = None /\ upload' = None
  /\ scenario = "files" => fresh'.stage = 1 /\ {room'.track, upload'} \subseteq {t1, None}
  /\ scenario = "hosting" => /\ Len(projects') <= 1 /\ fresh'.stage <= 2
                         /\ room'.penalties = 0 /\ faults' = 0

PreparingNext ==
  /\ UNCHANGED scenario
  /\ \/ scenario # "native" /\ Next /\ Bounds /\ UNCHANGED native
     \/ scenario = "native" /\ N!Next /\ UNCHANGED vars

PreparingSpec == PreparingInit /\ [][PreparingNext]_<<scenario, vars, native>>

\* Both servers keep to their types: no identifier is listed twice and at most
\* one project is active.
PreparingTypeOK == ProjectsTypeOK /\ N!NativeTypeOK

\* RaceEventLifecycle.cs: a receipt is returned only once all is saved.
ReceiptMeansSaved == N!ReceiptMeansSaved

\* The project of a pending switch of the native server is still there.
PendingProjectIsThere == N!PendingProjectIsThere

\* The native server goes from one event to the next in a single step.
SwitchImplemented == N!SwitchImplemented

\* The native server completes a project with a result of every stage.
CompletedWithStages == N!CompletedWithStages
=============================================================================
