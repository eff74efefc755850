-------------------------- MODULE RecorderRefines ---------------------------
(* Recorder implements RecorderService, as long as no other process locks   *)
(* record.dat (LockFails): none of this repository does.                    *)
EXTENDS Recorder

Service == INSTANCE RecorderService WITH
  go  <- stateGo,
  on  <- Alive /\ stateGoing = "Run",
  dat <- IF dat \in {"Run", "Empty"} THEN dat ELSE "Other",
  up  <- Alive

\* Every step of the record process is a step of the service or none.
ImplementsService == Service!Spec
=============================================================================
