--------------------------- MODULE MCWorkerDeploy ---------------------------
(* An instance of WorkerDeploy for TLC. *)
EXTENDS WorkerDeploy, TLC

CONSTANTS r1, v1
MCPacket == r1 :> v1
=============================================================================
