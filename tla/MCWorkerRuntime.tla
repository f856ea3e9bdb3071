--------------------------- MODULE MCWorkerRuntime ---------------------------
(***************************************************************************)
(* Instances of WorkerRuntime for TLC.                                     *)
(***************************************************************************)
EXTENDS WorkerRuntime

CONSTANTS j1, w1

MCMaxAttempts == [j \in Jobs |-> 2]
MCPriority == [j \in Jobs |-> 0]
MCDeadline == [j \in Jobs |-> 3]
\* The second worker lacks the handlers.
FirstHandles == {w1} \X Jobs

MCKey == [j \in Jobs |-> None]
=============================================================================
