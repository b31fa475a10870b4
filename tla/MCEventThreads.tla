--------------------------- MODULE MCEventThreads ---------------------------
(* EventThreadsClient for TLC: a queue of two events, two functions, and   *)
(* enough sends to fill the queue behind a busy worker.                    *)
EXTENDS EventThreadsClient
=============================================================================
