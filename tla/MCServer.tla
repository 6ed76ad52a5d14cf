------------------------------ MODULE MCServer ------------------------------
(* Two clients and one worker that both can reach: enough for a client     *)
(* that waits behind another one, and for a scheduler that blocks on the   *)
(* channel of one request while the other one needs the mutex.             *)
EXTENDS Server

CONSTANTS r1, r2, w1

MCRequest == {r1, r2}
MCWorker  == {w1}
MCReach   == MCRequest \X MCWorker
=============================================================================
