---------------------------- MODULE MCWorkerLink ----------------------------
(* Two machines that share three connections: one of them can reconnect    *)
(* while a goroutine of its previous connection has not noticed yet.       *)
EXTENDS WorkerLink

CONSTANTS w1, w2, c1, c2, c3

MCWorker == {w1, w2}
MCConn   == {c1, c2, c3}
=============================================================================
