------------------------- MODULE MCUpdatePublisher -------------------------
(* Up to three monitor connections, where m1 and m2 come from one program  *)
(* that reconnects and m3 from another one, the ticker and one goroutine   *)
(* that brings in finished jobs.                                           *)
EXTENDS UpdatePublisher

CONSTANTS m1, m2, m3, h1, h3, tick, job

MCMonitor  == {m1, m2, m3}
Reconnect  == {m1, m2}
MCHost     == {h1, h3}
MCProducer == {tick, job}
MCHostOf   == [m \in Monitor |-> IF m = m3 THEN h3 ELSE h1]
=============================================================================
