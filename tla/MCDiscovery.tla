---------------------------- MODULE MCDiscovery ----------------------------
(* Names for the servers and ports of the runs.  Two servers, or two pings *)
(* that the same server answers, make an answer find the buffer full; with *)
(* two ports an answer can be late for its own search and, when the port   *)
(* is handed out again, reach another one.                                 *)
EXTENDS Discovery

CONSTANTS s1, s2, p1, p2
=============================================================================
