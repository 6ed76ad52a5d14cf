-------------------------- MODULE MCFifoScheduler --------------------------
(* A small instance of the scheduler: three requests and two workers,      *)
(* where r1 reaches only w1, r3 only w2 and r2 both, so that a request can *)
(* be stuck in the queue while another one behind it can be served.  r2    *)
(* shares a private and a public network with w1.                          *)
EXTENDS Routing

CONSTANTS r1, r2, r3, w1, w2

MCRequest == {r1, r2, r3}
MCWorker  == {w1, w2}

Net(first, rest, span) == [first |-> first, rest |-> rest, span |-> span]

Loopback == Net(127, 1, 65536)

Interfaces ==
  (r1 :> {Loopback, Net(10, 4, 256), Net(200, 7, 256)})
  @@ (r2 :> {Loopback, Net(9, 5, 256), Net(192, 300, 256), Net(172, 70, 65536)})
  @@ (r3 :> {Loopback, Net(172, 71, 65536), Net(10, 600, 256)})
  @@ (w1 :> {Loopback, Net(10, 1, 256), Net(9, 1, 256), Net(192, 301, 256)})
  @@ (w2 :> {Loopback, Net(172, 1, 65536), Net(10, 1024, 256)})

MCAddrs == [m \in MCRequest \cup MCWorker |-> LocalIPAddrs(Interfaces[m])]

MCReach == {<<r, w>> \in MCRequest \X MCWorker :
              MatchingIP(MCAddrs[r], MCAddrs[w]) # NoMatch}
=============================================================================
