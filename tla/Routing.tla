------------------------------ MODULE Routing ------------------------------
(***************************************************************************)
(* The scheduler with the addresses of net.go in place of an arbitrary     *)
(* relation: findFreeWorker considers a worker when getMatchingIP finds an *)
(* address, and the client will be sent that address.  Addrs is what each  *)
(* machine lists about itself, with the loopback left out; the scheduler   *)
(* sorts both lists before it compares them.                               *)
(***************************************************************************)
EXTENDS FifoDispatch, Addresses

CONSTANT Addrs

ASSUME RoutingAssumption ==
  /\ Addrs \in [Request \cup Worker -> Seq(Address)]
  /\ \A m \in Request \cup Worker :
       Sorted(Addrs[m]) /\ \A i \in DOMAIN Addrs[m] : Addrs[m][i].first # 127
  /\ CanReach = {p \in Request \X Worker :
                   MatchingIP(Addrs[p[1]], Addrs[p[2]]) # NoMatch}

AddressSet(m) == {Addrs[m][i] : i \in DOMAIN Addrs[m]}

(* The address in an answer is one of the worker's, in a network of the    *)
(* client, never loopback, and no other pair of addresses of the two would *)
(* have kept the job in a more private network.                            *)
RoutedPrivately ==
  \A r \in Request, w \in Worker : Valid(w) \in ToSet(sent[r]) =>
    LET b == MatchingIP(Addrs[r], Addrs[w]) IN
    /\ b \in AddressSet(w) /\ b.first # 127
    /\ \E a \in AddressSet(r) : InNetworkOf(a, b)
    /\ \A c \in AddressSet(r), d \in AddressSet(w) :
         InNetworkOf(c, d) => Rank(b) <= Rank(d)
=============================================================================
