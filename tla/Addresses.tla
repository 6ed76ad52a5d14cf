----------------------------- MODULE Addresses -----------------------------
(***************************************************************************)
(* The IPv4 addresses of net.go: their order, the list of a machine, and   *)
(* the match of two lists.  An address is its first octet and the number   *)
(* formed by the other three; its network, of at least eight mask bits,    *)
(* holds span consecutive addresses.                                       *)
(***************************************************************************)
EXTENDS Integers, Sequences, SequencesExt

Octet   == 0 .. 255
Address == [first : Octet, rest : Nat, span : Nat \ {0}]

NoMatch == [first |-> -1, rest |-> 0, span |-> 1]   \* the zero IPNet

(* Mutant: the order of the numbers.                                       *)
LessNumeric(l, r) ==
  l.first < r.first \/ (l.first = r.first /\ l.rest < r.rest)

(* ByPrivateIPAddr.Less                                                    *)
Less(l, r) ==
  CASE l.first = r.first -> l.rest < r.rest
    [] l.first # r.first /\ l.first = 192 -> TRUE
    [] l.first # r.first /\ l.first = 172 -> r.first # 192
    [] l.first # r.first /\ l.first = 10  -> r.first \notin {192, 172}
    [] l.first # r.first /\ l.first \notin {192, 172, 10} ->
         r.first \notin {192, 172, 10} /\ l.first < r.first

(* getLocalIPAddrs: what the interfaces have, without loopback, sorted.    *)
LocalIPAddrs(interfaces) ==
  SetToSortSeq({a \in interfaces : a.first # 127}, Less)

(* a.Contains(b.IP)                                                        *)
InNetworkOf(a, b) ==
  a.first = b.first /\ a.rest \div a.span = b.rest \div a.span

Hits(as, bs) ==
  {p \in (DOMAIN as) \X (DOMAIN bs) : InNetworkOf(as[p[1]], bs[p[2]])}

(* Mutant: go on after a match.                                            *)
LastMatchingIP(as, bs) ==
  IF Hits(as, bs) = {} THEN NoMatch
  ELSE LET last == CHOOSE p \in Hits(as, bs) : \A q \in Hits(as, bs) :
                     p[1] > q[1] \/ (p[1] = q[1] /\ p[2] >= q[2])
       IN bs[last[2]]

(* getMatchingIP: the first hit of two nested loops.                       *)
FirstHit(as, bs) ==
  CHOOSE p \in Hits(as, bs) : \A q \in Hits(as, bs) :
    p[1] < q[1] \/ (p[1] = q[1] /\ p[2] <= q[2])

MatchingIP(as, bs) ==
  IF Hits(as, bs) = {} THEN NoMatch ELSE bs[FirstHit(as, bs)[2]]

-----------------------------------------------------------------------------
(* The order that the comment on ByPrivateIPAddr describes.                *)
Rank(a) ==
  CASE a.first = 192 -> 0 [] a.first = 172 -> 1 [] a.first = 10 -> 2
    [] OTHER -> 3

Sorted(s) == \A i, j \in DOMAIN s : i < j => ~ Less(s[j], s[i])
=============================================================================
