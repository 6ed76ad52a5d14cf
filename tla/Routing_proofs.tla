--------------------------- MODULE Routing_proofs ---------------------------
(***************************************************************************)
(* Proofs about the order and the match of addresses, for all addresses    *)
(* and lists of any length, and about the addresses that the scheduler     *)
(* hands out.                                                              *)
(***************************************************************************)
EXTENDS Routing, FifoScheduler_proofs

LEMMA RankFacts ==
  \A a : /\ Rank(a) \in 0 .. 3
         /\ Rank(a) = 0 <=> a.first = 192
         /\ Rank(a) = 1 <=> a.first = 172
         /\ Rank(a) = 2 <=> a.first = 10
  BY DEF Rank

(* ByPrivateIPAddr is what its comment says, 192 before 172 before 10      *)
(* before the public addresses, and by number within each.                 *)
THEOREM OrderIsPrivacy ==
  \A a, b \in Address :
    Less(a, b) <=>
      \/ Rank(a) < Rank(b)
      \/ /\ Rank(a) = Rank(b)
         /\ a.first < b.first \/ (a.first = b.first /\ a.rest < b.rest)
<1> SUFFICES ASSUME NEW a \in Address, NEW b \in Address
             PROVE  Less(a, b) <=>
                      \/ Rank(a) < Rank(b)
                      \/ /\ Rank(a) = Rank(b)
                         /\ \/ a.first < b.first
                            \/ a.first = b.first /\ a.rest < b.rest
  OBVIOUS
<1>1. /\ a.first \in Nat /\ b.first \in Nat
      /\ a.rest \in Nat /\ b.rest \in Nat
  BY DEF Address, Octet
<1>2. CASE a.first = b.first
  <2>1. Less(a, b) <=> a.rest < b.rest
    BY <1>2 DEF Less
  <2>2. Rank(a) = Rank(b)
    BY <1>2 DEF Rank
  <2> QED
    BY <1>1, <1>2, <2>1, <2>2, RankFacts
<1>3. CASE a.first # b.first /\ a.first \in {192, 172, 10}
  <2>1. Less(a, b) <=> \/ a.first = 192
                       \/ a.first = 172 /\ b.first # 192
                       \/ a.first = 10 /\ b.first \notin {192, 172}
    <3>1. CASE a.first = 192
      BY <1>3, <3>1 DEF Less
    <3>2. CASE a.first = 172
      BY <1>3, <3>2 DEF Less
    <3>3. CASE a.first = 10
      BY <1>3, <3>3 DEF Less
    <3> QED
      BY <1>3, <3>1, <3>2, <3>3
  <2> QED
    BY <1>1, <1>3, <2>1, RankFacts
<1>4. CASE a.first # b.first /\ a.first \notin {192, 172, 10}
  <2>1. Less(a, b) <=> b.first \notin {192, 172, 10} /\ a.first < b.first
    BY <1>4 DEF Less
  <2> QED
    BY <1>1, <1>4, <2>1, RankFacts
<1> QED
  BY <1>2, <1>3, <1>4

LEMMA AddressesTyped ==
  \A m \in Request \cup Worker :
    /\ AddressSet(m) \subseteq Address
    /\ DOMAIN Addrs[m] = 1 .. Len(Addrs[m]) /\ Len(Addrs[m]) \in Nat
    /\ \A i \in DOMAIN Addrs[m] : Addrs[m][i] \in Address
  BY RoutingAssumption, LenProperties DEF AddressSet

LEMMA NotLessNotMorePrivate ==
  ASSUME NEW a \in Address, NEW b \in Address, ~ Less(a, b)
  PROVE  Rank(b) <= Rank(a)
<1>1. ~ (Rank(a) < Rank(b))
  BY OrderIsPrivacy
<1>2. Rank(a) \in 0 .. 3 /\ Rank(b) \in 0 .. 3
  BY RankFacts
<1> QED
  BY <1>1, <1>2

(* With this order, sorting is well defined: no two addresses precede each *)
(* other, and precedence is transitive.                                    *)
THEOREM LessIsStrictOrder ==
  \A a, b, c \in Address :
    /\ ~ (Less(a, b) /\ Less(b, a))
    /\ Less(a, b) /\ Less(b, c) => Less(a, c)
    /\ Less(a, b) \/ Less(b, a) \/ (a.first = b.first /\ a.rest = b.rest)
<1> SUFFICES ASSUME NEW a \in Address, NEW b \in Address, NEW c \in Address
             PROVE  /\ ~ (Less(a, b) /\ Less(b, a))
                    /\ Less(a, b) /\ Less(b, c) => Less(a, c)
                    /\ \/ Less(a, b) \/ Less(b, a)
                       \/ (a.first = b.first /\ a.rest = b.rest)
  OBVIOUS
<1>1. /\ a.first \in Nat /\ b.first \in Nat /\ c.first \in Nat
      /\ a.rest \in Nat /\ b.rest \in Nat /\ c.rest \in Nat
      /\ Rank(a) \in 0 .. 3 /\ Rank(b) \in 0 .. 3 /\ Rank(c) \in 0 .. 3
  BY DEF Address, Octet, Rank
<1>2. a.first = b.first => Rank(a) = Rank(b)
  BY DEF Rank
<1> QED
  BY <1>1, <1>2, OrderIsPrivacy

-----------------------------------------------------------------------------
LEMMA LeastElement ==
  ASSUME NEW S \in SUBSET Nat, S # {}
  PROVE  \E m \in S : \A k \in S : m <= k
<1> DEFINE Below(m) == {k \in S : k < m}
           T == {Below(m) : m \in S}
           R == StrictSubsetOrdering(Nat)
<1>1. IsWellFoundedOn(R, FiniteSubsetsOf(Nat))
  BY FS_StrictSubsetOrderingWellFounded
<1>2. T \subseteq FiniteSubsetsOf(Nat) /\ T # {}
  <2>1. ASSUME NEW m \in S
        PROVE  Below(m) \in SUBSET Nat /\ IsFiniteSet(Below(m))
    <3>1. m \in Nat /\ Below(m) \subseteq Nat
      OBVIOUS
    <3>2. \A k \in Below(m) : k <= m
      BY <3>1
    <3> HIDE DEF Below
    <3> QED
      BY <3>1, <3>2, FS_BoundedSetOfNaturals
  <2> HIDE DEF Below
  <2> QED
    BY <2>1 DEF FiniteSubsetsOf
<1>3. PICK x \in T : \A y \in T : <<y, x>> \notin R
  BY <1>1, <1>2, WFMin
<1>4. PICK m \in S : x = Below(m)
  OBVIOUS
<1>5. ASSUME NEW k \in S, k < m
      PROVE  FALSE
  <2>1. /\ Below(k) \subseteq Below(m) /\ k \in Below(m) /\ k \notin Below(k)
        /\ Below(k) \in SUBSET Nat /\ Below(m) \in SUBSET Nat
    <3>1. k \in Nat /\ m \in Nat /\ Below(k) \subseteq Nat /\ Below(m) \subseteq Nat
      OBVIOUS
    <3>2. Below(k) \subseteq Below(m)
      <4> SUFFICES ASSUME NEW n \in S, n < k PROVE n < m
        OBVIOUS
      <4> QED
        BY <1>5, <3>1
    <3> QED
      BY <1>5, <3>1, <3>2
  <2>2. <<Below(k), Below(m)>> \in R
    BY <2>1 DEF StrictSubsetOrdering
  <2> QED
    BY <1>3, <1>4, <1>5, <2>2
<1> QED
  BY <1>5

(* The two loops of getMatchingIP end at the first hit, if there is one.   *)
LEMMA FirstHitIsFirst ==
  ASSUME NEW as \in Seq(Address), NEW bs \in Seq(Address), Hits(as, bs) # {}
  PROVE  /\ FirstHit(as, bs) \in Hits(as, bs)
         /\ \A q \in Hits(as, bs) :
              \/ FirstHit(as, bs)[1] < q[1]
              \/ FirstHit(as, bs)[1] = q[1] /\ FirstHit(as, bs)[2] <= q[2]
<1> DEFINE H == Hits(as, bs)
           rows == {p[1] : p \in H}
<1>1. H \subseteq Nat \X Nat
  <2>1. /\ DOMAIN as = 1 .. Len(as) /\ Len(as) \in Nat
        /\ DOMAIN bs = 1 .. Len(bs) /\ Len(bs) \in Nat
    BY LenProperties
  <2>2. H \subseteq (DOMAIN as) \X (DOMAIN bs)
    BY DEF Hits
  <2>3. DOMAIN as \subseteq Nat /\ DOMAIN bs \subseteq Nat
    <3>1. \A n \in Nat : 1 .. n \subseteq Nat
      OBVIOUS
    <3> QED
      BY <2>1, <3>1, Zenon
  <2> HIDE DEF H
  <2> QED
    BY <2>2, <2>3, Zenon
<1> HIDE DEF H
<1>2. PICK i \in rows : \A k \in rows : i <= k
  <2>1. rows # {} /\ rows \subseteq Nat
    BY <1>1 DEF H
  <2> HIDE DEF rows
  <2> QED
    BY <2>1, LeastElement
<1> DEFINE columns == {p[2] : p \in {q \in H : q[1] = i}}
<1>3. PICK j \in columns : \A k \in columns : j <= k
  <2>1. columns # {} /\ columns \subseteq Nat
    BY <1>1, <1>2
  <2> HIDE DEF columns
  <2> QED
    BY <2>1, LeastElement
<1>4. PICK p \in H : p[1] = i /\ p[2] = j
  BY <1>3
<1>5. \A q \in H : p[1] < q[1] \/ (p[1] = q[1] /\ p[2] <= q[2])
  <2> SUFFICES ASSUME NEW q \in H
               PROVE  p[1] < q[1] \/ (p[1] = q[1] /\ p[2] <= q[2])
    OBVIOUS
  <2>1. q[1] \in Nat /\ q[2] \in Nat /\ p[1] \in Nat /\ p[2] \in Nat
    BY <1>1
  <2>2. i <= q[1]
    BY <1>2
  <2>3. q[1] = i => j <= q[2]
    BY <1>3
  <2> QED
    BY <1>4, <2>1, <2>2, <2>3
<1> QED
  BY <1>4, <1>5 DEF FirstHit, H

(* getMatchingIP of two sorted lists finds an address if any pair shares a *)
(* network, and then in the most private of the shared networks.           *)
LEMMA MatchIsMostPrivate ==
  ASSUME NEW as \in Seq(Address), NEW bs \in Seq(Address), Sorted(as),
         MatchingIP(as, bs) # NoMatch
  PROVE  LET b == MatchingIP(as, bs) IN
         /\ \E j \in DOMAIN bs : b = bs[j]
         /\ \E i \in DOMAIN as : InNetworkOf(as[i], b)
         /\ \A i \in DOMAIN as, j \in DOMAIN bs :
              InNetworkOf(as[i], bs[j]) => Rank(b) <= Rank(bs[j])
<1> DEFINE p == FirstHit(as, bs)
           b == MatchingIP(as, bs)
<1>1. Hits(as, bs) # {} /\ b = bs[p[2]]
  BY DEF MatchingIP
<1>2. /\ p[1] \in DOMAIN as /\ p[2] \in DOMAIN bs
      /\ InNetworkOf(as[p[1]], bs[p[2]])
  BY <1>1, FirstHitIsFirst DEF Hits
<1>3. ASSUME NEW i \in DOMAIN as, NEW j \in DOMAIN bs,
             InNetworkOf(as[i], bs[j])
      PROVE  Rank(b) <= Rank(bs[j])
  <2>1. <<i, j>> \in Hits(as, bs)
    BY <1>3 DEF Hits
  <2>2. p[1] < i \/ p[1] = i
    BY <1>1, <2>1, FirstHitIsFirst
  <2>3. as[i] \in Address /\ as[p[1]] \in Address
    BY <1>2, LenProperties
  <2>4. Rank(as[p[1]]) <= Rank(as[i])
    <3>1. ~ Less(as[i], as[p[1]])
      <4>1. CASE p[1] = i
        BY <2>3, <4>1, LessIsStrictOrder
      <4>2. CASE p[1] < i
        BY <1>2, <4>2 DEF Sorted
      <4> QED
        BY <2>2, <4>1, <4>2
    <3> QED
      BY <2>3, <3>1, NotLessNotMorePrivate
  <2>5. Rank(b) = Rank(as[p[1]]) /\ Rank(bs[j]) = Rank(as[i])
    BY <1>1, <1>2, <1>3 DEF InNetworkOf, Rank
  <2> QED
    BY <2>4, <2>5
<1> QED
  BY <1>1, <1>2, <1>3

-----------------------------------------------------------------------------
(* Every worker in an answer can be reached by the one who asked.          *)
AnswersReachable ==
  \A r \in Request, w \in Worker :
    (\E i \in DOMAIN sent[r] : sent[r][i] = Valid(w)) => <<r, w>> \in CanReach

LEMMA ReachableStep ==
  ASSUME IInv, AnswersReachable, [Next]_vars
  PROVE  AnswersReachable'
<1> USE DEF IInv
<1>1. CASE UNCHANGED sent
  BY <1>1 DEF AnswersReachable
<1>2. ASSUME NEW r \in Request, NEW x \in Response, Send(r, x),
             \A w \in Worker : x = Valid(w) => <<r, w>> \in CanReach
      PROVE  AnswersReachable'
  <2>1. /\ sent'[r] = Append(sent[r], x)
        /\ \A q \in Request : q # r => sent'[q] = sent[q]
    BY <1>2, SendFacts
  <2>2. \A i \in DOMAIN sent'[r] :
          \/ i \in DOMAIN sent[r] /\ sent'[r][i] = sent[r][i]
          \/ sent'[r][i] = x
    <3>1. sent[r] \in Seq(Response)
      BY DEF TypeOK
    <3> QED
      BY <2>1, <3>1, AppendProperties, LenProperties
  <2> QED
    BY <1>2, <2>1, <2>2 DEF AnswersReachable
<1>3. \A v, w \in Worker : Valid(v) = Valid(w) => v = w
  BY DEF Valid
<1>4. \A r : FindFreeWorker(r) \subseteq {w \in Worker : <<r, w>> \in CanReach}
  BY FreeWorkers DEF FindFreeWorker, Fastest, Candidates
<1>5. ASSUME NEW r \in Request, Schedule(r)
      PROVE  AnswersReachable'
  <2>1. CASE Send(r, NoWorkers) \/ Send(r, Queued)
    <3>1. \A w \in Worker : NoWorkers # Valid(w) /\ Queued # Valid(w)
      BY DEF NoWorkers, Queued, Valid
    <3> QED
      BY <1>2, <2>1, <3>1, ResponseFacts
  <2>2. ASSUME NEW w \in FindFreeWorker(r), Send(r, Valid(w))
        PROVE  AnswersReachable'
    <3>1. w \in Worker /\ <<r, w>> \in CanReach /\ Valid(w) \in Response
      BY <1>4, ResponseFacts
    <3>2. \A v \in Worker : Valid(w) = Valid(v) => <<r, v>> \in CanReach
      BY <1>3, <3>1
    <3> QED
      BY <1>2, <2>2, <3>1, <3>2
  <2> QED
    BY <1>5, <2>1, <2>2 DEF Schedule
<1>6. ASSUME NEW i \in DOMAIN requests, NEW w \in Worker, PlaceFirst(i, w)
      PROVE  AnswersReachable'
  <2>1. requests[i] \in Request
    BY LenProperties DEF TypeOK
  <2>2. Send(requests[i], Valid(w)) /\ w \in FindFreeWorker(requests[i])
    BY <1>6 DEF PlaceFirst
  <2> QED
    <3>1. /\ <<requests[i], w>> \in CanReach
          /\ Valid(w) \in Response
      BY <1>4, <2>2, ResponseFacts
    <3>2. \A v \in Worker : Valid(w) = Valid(v) => <<requests[i], v>> \in CanReach
      BY <1>3, <3>1
    <3> QED
      BY <1>2, <2>1, <2>2, <3>1, <3>2
<1> QED
  BY <1>1, <1>5, <1>6, WhoSends

LEMMA ReachableImpliesRouted == AnswersReachable => RoutedPrivately
<1> SUFFICES ASSUME AnswersReachable, NEW r \in Request, NEW w \in Worker,
                    Valid(w) \in ToSet(sent[r])
             PROVE  LET b == MatchingIP(Addrs[r], Addrs[w]) IN
                    /\ b \in AddressSet(w) /\ b.first # 127
                    /\ \E a \in AddressSet(r) : InNetworkOf(a, b)
                    /\ \A c \in AddressSet(r), d \in AddressSet(w) :
                         InNetworkOf(c, d) => Rank(b) <= Rank(d)
  BY DEF RoutedPrivately
<1>1. \E i \in DOMAIN sent[r] : sent[r][i] = Valid(w)
  BY DEF ToSet
<1>2. MatchingIP(Addrs[r], Addrs[w]) # NoMatch
  BY <1>1, RoutingAssumption DEF AnswersReachable
<1>3. /\ Addrs[r] \in Seq(Address) /\ Addrs[w] \in Seq(Address)
      /\ Sorted(Addrs[r])
      /\ \A j \in DOMAIN Addrs[w] : Addrs[w][j].first # 127
  BY RoutingAssumption
<1> QED
  BY <1>2, <1>3, MatchIsMostPrivate DEF AddressSet

(* The scheduler sends every client to an address it can connect to, in    *)
(* the most private network that the two machines share.                   *)
THEOREM AnswersStayPrivate == Spec => []RoutedPrivately
<1>1. Init => AnswersReachable
  BY DEF Init, AnswersReachable
<1>2. IInv /\ AnswersReachable /\ [Next]_vars => AnswersReachable'
  BY ReachableStep
<1> QED
  BY <1>1, <1>2, Invariance, ReachableImpliesRouted, PTL DEF Spec
=============================================================================
