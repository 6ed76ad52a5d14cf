------------------------ MODULE FifoScheduler_proofs ------------------------
(***************************************************************************)
(* Proofs about FifoScheduler, for any set of requests, any finite set of  *)
(* workers and any reachability relation.                                  *)
(*                                                                         *)
(* The four invariants are proved together: AnswerProtocol needs           *)
(* QueueIsWaiting (what is in the queue was told "queued" and nothing      *)
(* else), and both action properties are read off one step from a state    *)
(* that satisfies the conjunction.                                         *)
(***************************************************************************)
EXTENDS FifoScheduler, FiniteSetTheorems, SequenceTheorems,
        WellFoundedInduction, TLAPS

(* append(s[:i], s[i+1:]...): the element at i is gone, those after it     *)
(* move up by one, nothing else changes.                                   *)
LEMMA RemoveAtFacts ==
  ASSUME NEW S, NEW q \in Seq(S), NEW i \in DOMAIN q
  PROVE  /\ RemoveAt(q, i) \in Seq(S)
         /\ Len(RemoveAt(q, i)) = Len(q) - 1
         /\ DOMAIN RemoveAt(q, i) = 1 .. (Len(q) - 1)
         /\ \A j \in 1 .. (Len(q) - 1) :
              RemoveAt(q, i)[j] = IF j < i THEN q[j] ELSE q[j + 1]
<1> DEFINE a == SubSeq(q, 1, i - 1)
           b == SubSeq(q, i + 1, Len(q))
<1>1. /\ Len(q) \in Nat
      /\ DOMAIN q = 1 .. Len(q)
      /\ \A j \in 1 .. Len(q) : q[j] \in S
  BY LenProperties
<1>2. /\ a \in Seq(S)
      /\ Len(a) = i - 1
      /\ \A j \in 1 .. (i - 1) : a[j] = q[j]
  <2>1. \A j \in 1 .. (i - 1) : q[j] \in S
    BY <1>1
  <2>2. /\ a \in Seq(S)
        /\ Len(a) = IF 1 <= i - 1 THEN (i - 1) - 1 + 1 ELSE 0
        /\ \A j \in 1 .. ((i - 1) - 1 + 1) : a[j] = q[1 + j - 1]
    BY <1>1, <2>1, SubSeqProperties
  <2> QED
    BY <1>1, <2>2
<1>3. /\ b \in Seq(S)
      /\ Len(b) = Len(q) - i
      /\ \A j \in 1 .. (Len(q) - i) : b[j] = q[i + j]
  <2>1. \A j \in (i + 1) .. Len(q) : q[j] \in S
    BY <1>1
  <2>2. /\ b \in Seq(S)
        /\ Len(b) = IF i + 1 <= Len(q) THEN Len(q) - (i + 1) + 1 ELSE 0
        /\ \A j \in 1 .. (Len(q) - (i + 1) + 1) : b[j] = q[(i + 1) + j - 1]
    BY <1>1, <2>1, SubSeqProperties
  <2>3. /\ i \in Int /\ i <= Len(q)
        /\ Len(q) - (i + 1) + 1 = Len(q) - i
        /\ \A j \in Int : (i + 1) + j - 1 = i + j
    BY <1>1
  <2>4. Len(b) = Len(q) - i
    <3>1. Len(b) = IF i + 1 <= Len(q) THEN Len(q) - (i + 1) + 1 ELSE 0
      BY <2>2
    <3>2. Len(q) \in Int /\ i \in Int /\ i <= Len(q)
      BY <1>1, <2>3
    <3> HIDE DEF b
    <3> QED
      BY <3>1, <3>2
  <2>5. ASSUME NEW j \in 1 .. (Len(q) - i)
        PROVE  b[j] = q[i + j]
    <3>1. j \in 1 .. (Len(q) - (i + 1) + 1) /\ (i + 1) + j - 1 = i + j
      BY <2>3
    <3>2. b[j] = q[(i + 1) + j - 1]
      BY <2>2, <3>1
    <3> QED
      BY <3>1, <3>2
  <2> HIDE DEF b
  <2> QED
    BY <2>2, <2>4, <2>5
<1>4. RemoveAt(q, i) = a \o b
  BY DEF RemoveAt
<1>5. /\ a \o b \in Seq(S)
      /\ Len(a \o b) = Len(a) + Len(b)
      /\ \A j \in 1 .. (Len(a) + Len(b)) :
           (a \o b)[j] = IF j <= Len(a) THEN a[j] ELSE b[j - Len(a)]
  BY <1>2, <1>3, ConcatProperties
<1> HIDE DEF a, b
<1>6. Len(a \o b) = Len(q) - 1
  BY <1>1, <1>2, <1>3, <1>5
<1>7. DOMAIN (a \o b) = 1 .. (Len(q) - 1)
  BY <1>5, <1>6, LenProperties
<1>8. ASSUME NEW j \in 1 .. (Len(q) - 1)
      PROVE  (a \o b)[j] = IF j < i THEN q[j] ELSE q[j + 1]
  <2>1. CASE j < i
    BY <1>1, <1>2, <1>3, <1>5, <2>1
  <2>2. CASE ~ (j < i)
    <3>1. /\ (a \o b)[j] = b[j - (i - 1)]
          /\ j - (i - 1) \in 1 .. (Len(q) - i)
      BY <1>1, <1>2, <1>3, <1>5, <2>2
    <3> QED
      BY <1>1, <1>3, <2>2, <3>1
  <2> QED
    BY <2>1, <2>2
<1> QED
  BY <1>4, <1>5, <1>6, <1>7, <1>8

(* A finite non-empty set of workers has a fastest one: the linear search  *)
(* of findFreeWorker comes back empty-handed only when no worker passes    *)
(* its tests.                                                              *)
LEMMA FastestExists ==
  ASSUME TypeOK, NEW r, Candidates(r) # {}
  PROVE  FindFreeWorker(r) # {}
<1> DEFINE C == Candidates(r)
           Faster(w) == {v \in C : workers[v].speed > workers[w].speed}
           T == {Faster(w) : w \in C}
           R == StrictSubsetOrdering(Worker)
<1>1. C \subseteq Worker /\ \A w \in C : workers[w].speed \in Nat
  BY SchedulerAssumption DEF Parameters, TypeOK, Candidates, WorkerState
<1>2. IsWellFoundedOn(R, FiniteSubsetsOf(Worker))
  BY FS_StrictSubsetOrderingWellFounded
<1>3. T \subseteq FiniteSubsetsOf(Worker) /\ T # {}
  <2>1. FiniteSubsetsOf(Worker) = SUBSET Worker
    BY SchedulerAssumption, FS_FiniteSubsetsOfFinite DEF Parameters
  <2>2. \A w \in C : Faster(w) \in SUBSET Worker
    BY <1>1
  <2>3. T \subseteq SUBSET Worker
    BY <2>2
  <2>4. T # {}
    <3>1. PICK w \in C : TRUE
      OBVIOUS
    <3>2. Faster(w) \in T
      BY <3>1
    <3> QED
      BY <3>2
  <2> QED
    BY <2>1, <2>3, <2>4
<1>4. PICK x \in T : \A y \in T : <<y, x>> \notin R
  BY <1>2, <1>3, WFMin
<1>5. PICK w \in C : x = Faster(w)
  OBVIOUS
<1>6. \A v \in C : workers[v].speed <= workers[w].speed
  <2> SUFFICES ASSUME NEW v \in C, workers[v].speed > workers[w].speed
               PROVE  FALSE
    BY <1>1
  <2>1. Faster(v) \subseteq Faster(w) /\ v \in Faster(w) /\ v \notin Faster(v)
    BY <1>1
  <2>2. <<Faster(v), Faster(w)>> \in R
    BY <1>1, <2>1 DEF StrictSubsetOrdering
  <2> QED
    BY <1>4, <1>5, <2>2
<1> QED
  BY <1>6 DEF FindFreeWorker, Fastest

-----------------------------------------------------------------------------
(* Removing one occurrence from a queue without repetitions removes exactly *)
(* that element.                                                            *)
LEMMA RemoveAtMembers ==
  ASSUME NEW S, NEW q \in Seq(S), NEW i \in DOMAIN q,
         \A j, k \in DOMAIN q : q[j] = q[k] => j = k
  PROVE  LET p == RemoveAt(q, i)
         IN  /\ \A j, k \in DOMAIN p : p[j] = p[k] => j = k
             /\ \A e : (\E j \in DOMAIN p : p[j] = e)
                         <=> (e # q[i] /\ \E j \in DOMAIN q : q[j] = e)
<1> DEFINE p == RemoveAt(q, i)
<1>1. /\ Len(q) \in Nat /\ i \in 1 .. Len(q)
      /\ DOMAIN q = 1 .. Len(q)
      /\ DOMAIN p = 1 .. (Len(q) - 1)
      /\ \A j \in DOMAIN p : p[j] = IF j < i THEN q[j] ELSE q[j + 1]
  <2>1. /\ Len(q) \in Nat /\ i \in 1 .. Len(q)
        /\ DOMAIN q = 1 .. Len(q)
    BY LenProperties
  <2>2. /\ DOMAIN p = 1 .. (Len(q) - 1)
        /\ \A j \in 1 .. (Len(q) - 1) :
             p[j] = IF j < i THEN q[j] ELSE q[j + 1]
    BY RemoveAtFacts
  <2> HIDE DEF p
  <2> QED
    BY <2>1, <2>2
<1> HIDE DEF p
<1> DEFINE old(j) == IF j < i THEN j ELSE j + 1
<1>2. \A j \in DOMAIN p : /\ old(j) \in DOMAIN q
                          /\ old(j) # i
                          /\ p[j] = q[old(j)]
  BY <1>1
<1>3. \A j, k \in DOMAIN p : old(j) = old(k) => j = k
  BY <1>1
<1>4. \A j \in DOMAIN q : j # i => \E k \in DOMAIN p : old(k) = j
  <2> SUFFICES ASSUME NEW j \in DOMAIN q, j # i
               PROVE  \E k \in DOMAIN p : old(k) = j
    OBVIOUS
  <2>1. CASE j < i
    BY <1>1, <2>1
  <2>2. CASE j > i
    <3>1. j - 1 \in DOMAIN p /\ old(j - 1) = j
      BY <1>1, <2>2
    <3> QED
      BY <3>1
  <2> QED
    BY <1>1, <2>1, <2>2
<1> HIDE DEF old
<1>5. \A j, k \in DOMAIN p : p[j] = p[k] => j = k
  BY <1>2, <1>3
<1>6. ASSUME NEW e
      PROVE  (\E j \in DOMAIN p : p[j] = e)
               <=> (e # q[i] /\ \E j \in DOMAIN q : q[j] = e)
  BY <1>2, <1>4
<1> QED
  BY <1>5, <1>6 DEF p

(* Appending an element that was not in the queue.                         *)
LEMMA AppendMembers ==
  ASSUME NEW S, NEW q \in Seq(S), NEW x \in S,
         \A j, k \in DOMAIN q : q[j] = q[k] => j = k,
         \A j \in DOMAIN q : q[j] # x
  PROVE  LET p == Append(q, x)
         IN  /\ \A j, k \in DOMAIN p : p[j] = p[k] => j = k
             /\ \A e : (\E j \in DOMAIN p : p[j] = e)
                         <=> (e = x \/ \E j \in DOMAIN q : q[j] = e)
<1> DEFINE p == Append(q, x)
<1>1. /\ Len(q) \in Nat
      /\ DOMAIN q = 1 .. Len(q)
      /\ DOMAIN p = 1 .. (Len(q) + 1)
      /\ \A j \in 1 .. Len(q) : p[j] = q[j]
      /\ p[Len(q) + 1] = x
  BY AppendProperties, LenProperties
<1> HIDE DEF p
<1>2. \A j \in DOMAIN p : j \in DOMAIN q \/ j = Len(q) + 1
  BY <1>1
<1>3. \A j \in DOMAIN q : j \in DOMAIN p /\ p[j] = q[j] /\ j # Len(q) + 1
  BY <1>1
<1>4. Len(q) + 1 \in DOMAIN p
  BY <1>1
<1>5. \A j, k \in DOMAIN p : p[j] = p[k] => j = k
  BY <1>1, <1>2, <1>3
<1>6. ASSUME NEW e
      PROVE  (\E j \in DOMAIN p : p[j] = e)
               <=> (e = x \/ \E j \in DOMAIN q : q[j] = e)
  BY <1>1, <1>2, <1>3, <1>4
<1> QED
  BY <1>5, <1>6 DEF p

-----------------------------------------------------------------------------
(* Type correctness is preserved by every step of the scheduler.           *)
LEMMA TypeStep ==
  ASSUME TypeOK, [Next]_vars
  PROVE  TypeOK'
<1> USE DEF TypeOK
<1> DEFINE Entries == /\ DOMAIN workers' \subseteq Worker
                      /\ workers' \in [DOMAIN workers' -> WorkerState]
           Channels == /\ sent' \in [Request -> Seq(Response)]
                       /\ taken' \in [Request -> Nat]
<1>1. /\ NoWorkers \in Response /\ Queued \in Response
      /\ \A w \in Worker : Valid(w) \in Response
  BY DEF Response
<1>2. ASSUME NEW r \in Request, NEW response \in Response, Send(r, response)
      PROVE  Channels
  BY <1>2, AppendProperties DEF Send
<1>3. ASSUME NEW w \in Worker, NEW e \in WorkerState, SetEntry(w, e)
      PROVE  Entries
  BY <1>3 DEF SetEntry
<1>4. \A r : FindFreeWorker(r) \subseteq Worker
  BY DEF FindFreeWorker, Fastest, Candidates
<1>5. ASSUME NEW i \in DOMAIN requests
      PROVE  RemoveAt(requests, i) \in Seq(Request) /\ requests[i] \in Request
  BY <1>5, RemoveAtFacts, LenProperties
<1>6. CASE UNCHANGED vars
  BY <1>6 DEF vars
<1>7. ASSUME NEW r \in Request, Schedule(r)
      PROVE  TypeOK'
  <2>1. \E response \in Response : Send(r, response)
    <3>1. \/ Send(r, NoWorkers)
          \/ \E w \in FindFreeWorker(r) : Send(r, Valid(w))
          \/ Send(r, Queued)
      BY <1>7 DEF Schedule
    <3>2. ASSUME NEW w \in FindFreeWorker(r), Send(r, Valid(w))
          PROVE  \E response \in Response : Send(r, response)
      <4>1. Valid(w) \in Response
        BY <1>1, <1>4
      <4> QED
        BY <3>2, <4>1
    <3> QED
      BY <1>1, <3>1, <3>2
  <2>2. requests' \in Seq(Request)
    <3>1. requests' = requests \/ requests' = Append(requests, r)
      BY <1>7 DEF Schedule
    <3>2. Append(requests, r) \in Seq(Request)
      BY AppendProperties
    <3> QED
      BY <3>1, <3>2
  <2> QED
    BY <1>2, <1>7, <2>1, <2>2 DEF Schedule
<1>8. ASSUME NEW r \in Request, Cancel(r)
      PROVE  TypeOK'
  BY <1>5, <1>8 DEF Cancel
<1>9. ASSUME NEW r \in Request, Receive(r)
      PROVE  TypeOK'
  BY <1>9 DEF Receive
<1>10. ASSUME NEW w \in Worker, NEW s \in Speed, Completed(w, s)
       PROVE  TypeOK'
  <2>1. Blend(workers[w].speed, s) \subseteq Speed
    BY DEF Blend
  <2>2. Entries
    <3>1. CASE w \in DOMAIN workers
      <4>1. PICK b \in Speed :
               SetEntry(w, [workers[w] EXCEPT !.speed = b])
        BY <1>10, <2>1, <3>1 DEF Completed
      <4>2. [workers[w] EXCEPT !.speed = b] \in WorkerState
        BY <3>1 DEF WorkerState
      <4> QED
        BY <1>3, <4>1, <4>2
    <3>2. CASE w \notin DOMAIN workers
      BY <1>10, <3>2 DEF Completed
    <3> QED
      BY <3>1, <3>2
  <2> QED
    BY <1>10, <2>2 DEF Completed
<1>11. ASSUME NEW w \in Worker, NEW s \in Space, UpdateWorker(w, s)
       PROVE  TypeOK'
  <2> DEFINE entry == [space |-> s,
                       speed |-> IF w \in DOMAIN workers
                                   THEN workers[w].speed ELSE 0]
  <2>1. entry \in WorkerState
    BY SchedulerAssumption DEF Parameters, WorkerState
  <2>2. SetEntry(w, entry)
    BY <1>11 DEF UpdateWorker
  <2> HIDE DEF entry
  <2> QED
    BY <1>3, <1>11, <2>1, <2>2 DEF UpdateWorker
<1>12. ASSUME NEW w \in Worker, NEW e \in WorkerState, AddWorker(w, e)
       PROVE  TypeOK'
  BY <1>3, <1>12 DEF AddWorker
<1>13. ASSUME NEW w \in Worker, RemoveWorker(w)
       PROVE  TypeOK'
  BY <1>13 DEF RemoveWorker, Restrict
<1>14. ASSUME NEW i \in DOMAIN requests, NEW w \in Worker, PlaceFirst(i, w)
       PROVE  TypeOK'
  BY <1>1, <1>2, <1>5, <1>14 DEF PlaceFirst
<1>15. CASE EndUpdate
  BY <1>15 DEF EndUpdate
<1> QED
  BY <1>6, <1>7, <1>8, <1>9, <1>10, <1>11, <1>12, <1>13, <1>14, <1>15
  DEF Next, ScheduleRequests

LEMMA TypeInit == Init => TypeOK
<1> SUFFICES ASSUME Init PROVE TypeOK
  OBVIOUS
<1>1. DOMAIN workers = {} /\ workers \in [DOMAIN workers -> WorkerState]
  BY DEF Init
<1>2. <<>> \in Seq(Request) /\ <<>> \in Seq(Response)
  OBVIOUS
<1>3. /\ requests = <<>>
      /\ active = [r \in Request |-> TRUE]
      /\ smutex = FALSE
      /\ sent = [r \in Request |-> <<>>]
      /\ taken = [r \in Request |-> 0]
  BY DEF Init
<1> QED
  BY <1>1, <1>2, <1>3 DEF TypeOK

(* Every variable keeps to its type.                                       *)
THEOREM TypeCorrect == Spec => []TypeOK
<1>1. Init => TypeOK
  BY TypeInit
<1>2. TypeOK /\ [Next]_vars => TypeOK'
  BY TypeStep
<1> QED
  BY <1>1, <1>2, PTL DEF Spec

-----------------------------------------------------------------------------
(* The inductive invariant.                                                *)
IInv == TypeOK /\ QueueIsWaiting /\ AnswerProtocol /\ WorkConserving

LEMMA AppendToOne ==
  ASSUME NEW a, NEW b
  PROVE  Append(<<a>>, b) = <<a, b>>
<1>1. <<a>> \in Seq({a, b}) /\ Len(<<a>>) = 1 /\ <<a>>[1] = a
  OBVIOUS
<1>2. /\ <<a, b>> \in Seq({a, b}) /\ Len(<<a, b>>) = 2
      /\ <<a, b>>[1] = a /\ <<a, b>>[2] = b
  OBVIOUS
<1>3. /\ Append(<<a>>, b) \in Seq({a, b}) /\ Len(Append(<<a>>, b)) = 2
      /\ Append(<<a>>, b)[1] = a /\ Append(<<a>>, b)[2] = b
  BY <1>1, AppendProperties
<1>4. \A i \in 1 .. Len(<<a, b>>) : <<a, b>>[i] = Append(<<a>>, b)[i]
  <2>1. \A i \in 1 .. 2 : i = 1 \/ i = 2
    OBVIOUS
  <2> QED
    BY <2>1, <1>2, <1>3
<1> QED
  BY <1>2, <1>3, <1>4, SeqEqual

(* What one send does to the history of a request: it never turns a        *)
(* history into <<Queued>> unless the request is the one being queued.     *)
LEMMA SendFacts ==
  ASSUME TypeOK, NEW r \in Request, NEW x \in Response, Send(r, x)
  PROVE  /\ sent'[r] = Append(sent[r], x)
         /\ \A q \in Request : q # r => sent'[q] = sent[q]
         /\ sent[r] = <<>> => sent'[r] = <<x>>
         /\ sent[r] = <<Queued>> => sent'[r] = <<Queued, x>>
<1>1. sent'[r] = Append(sent[r], x)
  BY DEF Send, TypeOK
<1>2. \A q \in Request : q # r => sent'[q] = sent[q]
  BY DEF Send, TypeOK
<1>3. Append(<<>>, x) = <<x>>
  OBVIOUS
<1>4. Append(<<Queued>>, x) = <<Queued, x>>
  BY AppendToOne
<1> QED
  BY <1>1, <1>2, <1>3, <1>4

LEMMA ResponseFacts ==
  /\ NoWorkers \in Response /\ Queued \in Response
  /\ \A w \in Worker : Valid(w) \in Response /\ Valid(w) # Queued
  /\ NoWorkers # Queued
  BY DEF Response, NoWorkers, Queued, Valid

LEMMA FreeWorkers == ASSUME TypeOK, NEW r
                     PROVE  FindFreeWorker(r) \subseteq Worker
  BY DEF TypeOK, FindFreeWorker, Fastest, Candidates

(* The queue stays in step with the histories of the requests.             *)
LEMMA QueueStep ==
  ASSUME TypeOK, QueueIsWaiting, [Next]_vars
  PROVE  QueueIsWaiting'
<1> DEFINE In(r) == \E i \in DOMAIN requests : requests[i] = r
           NoRepeat == \A i, j \in DOMAIN requests :
                         requests[i] = requests[j] => i = j
<1>1. /\ NoRepeat
      /\ \A r \in Request : In(r) <=> (sent[r] = <<Queued>> /\ active[r])
      /\ \A r \in Request : ~ active[r] => sent[r] = <<Queued>>
  BY DEF QueueIsWaiting
<1>2. requests \in Seq(Request)
  BY DEF TypeOK
<1>3. ASSUME NEW i \in DOMAIN requests, requests' = RemoveAt(requests, i)
      PROVE  /\ NoRepeat'
             /\ \A r : In(r)' <=> (r # requests[i] /\ In(r))
             /\ requests[i] \in Request
  <2>1. requests[i] \in Request
    BY <1>2, LenProperties
  <2>2. /\ \A j, k \in DOMAIN requests' : requests'[j] = requests'[k] => j = k
        /\ \A e : (\E j \in DOMAIN requests' : requests'[j] = e)
                    <=> (e # requests[i]
                         /\ \E j \in DOMAIN requests : requests[j] = e)
    <3> DEFINE p == RemoveAt(requests, i)
    <3>1. /\ \A j, k \in DOMAIN p : p[j] = p[k] => j = k
          /\ \A e : (\E j \in DOMAIN p : p[j] = e)
                      <=> (e # requests[i]
                           /\ \E j \in DOMAIN requests : requests[j] = e)
      BY <1>1, <1>2, RemoveAtMembers
    <3> QED
      BY <1>3, <3>1
  <2> QED
    BY <2>1, <2>2
<1>4. CASE UNCHANGED <<requests, active, sent>>
  BY <1>1, <1>4 DEF QueueIsWaiting
<1>5. ASSUME NEW r \in Request, Schedule(r)
      PROVE  QueueIsWaiting'
  <2>1. sent[r] = <<>> /\ ~ In(r) /\ active[r] /\ UNCHANGED active
    BY <1>1, <1>5 DEF Schedule
  <2>2. ASSUME NEW x \in Response, x # Queued, Send(r, x),
               UNCHANGED requests
        PROVE  QueueIsWaiting'
    BY <1>1, <2>1, <2>2, SendFacts DEF QueueIsWaiting
  <2>3. CASE requests' = Append(requests, r) /\ Send(r, Queued)
    <3>1. /\ NoRepeat'
          /\ \A q : In(q)' <=> (q = r \/ In(q))
      BY <1>1, <1>2, <2>1, <2>3, AppendMembers
    <3>2. /\ sent'[r] = <<Queued>>
          /\ \A q \in Request : q # r => sent'[q] = sent[q]
      BY <2>1, <2>3, SendFacts, ResponseFacts
    <3> HIDE DEF In
    <3>3. \A q \in Request : In(q)' <=> (sent'[q] = <<Queued>> /\ active'[q])
      BY <1>1, <2>1, <3>1, <3>2
    <3>4. \A q \in Request : ~ active'[q] => sent'[q] = <<Queued>>
      BY <1>1, <2>1, <3>2
    <3> QED
      BY <3>1, <3>3, <3>4 DEF QueueIsWaiting, In
  <2>4. \/ Send(r, NoWorkers) /\ UNCHANGED requests
        \/ \E w \in Worker : Send(r, Valid(w)) /\ UNCHANGED requests
        \/ requests' = Append(requests, r) /\ Send(r, Queued)
    BY <1>5, FreeWorkers DEF Schedule
  <2> QED
    BY <2>2, <2>3, <2>4, ResponseFacts
<1>6. ASSUME NEW r \in Request, Cancel(r)
      PROVE  QueueIsWaiting'
  <2>1. CASE UNCHANGED <<requests, active>>
    BY <1>4, <1>6, <2>1 DEF Cancel
  <2>2. ASSUME NEW i \in DOMAIN requests, requests[i] = r,
               requests' = RemoveAt(requests, i),
               active' = [active EXCEPT ![r] = FALSE]
        PROVE  QueueIsWaiting'
    <3>1. /\ NoRepeat'
          /\ \A q : In(q)' <=> (q # r /\ In(q))
      BY <1>3, <2>2
    <3>2. In(r) /\ UNCHANGED sent
      BY <1>6, <2>2 DEF Cancel
    <3>3. \A q \in Request : active'[q] = IF q = r THEN FALSE ELSE active[q]
      BY <2>2 DEF TypeOK
    <3> HIDE DEF In
    <3>4. \A q \in Request : In(q)' <=> (sent'[q] = <<Queued>> /\ active'[q])
      BY <1>1, <3>1, <3>2, <3>3
    <3>5. \A q \in Request : ~ active'[q] => sent'[q] = <<Queued>>
      BY <1>1, <3>2, <3>3
    <3> QED
      BY <3>1, <3>4, <3>5 DEF QueueIsWaiting, In
  <2> QED
    BY <1>6, <2>1, <2>2 DEF Cancel
<1>7. ASSUME NEW i \in DOMAIN requests, NEW w \in Worker, PlaceFirst(i, w)
      PROVE  QueueIsWaiting'
  <2> DEFINE r == requests[i]
  <2>1. /\ requests' = RemoveAt(requests, i)
        /\ Send(r, Valid(w))
        /\ UNCHANGED active
    BY <1>7 DEF PlaceFirst
  <2>2. /\ NoRepeat'
        /\ \A q : In(q)' <=> (q # r /\ In(q))
        /\ r \in Request
    BY <1>3, <2>1
  <2>3. In(r)
    OBVIOUS
  <2> HIDE DEF In, r
  <2>4. /\ sent'[r] = <<Queued, Valid(w)>>
        /\ \A q \in Request : q # r => sent'[q] = sent[q]
        /\ active[r]
    BY <1>1, <2>1, <2>2, <2>3, SendFacts, ResponseFacts
  <2>5. \A q \in Request : In(q)' <=> (sent'[q] = <<Queued>> /\ active'[q])
    BY <1>1, <2>1, <2>2, <2>4
  <2>6. \A q \in Request : ~ active'[q] => sent'[q] = <<Queued>>
    BY <1>1, <2>1, <2>4
  <2> QED
    BY <2>2, <2>5, <2>6 DEF QueueIsWaiting, In
<1>8. [Next]_vars =>
        \/ UNCHANGED <<requests, active, sent>>
        \/ \E r \in Request : Schedule(r) \/ Cancel(r)
        \/ \E i \in DOMAIN requests, w \in Worker : PlaceFirst(i, w)
  BY DEF Next, vars, Receive, Completed, UpdateWorker, AddWorker,
         RemoveWorker, ScheduleRequests, EndUpdate
<1> QED
  BY <1>4, <1>5, <1>6, <1>7, <1>8

(* The answers to a request follow the protocol.                           *)
LEMMA AnswerStep ==
  ASSUME TypeOK, QueueIsWaiting, AnswerProtocol, [Next]_vars
  PROVE  AnswerProtocol'
<1>1. \A r \in Request : sent[r] \in Answers /\ taken[r] <= Len(sent[r])
  BY DEF AnswerProtocol
<1>2. ASSUME NEW r \in Request, NEW x \in Response, Send(r, x),
             sent'[r] \in Answers
      PROVE  AnswerProtocol'
  <2>1. /\ UNCHANGED taken
        /\ Len(sent'[r]) = Len(sent[r]) + 1
        /\ \A q \in Request : Len(sent[q]) \in Nat /\ taken[q] \in Nat
    BY <1>2, SendFacts, AppendProperties, LenProperties DEF Send, TypeOK
  <2> QED
    BY <1>1, <1>2, <2>1, SendFacts DEF AnswerProtocol
<1>3. CASE UNCHANGED <<sent, taken>>
  BY <1>1, <1>3 DEF AnswerProtocol
<1>4. ASSUME NEW r \in Request, Receive(r)
      PROVE  AnswerProtocol'
  <2>1. \A q \in Request : Len(sent[q]) \in Nat /\ taken[q] \in Nat
    BY LenProperties DEF TypeOK
  <2> QED
    BY <1>1, <1>4, <2>1 DEF Receive, ChannelEmpty, AnswerProtocol, TypeOK
<1>5. ASSUME NEW r \in Request, Schedule(r)
      PROVE  AnswerProtocol'
  <2>1. sent[r] = <<>>
    BY <1>5 DEF Schedule
  <2>2. \E x \in Response : Send(r, x)
                            /\ (x \in {NoWorkers, Queued}
                                \/ \E w \in Worker : x = Valid(w))
    BY <1>5, FreeWorkers, ResponseFacts DEF Schedule
  <2> QED
    BY <1>2, <2>1, <2>2, SendFacts DEF Answers
<1>6. ASSUME NEW i \in DOMAIN requests, NEW w \in Worker, PlaceFirst(i, w)
      PROVE  AnswerProtocol'
  <2>1. requests[i] \in Request /\ sent[requests[i]] = <<Queued>>
    BY LenProperties DEF QueueIsWaiting, TypeOK
  <2>2. Send(requests[i], Valid(w)) /\ Valid(w) \in Response
    BY <1>6, ResponseFacts DEF PlaceFirst
  <2>3. sent'[requests[i]] = <<Queued, Valid(w)>>
    BY <2>1, <2>2, SendFacts
  <2> QED
    BY <1>2, <2>1, <2>2, <2>3 DEF Answers
<1>7. [Next]_vars =>
        \/ UNCHANGED <<sent, taken>>
        \/ \E r \in Request : Schedule(r) \/ Receive(r)
        \/ \E i \in DOMAIN requests, w \in Worker : PlaceFirst(i, w)
  BY DEF Next, vars, Cancel, Completed, UpdateWorker, AddWorker,
         RemoveWorker, ScheduleRequests, EndUpdate
<1> QED
  BY <1>3, <1>4, <1>5, <1>6, <1>7

(* An unsuccessful search means that no worker could have been used.       *)
LEMMA SearchIsComplete ==
  ASSUME TypeOK, NEW r, FindFreeWorker(r) = {}, NEW w \in Worker
  PROVE  ~ Usable(r, w)
<1>1. Candidates(r) = {}
  BY FastestExists
<1>2. \A v \in DOMAIN workers : workers[v].speed > -1
  BY SchedulerAssumption DEF Parameters, TypeOK, WorkerState
<1> QED
  BY <1>1, <1>2 DEF Candidates, Usable

(* No step leaves the mutex free with a request waiting that some worker   *)
(* could serve.                                                            *)
LEMMA WorkStep ==
  ASSUME TypeOK, WorkConserving, [Next]_vars
  PROVE  WorkConserving'
<1> SUFFICES ASSUME ~ smutex'
             PROVE  \A i \in DOMAIN requests', w \in Worker :
                       ~ Usable(requests[i], w)'
  BY DEF WorkConserving
<1>1. ~ smutex => \A i \in DOMAIN requests, w \in Worker :
                     ~ Usable(requests[i], w)
  BY DEF WorkConserving
<1>2. requests \in Seq(Request)
  BY DEF TypeOK
<1>3. CASE UNCHANGED <<workers, requests, smutex>>
  BY <1>1, <1>3 DEF Usable
<1>4. ASSUME NEW r \in Request, Schedule(r)
      PROVE  \A i \in DOMAIN requests', w \in Worker :
                ~ Usable(requests[i], w)'
  <2>1. ~ smutex /\ UNCHANGED workers
    BY <1>4 DEF Schedule
  <2>2. CASE UNCHANGED requests
    BY <1>1, <2>1, <2>2 DEF Usable
  <2>3. CASE requests' = Append(requests, r) /\ FindFreeWorker(r) = {}
    <3>1. \A w \in Worker : ~ Usable(r, w)
      BY <2>3, SearchIsComplete
    <3>2. \A i \in DOMAIN requests' :
             requests'[i] = r \/ \E j \in DOMAIN requests :
                                    requests'[i] = requests[j]
      <4> DEFINE p == Append(requests, r)
      <4>1. /\ Len(requests) \in Nat
            /\ DOMAIN requests = 1 .. Len(requests)
            /\ DOMAIN p = 1 .. (Len(requests) + 1)
            /\ \A i \in 1 .. Len(requests) : p[i] = requests[i]
            /\ p[Len(requests) + 1] = r
        BY <1>2, AppendProperties, LenProperties
      <4> HIDE DEF p
      <4>2. \A i \in DOMAIN p : i \in DOMAIN requests
                                \/ i = Len(requests) + 1
        BY <4>1
      <4>3. \A i \in DOMAIN p :
               p[i] = r \/ \E j \in DOMAIN requests : p[i] = requests[j]
        BY <4>1, <4>2
      <4> QED
        BY <2>3, <4>3 DEF p
    <3> QED
      BY <1>1, <2>1, <3>1, <3>2 DEF Usable
  <2> QED
    BY <1>4, <2>2, <2>3 DEF Schedule
<1>5. ASSUME NEW r \in Request, Cancel(r)
      PROVE  \A i \in DOMAIN requests', w \in Worker :
                ~ Usable(requests[i], w)'
  <2>1. ~ smutex /\ UNCHANGED workers
    BY <1>5 DEF Cancel
  <2>2. CASE UNCHANGED requests
    BY <1>1, <2>1, <2>2 DEF Usable
  <2>3. ASSUME NEW k \in DOMAIN requests, requests' = RemoveAt(requests, k)
        PROVE  \A i \in DOMAIN requests' :
                  \E j \in DOMAIN requests : requests'[i] = requests[j]
    <3> DEFINE p == RemoveAt(requests, k)
    <3>1. /\ Len(requests) \in Nat
          /\ DOMAIN requests = 1 .. Len(requests)
      BY <1>2, LenProperties
    <3>2. /\ DOMAIN p = 1 .. (Len(requests) - 1)
          /\ \A i \in 1 .. (Len(requests) - 1) :
               p[i] = IF i < k THEN requests[i] ELSE requests[i + 1]
      BY <1>2, RemoveAtFacts
    <3> HIDE DEF p
    <3>3. \A i \in DOMAIN p :
             /\ i \in DOMAIN requests /\ i + 1 \in DOMAIN requests
             /\ p[i] = requests[i] \/ p[i] = requests[i + 1]
      BY <3>1, <3>2
    <3>4. \A i \in DOMAIN p : \E j \in DOMAIN requests : p[i] = requests[j]
      BY <3>3
    <3> QED
      BY <2>3, <3>4 DEF p
  <2> QED
    BY <1>1, <1>5, <2>1, <2>2, <2>3 DEF Cancel, Usable
<1>6. ASSUME NEW w \in Worker, NEW s \in Speed, Completed(w, s)
      PROVE  \A i \in DOMAIN requests', v \in Worker :
                ~ Usable(requests[i], v)'
  <2>1. ~ smutex /\ UNCHANGED requests
    BY <1>6 DEF Completed
  <2>2. CASE UNCHANGED workers
    BY <1>1, <2>1, <2>2 DEF Usable
  <2>3. ASSUME NEW b, w \in DOMAIN workers,
               SetEntry(w, [workers[w] EXCEPT !.speed = b])
        PROVE  /\ DOMAIN workers' = DOMAIN workers
               /\ \A v \in DOMAIN workers : workers'[v].space = workers[v].space
    <3>1. "space" \in DOMAIN workers[w]
      BY <2>3 DEF TypeOK, WorkerState
    <3> QED
      BY <2>3, <3>1 DEF SetEntry
  <2> QED
    BY <1>1, <1>6, <2>1, <2>2, <2>3 DEF Completed, Usable
<1>7. ASSUME NEW w \in Worker, RemoveWorker(w)
      PROVE  \A i \in DOMAIN requests', v \in Worker :
                ~ Usable(requests[i], v)'
  BY <1>1, <1>7 DEF RemoveWorker, Restrict, Usable
<1>8. CASE EndUpdate
  <2>1. \A i \in DOMAIN requests : FindFreeWorker(requests[i]) = {}
    BY <1>8 DEF EndUpdate, Servable
  <2> QED
    BY <1>8, <2>1, SearchIsComplete DEF EndUpdate, Usable
<1>9. [Next]_vars =>
        \/ smutex'
        \/ UNCHANGED <<workers, requests, smutex>>
        \/ \E r \in Request : Schedule(r) \/ Cancel(r)
        \/ \E w \in Worker, s \in Speed : Completed(w, s)
        \/ \E w \in Worker : RemoveWorker(w)
        \/ EndUpdate
  <2>1. \A w \in Worker, s \in Space : UpdateWorker(w, s) => smutex'
    BY DEF UpdateWorker
  <2>2. \A w \in Worker, e \in WorkerState : AddWorker(w, e) => smutex'
    BY DEF AddWorker
  <2>3. \A i \in DOMAIN requests, w \in Worker : PlaceFirst(i, w) => smutex'
    BY DEF PlaceFirst, TypeOK
  <2>4. \A r \in Request :
           Receive(r) => UNCHANGED <<workers, requests, smutex>>
    BY DEF Receive
  <2>5. UNCHANGED vars => UNCHANGED <<workers, requests, smutex>>
    BY DEF vars
  <2> QED
    BY <2>1, <2>2, <2>3, <2>4, <2>5 DEF Next, ScheduleRequests
<1> QED
  BY <1>3, <1>4, <1>5, <1>6, <1>7, <1>8, <1>9

-----------------------------------------------------------------------------
LEMMA InvariantInit == Init => IInv
<1> SUFFICES ASSUME Init PROVE IInv
  OBVIOUS
<1>1. TypeOK
  BY TypeInit
<1>2. /\ requests = <<>> /\ DOMAIN requests = {}
      /\ \A r \in Request : active[r] /\ sent[r] = <<>> /\ taken[r] = 0
  BY DEF Init
<1>3. QueueIsWaiting
  BY <1>2 DEF QueueIsWaiting
<1>4. AnswerProtocol
  BY <1>2 DEF AnswerProtocol, Answers
<1>5. WorkConserving
  BY <1>2 DEF WorkConserving
<1> QED
  BY <1>1, <1>3, <1>4, <1>5 DEF IInv

LEMMA InvariantStep == IInv /\ [Next]_vars => IInv'
  BY TypeStep, QueueStep, AnswerStep, WorkStep DEF IInv

THEOREM Invariance == Spec => []IInv
  BY InvariantInit, InvariantStep, PTL DEF Spec

(* The queue of the scheduler is exactly the set of requests that were     *)
(* told to wait and are neither answered nor cancelled.                    *)
THEOREM QueueCorrect == Spec => []QueueIsWaiting
<1>1. IInv => QueueIsWaiting
  BY DEF IInv
<1> QED
  BY <1>1, Invariance, PTL

(* A request sees one of the five legal sequences of answers.              *)
THEOREM AnswersCorrect == Spec => []AnswerProtocol
<1>1. IInv => AnswerProtocol
  BY DEF IInv
<1> QED
  BY <1>1, Invariance, PTL

(* While no goroutine is inside the scheduler, nobody waits for a worker   *)
(* that is in the table, has a free core and can be reached.               *)
THEOREM NoLostWakeup == Spec => []WorkConserving
<1>1. IInv => WorkConserving
  BY DEF IInv
<1> QED
  BY <1>1, Invariance, PTL

-----------------------------------------------------------------------------
(* The action properties.  The histories of answers change only in         *)
(* Schedule and PlaceFirst.                                                *)
LEMMA WhoSends ==
  ASSUME [Next]_vars
  PROVE  \/ UNCHANGED sent
         \/ \E r \in Request : Schedule(r)
         \/ \E i \in DOMAIN requests, w \in Worker : PlaceFirst(i, w)
  BY DEF Next, vars, Receive, Cancel, Completed, UpdateWorker, AddWorker,
         RemoveWorker, ScheduleRequests, EndUpdate

LEMMA NoOvertakingStep ==
  ASSUME IInv, [Next]_vars, NEW r \in Request, NEW w \in Worker, Grants(r, w),
         NEW k \in DOMAIN requests, \A j \in 1 .. k : requests[j] # r
  PROVE  ~ Usable(requests[k], w)
<1> USE DEF IInv
<1>1. /\ Len(requests) \in Nat
      /\ DOMAIN requests = 1 .. Len(requests)
      /\ \A i \in DOMAIN requests : requests[i] \in Request
  BY LenProperties DEF TypeOK
<1>2. sent'[r] # sent[r]
  <2>1. Valid(w) \in Response /\ sent[r] \in Seq(Response)
    BY ResponseFacts DEF TypeOK
  <2>2. Len(Append(sent[r], Valid(w))) = Len(sent[r]) + 1
        /\ Len(sent[r]) \in Nat
    BY <2>1, AppendProperties, LenProperties
  <2> QED
    BY <2>2 DEF Grants
<1>3. CASE \E q \in Request : Schedule(q)
  BY <1>3 DEF Schedule, WorkConserving
<1>4. ASSUME NEW i \in DOMAIN requests, NEW v \in Worker, PlaceFirst(i, v)
      PROVE  ~ Usable(requests[k], w)
  <2>1. requests[i] = r
    <3>1. Send(requests[i], Valid(v)) /\ Valid(v) \in Response
      BY <1>4, ResponseFacts DEF PlaceFirst
    <3> QED
      BY <1>1, <1>2, <3>1, SendFacts
  <2>2. k < i
    BY <1>1, <2>1
  <2>3. k \notin Servable
    BY <1>1, <1>4, <2>2 DEF PlaceFirst, Servable
  <2>4. FindFreeWorker(requests[k]) = {}
    BY <2>3 DEF Servable
  <2> QED
    BY <2>4, SearchIsComplete
<1> QED
  BY <1>2, <1>3, <1>4, WhoSends

(* A worker is never handed to a request while a request that could use it *)
(* has been waiting for longer.                                            *)
THEOREM FirstComeFirstServed == Spec => NoOvertaking
<1>1. IInv /\ [Next]_vars =>
        [\A r \in Request, w \in Worker :
           Grants(r, w) =>
             \A i \in DOMAIN requests :
               (\A j \in 1 .. i : requests[j] # r) =>
                  ~ Usable(requests[i], w)]_vars
  BY NoOvertakingStep
<1> QED
  BY <1>1, Invariance, PTL DEF Spec, NoOvertaking

(* A cancelled request is never answered again.                            *)
LEMMA CancelIsFinalStep ==
  ASSUME IInv, [Next]_vars, NEW r \in Request, ~ active[r]
  PROVE  sent'[r] = sent[r]
<1> USE DEF IInv
<1>1. sent[r] = <<Queued>> /\ \A i \in DOMAIN requests : requests[i] # r
  BY DEF QueueIsWaiting
<1>2. ASSUME NEW q \in Request, Schedule(q)
      PROVE  sent'[r] = sent[r]
  <2>1. q # r
    <3>1. sent[q] = <<>>
      BY <1>2 DEF Schedule
    <3>2. <<Queued>> # <<>>
      OBVIOUS
    <3>3. sent[r] = <<Queued>>
      BY <1>1
    <3> QED
      BY <3>1, <3>2, <3>3, Zenon
  <2>2. \E x \in Response : Send(q, x)
    BY <1>2, FreeWorkers, ResponseFacts DEF Schedule
  <2> QED
    BY <2>1, <2>2, SendFacts
<1>3. ASSUME NEW i \in DOMAIN requests, NEW w \in Worker, PlaceFirst(i, w)
      PROVE  sent'[r] = sent[r]
  <2>1. requests[i] \in Request
    BY LenProperties DEF TypeOK
  <2>2. Send(requests[i], Valid(w)) /\ Valid(w) \in Response
    BY <1>3, ResponseFacts DEF PlaceFirst
  <2> QED
    BY <1>1, <2>1, <2>2, SendFacts
<1> QED
  BY <1>2, <1>3, WhoSends

THEOREM CancelledStaysSilent == Spec => CancelIsFinal
<1>1. IInv /\ [Next]_vars =>
        [\A r \in Request : ~ active[r] => sent'[r] = sent[r]]_vars
  BY CancelIsFinalStep
<1> QED
  BY <1>1, Invariance, PTL DEF Spec, CancelIsFinal
-----------------------------------------------------------------------------
(* The queue is a FIFO although requests leave it in the middle: whoever    *)
(* is behind somebody has just come or was behind the same one before.  So  *)
(* two requests keep their order as long as both wait, newcomers join at    *)
(* the end, and FirstComeFirstServed holds for the whole stay in the queue. *)
Ahead(queue, r, s) ==
  \E i, j \in DOMAIN queue : i < j /\ queue[i] = r /\ queue[j] = s

KeepsOrder ==
  [][\A r, s \in Request :
       Ahead(requests', r, s) =>
         \/ \A i \in DOMAIN requests : requests[i] # s
         \/ Ahead(requests, r, s)]_vars

LEMMA QueueChanges ==
  ASSUME IInv, [Next]_vars
  PROVE  \/ requests' = requests
         \/ \E k \in DOMAIN requests : requests' = RemoveAt(requests, k)
         \/ \E r \in Request : /\ requests' = Append(requests, r)
                               /\ \A i \in DOMAIN requests : requests[i] # r
<1>1. ASSUME NEW r \in Request, Schedule(r)
      PROVE  \/ requests' = requests
             \/ /\ requests' = Append(requests, r)
                /\ \A i \in DOMAIN requests : requests[i] # r
  <2>1. sent[r] # <<Queued>>
    <3>1. sent[r] = <<>>
      BY <1>1 DEF Schedule
    <3>2. <<Queued>> # <<>>
      OBVIOUS
    <3> QED
      BY <3>1, <3>2, Zenon
  <2> QED
    BY <1>1, <2>1 DEF Schedule, IInv, QueueIsWaiting
<1>2. ASSUME NEW r \in Request, Cancel(r) \/ Receive(r)
      PROVE  \/ requests' = requests
             \/ \E k \in DOMAIN requests : requests' = RemoveAt(requests, k)
  BY <1>2 DEF Cancel, Receive
<1>3. ASSUME NEW w \in Worker,
             \/ \E s \in Speed : Completed(w, s)
             \/ \E s \in Space : UpdateWorker(w, s)
             \/ \E e \in WorkerState : AddWorker(w, e)
             \/ RemoveWorker(w)
      PROVE  requests' = requests
  BY <1>3 DEF Completed, UpdateWorker, AddWorker, RemoveWorker
<1>4. CASE ScheduleRequests
  BY <1>4 DEF ScheduleRequests, PlaceFirst, EndUpdate
<1>5. CASE UNCHANGED vars
  BY <1>5 DEF vars
<1> QED
  BY <1>1, <1>2, <1>3, <1>4, <1>5 DEF Next

LEMMA KeepsOrderStep ==
  ASSUME IInv, [Next]_vars, NEW r \in Request, NEW s \in Request,
         Ahead(requests', r, s), NEW k \in DOMAIN requests, requests[k] = s
  PROVE  Ahead(requests, r, s)
<1>1. requests \in Seq(Request)
  BY DEF IInv, TypeOK
<1>2. Len(requests) \in Nat /\ DOMAIN requests = 1 .. Len(requests)
  BY <1>1, LenProperties
<1>3. PICK i, j \in DOMAIN requests' :
        i < j /\ requests'[i] = r /\ requests'[j] = s
  BY DEF Ahead
<1>4. CASE requests' = requests
  BY <1>4
<1>5. ASSUME NEW m \in DOMAIN requests, requests' = RemoveAt(requests, m)
      PROVE  Ahead(requests, r, s)
  <2>1. /\ DOMAIN requests' = 1 .. (Len(requests) - 1)
        /\ \A n \in 1 .. (Len(requests) - 1) :
             requests'[n] = IF n < m THEN requests[n] ELSE requests[n + 1]
    BY <1>1, <1>5, RemoveAtFacts
  <2> DEFINE old(n) == IF n < m THEN n ELSE n + 1
  <2>2. /\ old(i) \in DOMAIN requests /\ old(j) \in DOMAIN requests
        /\ old(i) < old(j)
        /\ requests'[i] = requests[old(i)] /\ requests'[j] = requests[old(j)]
    BY <1>2, <1>3, <2>1
  <2> HIDE DEF old
  <2> QED
    BY <1>3, <2>2 DEF Ahead
<1>6. ASSUME NEW q \in Request, requests' = Append(requests, q),
             \A n \in DOMAIN requests : requests[n] # q
      PROVE  Ahead(requests, r, s)
  <2>1. /\ DOMAIN requests' = 1 .. (Len(requests) + 1)
        /\ \A n \in 1 .. Len(requests) : requests'[n] = requests[n]
        /\ requests'[Len(requests) + 1] = q
    BY <1>1, <1>2, <1>6, AppendProperties, LenProperties
  <2>2. s # q
    BY <1>6
  <2>3. j \in DOMAIN requests
    BY <1>2, <1>3, <2>1, <2>2
  <2>4. i \in DOMAIN requests
    BY <1>2, <1>3, <2>1, <2>3
  <2> QED
    BY <1>2, <1>3, <2>1, <2>3, <2>4 DEF Ahead
<1> QED
  BY <1>4, <1>5, <1>6, QueueChanges

THEOREM QueueKeepsOrder == Spec => KeepsOrder
<1>1. IInv /\ [Next]_vars =>
        [\A r, s \in Request :
           Ahead(requests', r, s) =>
             \/ \A i \in DOMAIN requests : requests[i] # s
             \/ Ahead(requests, r, s)]_vars
  BY KeepsOrderStep
<1> QED
  BY <1>1, Invariance, PTL DEF Spec, KeepsOrder
=============================================================================
