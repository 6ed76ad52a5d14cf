------------------------- MODULE FifoDispatch_proofs -------------------------
(***************************************************************************)
(* The scheduler of scheduler.go implements Dispatch, for any requests,    *)
(* workers and reachability.  The invariant of FifoScheduler_proofs gives  *)
(* what the abstract actions demand: nobody in line could be served when a *)
(* call begins (WorkConserving), and the one that leaves the line had been *)
(* told to wait and nothing else (QueueIsWaiting).                         *)
(***************************************************************************)
EXTENDS FifoDispatch, FifoScheduler_proofs

(* The meaning of each history.                                            *)
LEMMA OutcomeFacts ==
  /\ \A a \in BOOLEAN : OutcomeOf(<<>>, a) = "none"
  /\ \A a \in BOOLEAN : OutcomeOf(<<NoWorkers>>, a) = "refused"
  /\ OutcomeOf(<<Queued>>, TRUE) = "waiting"
  /\ OutcomeOf(<<Queued>>, FALSE) = "withdrawn"
  /\ \A w \in Worker, a \in BOOLEAN :
       /\ OutcomeOf(<<Valid(w)>>, a) = w
       /\ OutcomeOf(<<Queued, Valid(w)>>, a) = w
<1>1. \A x : <<x>> # <<>> /\ LastOf(<<x>>) = x
  BY DEF LastOf
<1>2. \A x, y : <<x, y>> # <<>> /\ LastOf(<<x, y>>) = y
  BY DEF LastOf
<1>3. /\ NoWorkers # Queued
      /\ \A w \in Worker : /\ Valid(w) # Queued /\ Valid(w) # NoWorkers
                           /\ Valid(w).id = w
  BY DEF NoWorkers, Queued, Valid
<1> QED
  BY <1>1, <1>2, <1>3 DEF OutcomeOf

(* A free worker of the abstract dispatcher is a usable one.               *)
LEMMA OptionsAreUsable ==
  ASSUME TypeOK, NEW r
  PROVE  /\ D!Options(r) \subseteq Worker
         /\ \A w \in Worker : w \in D!Options(r) <=> Usable(r, w)
         /\ FindFreeWorker(r) \subseteq D!Options(r)
         /\ FindFreeWorker(r) = {} => D!Options(r) = {}
<1>1. D!Options(r) \subseteq Worker
  BY DEF D!Options, WithFreeCore, TypeOK
<1>2. \A w \in Worker : w \in D!Options(r) <=> Usable(r, w)
  BY DEF D!Options, WithFreeCore, Usable
<1>3. FindFreeWorker(r) \subseteq D!Options(r)
  BY DEF FindFreeWorker, Fastest, Candidates, D!Options, WithFreeCore
<1>4. FindFreeWorker(r) = {} => D!Options(r) = {}
  BY <1>1, <1>2, SearchIsComplete
<1> QED
  BY <1>1, <1>2, <1>3, <1>4

LEMMA FreeMutexIsSettled == ASSUME IInv, ~ smutex PROVE D!Settled
<1>1. \A i \in DOMAIN requests, w \in Worker : ~ Usable(requests[i], w)
  BY DEF IInv, WorkConserving
<1> QED
  BY <1>1, OptionsAreUsable DEF IInv, D!Settled

(* A send to r concludes r and nobody else.                                *)
LEMMA SendConcludes ==
  ASSUME TypeOK, NEW r \in Request, NEW x \in Response, Send(r, x),
         UNCHANGED active
  PROVE  D!Conclude(r, OutcomeOf(sent'[r], active[r]))
<1>1. \A q \in Request : q # r => sent'[q] = sent[q]
  BY SendFacts
<1>2. Outcome(r)' = OutcomeOf(sent'[r], active[r])
  BY DEF Outcome, OutcomeOf, LastOf, NoWorkers, Queued
<1>3. \A q \in Request : q # r => Outcome(q)' = Outcome(q)
  BY <1>1 DEF Outcome, OutcomeOf, LastOf, NoWorkers, Queued
<1> HIDE DEF Outcome
<1> QED
  BY <1>2, <1>3 DEF D!Conclude

-----------------------------------------------------------------------------
LEMMA ScheduleAsks ==
  ASSUME IInv, NEW r \in Request, Schedule(r)
  PROVE  D!Ask(r)
<1> USE DEF IInv
<1>1. D!Settled
  BY FreeMutexIsSettled DEF Schedule
<1>2. sent[r] = <<>> /\ active[r] \in BOOLEAN
  BY DEF Schedule, TypeOK
<1>3. Outcome(r) = "none"
  BY <1>2, OutcomeFacts DEF Outcome
<1>4. DOMAIN workers' = DOMAIN workers /\ WithFreeCore' = WithFreeCore
  BY DEF Schedule, WithFreeCore
<1>5. active[r] = TRUE
  <2>1. <<Queued>> # <<>>
    OBVIOUS
  <2> QED
    BY <1>2, <2>1, Zenon DEF QueueIsWaiting, TypeOK
<1>6. CASE DOMAIN workers = {} /\ Send(r, NoWorkers) /\ UNCHANGED requests
  <2>1. sent'[r] = <<NoWorkers>>
    BY <1>2, <1>6, SendFacts, ResponseFacts
  <2>2. D!Conclude(r, "refused")
    BY <1>2, <1>6, <2>1, SendConcludes, ResponseFacts, OutcomeFacts DEF Schedule
  <2> QED
    BY <1>1, <1>3, <1>4, <1>6, <2>2 DEF D!Ask
<1>7. ASSUME NEW w \in FindFreeWorker(r), Send(r, Valid(w)), UNCHANGED requests
      PROVE  D!Ask(r)
  <2>1. w \in Worker /\ w \in D!Options(r)
    BY FreeWorkers, OptionsAreUsable
  <2>2. sent'[r] = <<Valid(w)>>
    BY <1>2, <1>7, <2>1, SendFacts, ResponseFacts
  <2>3. D!Conclude(r, w)
    BY <1>2, <1>7, <2>1, <2>2, SendConcludes, ResponseFacts, OutcomeFacts
       DEF Schedule
  <2> QED
    BY <1>1, <1>3, <1>4, <1>7, <2>1, <2>3 DEF D!Ask
<1>8. CASE /\ DOMAIN workers # {}
           /\ FindFreeWorker(r) = {}
           /\ requests' = Append(requests, r)
           /\ Send(r, Queued)
  <2>1. D!Options(r) = {}
    BY <1>8, OptionsAreUsable
  <2>2. sent'[r] = <<Queued>>
    BY <1>2, <1>8, SendFacts, ResponseFacts
  <2>3. D!Conclude(r, "waiting")
    BY <1>5, <1>8, <2>2, SendConcludes, ResponseFacts, OutcomeFacts DEF Schedule
  <2> QED
    BY <1>1, <1>3, <1>4, <1>8, <2>1, <2>3 DEF D!Ask
<1> QED
  BY <1>6, <1>7, <1>8 DEF Schedule

LEMMA CancelWithdraws ==
  ASSUME IInv, NEW r \in Request, Cancel(r)
  PROVE  (\E i \in DOMAIN requests : D!Withdraw(i)) \/ UNCHANGED D!vars
<1> USE DEF IInv
<1>1. UNCHANGED <<workers, sent>> /\ WithFreeCore' = WithFreeCore
  BY DEF Cancel, WithFreeCore
<1>2. CASE UNCHANGED <<requests, active>>
  <2>1. \A q \in Request : Outcome(q)' = Outcome(q)
    BY <1>1, <1>2 DEF Outcome, OutcomeOf, LastOf, NoWorkers, Queued
  <2> HIDE DEF Outcome
  <2> QED
    BY <1>1, <1>2, <2>1 DEF D!vars
<1>3. ASSUME NEW i \in DOMAIN requests, requests[i] = r,
             requests' = RemoveAt(requests, i),
             active' = [active EXCEPT ![r] = FALSE]
      PROVE  D!Withdraw(i)
  <2>1. sent[r] = <<Queued>>
    BY <1>3 DEF QueueIsWaiting
  <2>2. Outcome(r)' = "withdrawn"
    <3>1. Outcome(r)' = OutcomeOf(sent[r], FALSE)
      BY <1>1, <1>3 DEF Outcome, OutcomeOf, LastOf, NoWorkers, Queued, TypeOK
    <3> QED
      BY <2>1, <3>1, OutcomeFacts
  <2>3. \A q \in Request : q # r => Outcome(q)' = Outcome(q)
    BY <1>1, <1>3 DEF Outcome, OutcomeOf, LastOf, NoWorkers, Queued, TypeOK
  <2>4. D!Settled
    BY FreeMutexIsSettled DEF Cancel
  <2>5. D!Conclude(r, "withdrawn")
    <3> HIDE DEF Outcome
    <3> QED
      BY <2>2, <2>3 DEF D!Conclude
  <2> QED
    BY <1>1, <1>3, <2>4, <2>5 DEF D!Withdraw, D!RemoveAt, RemoveAt
<1> QED
  BY <1>2, <1>3 DEF Cancel

LEMMA PlaceAssigns ==
  ASSUME IInv, NEW i \in DOMAIN requests, NEW w \in Worker, PlaceFirst(i, w)
  PROVE  D!Assign(i, w)
<1> USE DEF IInv
<1>1. /\ Len(requests) \in Nat /\ DOMAIN requests = 1 .. Len(requests)
      /\ requests[i] \in Request
  BY LenProperties DEF TypeOK
<1>2. sent[requests[i]] = <<Queued>> /\ active[requests[i]] \in BOOLEAN
  BY <1>1 DEF QueueIsWaiting, TypeOK
<1>3. Send(requests[i], Valid(w)) /\ Valid(w) \in Response /\ UNCHANGED active
  BY ResponseFacts DEF PlaceFirst
<1>4. sent'[requests[i]] = <<Queued, Valid(w)>>
  BY <1>1, <1>2, <1>3, SendFacts
<1>5. D!Conclude(requests[i], w)
  BY <1>1, <1>2, <1>3, <1>4, SendConcludes, OutcomeFacts
<1>6. w \in D!Options(requests[i])
  BY OptionsAreUsable DEF PlaceFirst
<1>7. \A j \in 1 .. (i - 1) : D!Options(requests[j]) = {}
  <2>1. \A j \in 1 .. (i - 1) : j \in DOMAIN requests /\ j \notin Servable
    BY <1>1 DEF PlaceFirst, Servable
  <2> QED
    BY <2>1, OptionsAreUsable DEF Servable
<1>8. UNCHANGED workers /\ requests' = RemoveAt(requests, i)
      /\ WithFreeCore' = WithFreeCore
  BY DEF PlaceFirst, WithFreeCore
<1> QED
  BY <1>5, <1>6, <1>7, <1>8 DEF D!Assign, D!RemoveAt, RemoveAt

(* An entry is written, or one is removed, and nothing else changes.       *)
LEMMA TableChanges ==
  ASSUME IInv, IInv', ~ smutex, NEW w \in Worker,
         DOMAIN workers' \ {w} = DOMAIN workers \ {w},
         \A v \in DOMAIN workers \ {w} : workers'[v] = workers[v],
         UNCHANGED <<requests, active, sent>>
  PROVE  D!Change(w)
<1> USE DEF IInv
<1>1. D!Settled
  BY FreeMutexIsSettled
<1>2. WithFreeCore' \ {w} = WithFreeCore \ {w}
  BY DEF WithFreeCore
<1>3. WithFreeCore' \subseteq DOMAIN workers' /\ DOMAIN workers' \subseteq Worker
  BY DEF WithFreeCore, TypeOK
<1>4. \A q \in Request : Outcome(q)' = Outcome(q)
  BY DEF Outcome, OutcomeOf, LastOf, NoWorkers, Queued
<1> HIDE DEF Outcome
<1> QED
  BY <1>1, <1>2, <1>3, <1>4 DEF D!Change

-----------------------------------------------------------------------------
LEMMA DispatchInit == Init => D!Init
<1> SUFFICES ASSUME Init PROVE D!Init
  OBVIOUS
<1>1. DOMAIN workers = {} /\ WithFreeCore = {}
  BY DEF Init, WithFreeCore
<1>2. \A r \in Request : Outcome(r) = "none"
  BY OutcomeFacts DEF Init, Outcome
<1> QED
  BY <1>1, <1>2 DEF Init, D!Init

LEMMA DispatchStep ==
  ASSUME IInv, IInv', [Next]_vars
  PROVE  [D!Next]_(D!vars)
<1>1. ASSUME NEW r \in Request, Schedule(r)
      PROVE  D!Next
  BY <1>1, ScheduleAsks DEF D!Next
<1>2. ASSUME NEW r \in Request, Cancel(r)
      PROVE  [D!Next]_(D!vars)
  BY <1>2, CancelWithdraws DEF D!Next
<1>3. ASSUME NEW i \in DOMAIN requests, NEW w \in Worker, PlaceFirst(i, w)
      PROVE  D!Next
  BY <1>3, PlaceAssigns DEF D!Next
<1>4. ASSUME NEW w \in Worker, NEW e, SetEntry(w, e), ~ smutex,
             UNCHANGED <<requests, active, sent>>
      PROVE  D!Next
  <2>1. /\ DOMAIN workers' \ {w} = DOMAIN workers \ {w}
        /\ \A v \in DOMAIN workers \ {w} : workers'[v] = workers[v]
    BY <1>4 DEF SetEntry
  <2> QED
    BY <1>4, <2>1, TableChanges DEF D!Next
<1>5. ASSUME NEW w \in Worker, RemoveWorker(w)
      PROVE  D!Next
  <2>1. /\ DOMAIN workers' \ {w} = DOMAIN workers \ {w}
        /\ \A v \in DOMAIN workers \ {w} : workers'[v] = workers[v]
    BY <1>5 DEF RemoveWorker, Restrict
  <2> QED
    BY <1>5, <2>1, TableChanges DEF D!Next, RemoveWorker
<1>6. CASE UNCHANGED <<workers, requests, active, sent>>
  <2>1. \A q \in Request : Outcome(q)' = Outcome(q)
    BY <1>6 DEF Outcome, OutcomeOf, LastOf, NoWorkers, Queued
  <2>2. WithFreeCore' = WithFreeCore
    BY <1>6 DEF WithFreeCore
  <2> HIDE DEF Outcome
  <2> QED
    BY <1>6, <2>1, <2>2 DEF D!vars
<1>7. \/ \E r \in Request : Schedule(r) \/ Cancel(r)
      \/ \E i \in DOMAIN requests, w \in Worker : PlaceFirst(i, w)
      \/ \E w \in Worker : RemoveWorker(w)
      \/ \E w \in Worker : \E e : /\ SetEntry(w, e) /\ ~ smutex
                                  /\ UNCHANGED <<requests, active, sent>>
      \/ UNCHANGED <<workers, requests, active, sent>>
  <2>1. ASSUME NEW w \in Worker, NEW s \in Speed, Completed(w, s)
        PROVE  \/ \E e : /\ SetEntry(w, e) /\ ~ smutex
                         /\ UNCHANGED <<requests, active, sent>>
               \/ UNCHANGED <<workers, requests, active, sent>>
    BY <2>1 DEF Completed
  <2>2. ASSUME NEW w \in Worker, NEW s \in Space, UpdateWorker(w, s)
        PROVE  \E e : /\ SetEntry(w, e) /\ ~ smutex
                      /\ UNCHANGED <<requests, active, sent>>
    BY <2>2 DEF UpdateWorker
  <2>3. ASSUME NEW w \in Worker, NEW e \in WorkerState, AddWorker(w, e)
        PROVE  /\ SetEntry(w, e) /\ ~ smutex
               /\ UNCHANGED <<requests, active, sent>>
    BY <2>3 DEF AddWorker
  <2>4. ASSUME NEW r \in Request, Receive(r)
        PROVE  UNCHANGED <<workers, requests, active, sent>>
    BY <2>4 DEF Receive
  <2>5. EndUpdate \/ UNCHANGED vars
          => UNCHANGED <<workers, requests, active, sent>>
    BY DEF EndUpdate, vars
  <2> QED
    BY <2>1, <2>2, <2>3, <2>4, <2>5 DEF Next, ScheduleRequests
<1> QED
  BY <1>1, <1>2, <1>3, <1>4, <1>5, <1>6, <1>7

(* Every behaviour of the scheduler is one of the abstract dispatcher.     *)
THEOREM SchedulerDispatches == Spec => ImplementsDispatch
<1>1. Init => D!Init
  BY DispatchInit
<1>2. IInv /\ IInv' /\ [Next]_vars => [D!Next]_(D!vars)
  BY DispatchStep
<1> QED
  BY <1>1, <1>2, Invariance, PTL DEF Spec, ImplementsDispatch, D!Spec
=============================================================================
