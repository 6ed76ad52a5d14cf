---------------------------- MODULE Server_proofs ----------------------------
(***************************************************************************)
(* Proofs about Server, for any set of requests, any finite set of workers *)
(* and any set of clients that may leave.                                  *)
(*                                                                         *)
(* Server refines FifoScheduler under the identity mapping, so the         *)
(* invariants proved of the scheduler hold of its use in the server.  The  *)
(* properties of the two goroutines rest on PhasesAgree: the responder     *)
(* runs exactly when the handler does, nothing is in the queue before its  *)
(* handler has started, and a responder leaves the loop for cancel or      *)
(* report only when its client no longer waits.                            *)
(***************************************************************************)
EXTENDS Server, TLAPS

SchP == INSTANCE FifoDispatch_proofs

PhasesAgree ==
  \A r \in Request :
    /\ handler[r] = "none" => responder[r] = "off" /\ ~ InQueue(r)
    /\ responder[r] = "off" => handler[r] = "none"
    /\ responder[r] \in {"cancel", "report", "done"} => client[r] # "waiting"

GoroutineTypes ==
  /\ handler \in [Request -> HandlerStates]
  /\ responder \in [Request -> ResponderStates]
  /\ client \in [Request -> ClientStates]

LEMMA RefinesInit == Init => Sch!Init
  BY DEF Init

(* Every step of the server is a step of the scheduler or leaves it alone. *)
LEMMA RefinesStep == [Next]_vars => [Sch!Next]_(Sch!vars)
<1> SUFFICES ASSUME [Next]_vars PROVE [Sch!Next]_(Sch!vars)
  OBVIOUS
<1> USE DEF Sch!vars
<1>1. CASE UNCHANGED vars
  BY <1>1 DEF vars
<1>2. ASSUME NEW r \in Request,
             Accept(r) \/ Timeout(r) \/ SendResult(r) \/ SendHeartbeat(r)
             \/ HeartbeatFails(r) \/ Report(r) \/ ClientLeaves(r)
      PROVE  UNCHANGED Sch!vars
  BY <1>2 DEF Accept, Timeout, SendResult, SendHeartbeat, HeartbeatFails,
              Report, ClientLeaves
<1>3. ASSUME NEW r \in Request,
             CallSchedule(r) \/ TakeResult(r) \/ CancelRequest(r)
      PROVE  Sch!Next
  BY <1>3 DEF CallSchedule, TakeResult, CancelRequest, Sch!Next
<1>4. ASSUME NEW w \in Worker, NEW s \in Space, WorkerReport(w, s)
      PROVE  Sch!Next
  BY <1>4 DEF WorkerReport, Sch!Next
<1>5. ASSUME PlaceRequests
      PROVE  Sch!Next
  BY <1>5 DEF PlaceRequests, Sch!Next
<1>6. ASSUME NEW w \in Worker, WorkerGone(w)
      PROVE  Sch!Next
  BY <1>6 DEF WorkerGone, Sch!Next
<1>7. ASSUME NEW w \in Worker, NEW s \in Speed, JobDone(w, s)
      PROVE  Sch!Next
  BY <1>7 DEF JobDone, Sch!Next
<1> QED
  BY <1>1, <1>2, <1>3, <1>4, <1>5, <1>6, <1>7 DEF Next, Responder

LEMMA SameParameters == SchP!Parameters
  BY ServerAssumption
  DEF Sch!Parameters, SchP!Parameters, Sch!IsFiniteSet, SchP!IsFiniteSet

(* The proofs of the scheduler speak of the same formulas under the names  *)
(* of another instance of it.                                              *)
LEMMA SameScheduler ==
  /\ SchP!Init <=> Sch!Init
  /\ SchP!Next <=> Sch!Next
  /\ SchP!vars = Sch!vars
  /\ SchP!TypeOK <=> Sch!TypeOK
  /\ SchP!QueueIsWaiting <=> Sch!QueueIsWaiting
  /\ SchP!AnswerProtocol <=> Sch!AnswerProtocol
  /\ SchP!WorkConserving <=> Sch!WorkConserving
<1>1. SchP!Init <=> Sch!Init
  BY DEF SchP!Init, Sch!Init
<1>2. SchP!Next <=> Sch!Next
  <2>1. /\ \A r \in Request : SchP!Candidates(r) = Sch!Candidates(r)
        /\ \A C : SchP!Fastest(C) = Sch!Fastest(C)
    BY DEF Sch!Candidates, SchP!Candidates, Sch!Fastest, SchP!Fastest
  <2>2. \A r \in Request : SchP!FindFreeWorker(r) = Sch!FindFreeWorker(r)
    BY <2>1 DEF Sch!FindFreeWorker, SchP!FindFreeWorker
  <2>3. \A r \in Request : SchP!Schedule(r) <=> Sch!Schedule(r)
    BY <2>2 DEF Sch!Schedule, SchP!Schedule, Sch!Send, SchP!Send,
                Sch!ChannelEmpty, SchP!ChannelEmpty,
                Sch!NoWorkers, SchP!NoWorkers, Sch!Queued, SchP!Queued,
                Sch!Valid, SchP!Valid
  <2>4. \A r \in Request : /\ SchP!Cancel(r) <=> Sch!Cancel(r)
                           /\ SchP!Receive(r) <=> Sch!Receive(r)
    BY DEF Sch!RemoveAt, SchP!RemoveAt, Sch!Cancel, SchP!Cancel, Sch!Receive, SchP!Receive,
           Sch!ChannelEmpty, SchP!ChannelEmpty
  <2>5. \A w \in Worker, s \in Speed : SchP!Completed(w, s) <=> Sch!Completed(w, s)
    BY DEF Sch!Completed, SchP!Completed, Sch!SetEntry, SchP!SetEntry,
           Sch!Blend, SchP!Blend
  <2>6. SchP!WorkerState = Sch!WorkerState
    BY DEF Sch!WorkerState, SchP!WorkerState
  <2>7. \A w \in Worker :
          /\ \A s \in Space : SchP!UpdateWorker(w, s) <=> Sch!UpdateWorker(w, s)
          /\ \A e \in Sch!WorkerState : SchP!AddWorker(w, e) <=> Sch!AddWorker(w, e)
          /\ SchP!RemoveWorker(w) <=> Sch!RemoveWorker(w)
    BY DEF Sch!Restrict, SchP!Restrict, Sch!UpdateWorker, SchP!UpdateWorker,
           Sch!AddWorker, SchP!AddWorker,
           Sch!RemoveWorker, SchP!RemoveWorker,
           Sch!SetEntry, SchP!SetEntry
  <2>8. SchP!ScheduleRequests <=> Sch!ScheduleRequests
    BY DEF Sch!RemoveAt, SchP!RemoveAt,
           Sch!ScheduleRequests, SchP!ScheduleRequests,
           Sch!PlaceFirst, SchP!PlaceFirst, Sch!EndUpdate, SchP!EndUpdate,
           Sch!Servable, SchP!Servable,
           Sch!FindFreeWorker, SchP!FindFreeWorker,
           Sch!Fastest, SchP!Fastest, Sch!Candidates, SchP!Candidates,
           Sch!Send, SchP!Send, Sch!ChannelEmpty, SchP!ChannelEmpty,
           Sch!Valid, SchP!Valid
  <2> QED
    BY <2>3, <2>4, <2>5, <2>6, <2>7, <2>8 DEF SchP!Next, Sch!Next
<1>3. SchP!vars = Sch!vars
  BY DEF SchP!vars, Sch!vars
<1>4. /\ SchP!TypeOK <=> Sch!TypeOK
      /\ SchP!QueueIsWaiting <=> Sch!QueueIsWaiting
      /\ SchP!AnswerProtocol <=> Sch!AnswerProtocol
      /\ SchP!WorkConserving <=> Sch!WorkConserving
  BY DEF Sch!TypeOK, SchP!TypeOK,
          Sch!QueueIsWaiting, SchP!QueueIsWaiting,
          Sch!AnswerProtocol, SchP!AnswerProtocol,
          Sch!WorkConserving, SchP!WorkConserving,
          Sch!Usable, SchP!Usable, Sch!Answers, SchP!Answers,
          Sch!WorkerState, SchP!WorkerState,
          Sch!NoWorkers, SchP!NoWorkers, Sch!Queued, SchP!Queued,
          Sch!Valid, SchP!Valid, Sch!Response, SchP!Response
<1> QED
  BY <1>1, <1>2, <1>3, <1>4

(* What was proved of the scheduler holds inside the server.               *)
THEOREM SchedulerInvariants ==
  Spec => [](Sch!TypeOK /\ Sch!QueueIsWaiting /\ Sch!AnswerProtocol
                        /\ Sch!WorkConserving)
<1>1. SchP!Init => SchP!IInv
  BY SameParameters, SchP!InvariantInit
<1>5. SchP!IInv /\ [SchP!Next]_(SchP!vars) => SchP!IInv'
  BY SameParameters, SchP!InvariantStep
<1>2. Sch!Init => SchP!Init
  BY SameScheduler
<1>3. [Sch!Next]_(Sch!vars) => [SchP!Next]_(SchP!vars)
  BY SameScheduler DEF Sch!vars, SchP!vars
<1>4. SchP!IInv => Sch!TypeOK /\ Sch!QueueIsWaiting /\ Sch!AnswerProtocol
                              /\ Sch!WorkConserving
  BY SameScheduler DEF SchP!IInv
<1> QED
  BY <1>1, <1>2, <1>3, <1>4, <1>5, RefinesInit, RefinesStep, PTL
  DEF Spec, SchP!Spec

LEMMA ServerIsScheduler == Spec => SchP!Spec
<1>1. Sch!Init => SchP!Init
  BY SameScheduler
<1>2. [Sch!Next]_(Sch!vars) => [SchP!Next]_(SchP!vars)
  BY SameScheduler DEF Sch!vars, SchP!vars
<1> QED
  BY <1>1, <1>2, RefinesInit, RefinesStep, PTL
  DEF Spec, SchP!Spec

(* With its goroutines, channels and timeouts the server is an abstract    *)
(* dispatcher: whatever responders and clients do, requests are refused,   *)
(* put in line, served in order and withdrawn in steps of Dispatch.        *)
THEOREM ServerDispatches == Spec => SchP!ImplementsDispatch
  BY SameParameters, ServerIsScheduler, SchP!SchedulerDispatches, PTL

(* In the server, too, nobody is handed a worker that a request before him *)
(* could use, and a request that a responder cancelled is never answered.  *)
(* The queue keeps its order while requests leave it anywhere.             *)
THEOREM ServerKeepsOrder ==
  Spec => SchP!NoOvertaking /\ SchP!KeepsOrder /\ SchP!CancelIsFinal
  BY SameParameters, ServerIsScheduler, SchP!FirstComeFirstServed,
     SchP!QueueKeepsOrder, SchP!CancelledStaysSilent, PTL

-----------------------------------------------------------------------------
GInv == GoroutineTypes /\ PhasesAgree /\ requests \in Seq(Request)

LEMMA GInvInit == Init => GInv
<1> SUFFICES ASSUME Init PROVE GInv
  OBVIOUS
<1>1. requests = <<>> /\ DOMAIN requests = {}
  BY DEF Init, Sch!Init
<1>2. GoroutineTypes
  BY DEF Init, GoroutineTypes, HandlerStates, ResponderStates, ClientStates
<1>3. PhasesAgree
  BY <1>1 DEF Init, PhasesAgree, InQueue
<1> QED
  BY <1>1, <1>2, <1>3 DEF GInv

(* A queue that loses an element gains none.                               *)
LEMMA RemovalAddsNothing ==
  ASSUME requests \in Seq(Request), NEW i \in DOMAIN requests,
         requests' = Sch!RemoveAt(requests, i)
  PROVE  /\ requests' \in Seq(Request)
         /\ \A r : InQueue(r)' => InQueue(r)
<1> DEFINE p == SchP!RemoveAt(requests, i)
<1>1. requests' = p
  BY DEF Sch!RemoveAt, SchP!RemoveAt
<1>2. Len(requests) \in Nat /\ DOMAIN requests = 1 .. Len(requests)
  OBVIOUS
<1>3. /\ p \in Seq(Request)
      /\ DOMAIN p = 1 .. (Len(requests) - 1)
      /\ \A j \in 1 .. (Len(requests) - 1) :
           p[j] = IF j < i THEN requests[j] ELSE requests[j + 1]
  BY SameParameters, SchP!RemoveAtFacts
<1> HIDE DEF p
<1>4. \A j \in DOMAIN p :
         /\ j \in DOMAIN requests /\ j + 1 \in DOMAIN requests
         /\ p[j] = requests[j] \/ p[j] = requests[j + 1]
  BY <1>2, <1>3
<1>5. ASSUME NEW r, NEW j \in DOMAIN p, p[j] = r
      PROVE  \E k \in DOMAIN requests : requests[k] = r
  BY <1>4, <1>5
<1> QED
  BY <1>1, <1>3, <1>5 DEF InQueue

LEMMA GInvStep == GInv /\ [Next]_vars => GInv'
<1> SUFFICES ASSUME GInv, [Next]_vars PROVE GInv'
  OBVIOUS
<1> USE DEF GInv, GoroutineTypes, PhasesAgree, HandlerStates,
            ResponderStates, ClientStates
<1>1. CASE UNCHANGED vars
  BY <1>1 DEF vars, InQueue
<1>2. ASSUME NEW r \in Request, CallSchedule(r)
      PROVE  GInv'
  <2>1. /\ handler[r] = "schedule" /\ handler' = [handler EXCEPT ![r] = "wait"]
        /\ UNCHANGED <<responder, client>>
        /\ requests' = requests \/ requests' = Append(requests, r)
    BY <1>2 DEF CallSchedule, Sch!Schedule
  <2>2. /\ requests' \in Seq(Request)
        /\ \A q \in Request : q # r /\ InQueue(q)' => InQueue(q)
    <3>1. CASE requests' = requests
      BY <3>1 DEF InQueue
    <3>2. CASE requests' = Append(requests, r)
      <4> DEFINE p == Append(requests, r)
      <4>1. /\ p \in Seq(Request)
            /\ DOMAIN p = 1 .. (Len(requests) + 1)
            /\ DOMAIN requests = 1 .. Len(requests)
            /\ Len(requests) \in Nat
            /\ \A j \in 1 .. Len(requests) : p[j] = requests[j]
            /\ p[Len(requests) + 1] = r
        OBVIOUS
      <4> HIDE DEF p
      <4>2. ASSUME NEW q, q # r, NEW j \in DOMAIN p, p[j] = q
            PROVE  \E k \in DOMAIN requests : requests[k] = q
        BY <4>1, <4>2
      <4>3. requests' = p
        BY <3>2 DEF p
      <4> QED
        BY <4>1, <4>2, <4>3 DEF InQueue
    <3> QED
      BY <2>1, <3>1, <3>2
  <2> QED
    BY <2>1, <2>2
<1>3. ASSUME NEW r \in Request, CancelRequest(r)
      PROVE  GInv'
  <2>1. requests' \in Seq(Request) /\ \A q : InQueue(q)' => InQueue(q)
    <3>1. CASE UNCHANGED requests
      BY <3>1 DEF InQueue
    <3>2. CASE \E i \in DOMAIN requests : requests' = Sch!RemoveAt(requests, i)
      BY <3>2, RemovalAddsNothing
    <3> QED
      BY <1>3, <3>1, <3>2 DEF CancelRequest, Sch!Cancel
  <2>2. /\ responder[r] = "cancel"
        /\ responder' = [responder EXCEPT ![r] = "report"]
        /\ UNCHANGED <<handler, client>>
    BY <1>3 DEF CancelRequest, RespondTo
  <2> QED
    BY <2>1, <2>2
<1>4. CASE PlaceRequests
  <2>1. requests' \in Seq(Request) /\ \A q : InQueue(q)' => InQueue(q)
    <3>1. CASE UNCHANGED requests
      BY <3>1 DEF InQueue
    <3>2. CASE \E i \in DOMAIN requests : requests' = Sch!RemoveAt(requests, i)
      BY <3>2, RemovalAddsNothing
    <3> QED
      BY <1>4, <3>1, <3>2
      DEF PlaceRequests, Sch!ScheduleRequests, Sch!PlaceFirst, Sch!EndUpdate
  <2>2. UNCHANGED <<handler, responder, client>>
    BY <1>4 DEF PlaceRequests, goroutines
  <2> QED
    BY <2>1, <2>2
<1>5. ASSUME NEW r \in Request, Accept(r)
      PROVE  GInv'
  BY <1>5 DEF Accept, RespondTo, InQueue
<1>6. ASSUME NEW r \in Request, TakeResult(r) \/ Timeout(r) \/ SendHeartbeat(r)
      PROVE  GInv'
  BY <1>6 DEF TakeResult, Timeout, SendHeartbeat, RespondTo, InQueue,
              Sch!Receive
<1>7. ASSUME NEW r \in Request, SendResult(r)
      PROVE  GInv'
  BY <1>7 DEF SendResult, RespondTo, InQueue
<1>8. ASSUME NEW r \in Request, HeartbeatFails(r) \/ Report(r)
      PROVE  GInv'
  BY <1>8 DEF HeartbeatFails, Report, RespondTo, InQueue
<1>9. ASSUME NEW r \in Request, ClientLeaves(r)
      PROVE  GInv'
  BY <1>9 DEF ClientLeaves, InQueue
<1>10. ASSUME NEW w \in Worker,
              \/ \E s \in Space : WorkerReport(w, s)
              \/ WorkerGone(w)
              \/ \E s \in Speed : JobDone(w, s)
       PROVE  GInv'
  <2>1. UNCHANGED <<requests, handler, responder, client>>
    BY <1>10 DEF WorkerReport, WorkerGone, JobDone, goroutines,
                 Sch!UpdateWorker, Sch!RemoveWorker, Sch!Completed
  <2> QED
    BY <2>1 DEF InQueue
<1> QED
  BY <1>1, <1>2, <1>3, <1>4, <1>5, <1>6, <1>7, <1>8, <1>9, <1>10
  DEF Next, Responder

LEMMA GInvHolds == Spec => []GInv
  BY GInvInit, GInvStep, PTL DEF Spec

(* Every component of the state of the server keeps its type; answers are  *)
(* answers of the scheduler and program counters stay in their code.       *)
THEOREM ServerTypeCorrect == Spec => []TypeOK
<1>1. GInv /\ Sch!TypeOK => TypeOK
  BY DEF GInv, GoroutineTypes, TypeOK
<1> QED
  BY <1>1, GInvHolds, SchedulerInvariants, PTL

(* A responder never stops while its client is still waiting.              *)
THEOREM ClientsNotAbandoned == Spec => []NobodyAbandoned
<1>1. GInv => NobodyAbandoned
  BY DEF GInv, PhasesAgree, NobodyAbandoned
<1> QED
  BY <1>1, GInvHolds, PTL

-----------------------------------------------------------------------------
(* What the two goroutines and the client know of the answers on their     *)
(* channel.  Nobody is served or gone before his handler has started, the  *)
(* handler schedules exactly once, a responder that passes on a result has *)
(* taken one, a served client was handed a worker, and who has gone is one *)
(* of those who may leave or was refused.                                  *)
ConversationOf(r) ==
  /\ handler[r] = "done" <=> responder[r] = "done"
  /\ client[r] = "gone" => handler[r] # "none"
  /\ handler[r] \in {"none", "schedule"} <=> sent[r] = <<>>
  /\ responder[r] = "send" => taken[r] > 0
  /\ client[r] = "served" => taken[r] > 0 /\ Result(r).type = "Valid"
  /\ client[r] = "gone" => r \in Leavers \/ Refused(r)

Conversation == \A r \in Request : ConversationOf(r)

SchInv == Sch!TypeOK /\ Sch!QueueIsWaiting /\ Sch!AnswerProtocol

(* An answer that ends a conversation is the last one on its channel, and  *)
(* the request is not in the queue.                                        *)
LEMMA LastAnswer ==
  ASSUME SchInv, NEW r \in Request, taken[r] > 0
  PROVE  /\ Result(r).type \in {"Valid", "NoWorkers"} =>
              /\ taken[r] = Len(sent[r])
              /\ Sch!ChannelEmpty(r)
              /\ sent[r] # <<Sch!Queued>>
              /\ ~ InQueue(r)
         /\ Result(r).type = "NoWorkers" => sent[r] = <<Sch!NoWorkers>>
<1>0. /\ taken[r] \in Nat /\ taken[r] <= Len(sent[r])
      /\ sent[r] \in Sch!Answers
  BY DEF SchInv, Sch!TypeOK, Sch!AnswerProtocol
<1>8. InQueue(r) => sent[r] = <<Sch!Queued>>
  BY DEF SchInv, Sch!QueueIsWaiting, InQueue
<1>1. \/ sent[r] = <<>>
      \/ sent[r] = <<Sch!NoWorkers>>
      \/ sent[r] = <<Sch!Queued>>
      \/ \E w \in Worker : sent[r] = <<Sch!Valid(w)>>
      \/ \E w \in Worker : sent[r] = <<Sch!Queued, Sch!Valid(w)>>
  BY <1>0 DEF Sch!Answers
<1>2. /\ Sch!NoWorkers.type = "NoWorkers" /\ Sch!Queued.type = "Queued"
      /\ \A w : Sch!Valid(w).type = "Valid"
  BY DEF Sch!NoWorkers, Sch!Queued, Sch!Valid
<1>3. CASE sent[r] = <<>>
  BY <1>0, <1>3
<1>4. CASE sent[r] = <<Sch!NoWorkers>>
  BY <1>0, <1>2, <1>4, <1>8 DEF Result, Sch!ChannelEmpty
<1>5. CASE sent[r] = <<Sch!Queued>>
  BY <1>0, <1>2, <1>5 DEF Result
<1>6. ASSUME NEW w \in Worker, sent[r] = <<Sch!Valid(w)>>
      PROVE  /\ taken[r] = 1 /\ Len(sent[r]) = 1
             /\ Result(r) = Sch!Valid(w)
             /\ sent[r] # <<Sch!Queued>>
  BY <1>0, <1>2, <1>6 DEF Result
<1>7. ASSUME NEW w \in Worker, sent[r] = <<Sch!Queued, Sch!Valid(w)>>
      PROVE  /\ Result(r).type # "NoWorkers"
             /\ Result(r).type = "Valid" => taken[r] = Len(sent[r])
             /\ sent[r] # <<Sch!Queued>>
  <2>1. Len(sent[r]) = 2 /\ taken[r] \in {1, 2}
    BY <1>0, <1>7
  <2>2. taken[r] = 1 => Result(r) = Sch!Queued
    BY <1>7 DEF Result
  <2>3. taken[r] = 2 => Result(r) = Sch!Valid(w)
    BY <1>7 DEF Result
  <2>4. sent[r] # <<Sch!Queued>>
    BY <2>1
  <2> QED
    BY <1>2, <2>1, <2>2, <2>3, <2>4
<1> QED
  BY <1>1, <1>2, <1>3, <1>4, <1>5, <1>6, <1>7, <1>8 DEF Sch!ChannelEmpty

LEMMA ConversationInit == Init => Conversation
  BY DEF Init, Sch!Init, Conversation, ConversationOf

LEMMA ConversationStep ==
  ASSUME GInv, SchInv, Conversation, [Next]_vars
  PROVE  Conversation'
<1>t. /\ handler \in [Request -> HandlerStates]
      /\ responder \in [Request -> ResponderStates]
      /\ client \in [Request -> ClientStates]
      /\ sent \in [Request -> Seq(Sch!Response)]
      /\ taken \in [Request -> Nat]
  BY DEF GInv, GoroutineTypes, SchInv, Sch!TypeOK
<1>c. \A q \in Request : ConversationOf(q)
  BY DEF Conversation
<1>u. ASSUME NEW q \in Request,
             /\ handler'[q] = handler[q] /\ responder'[q] = responder[q]
             /\ client'[q] = client[q]
             /\ sent'[q] = sent[q] /\ taken'[q] = taken[q]
      PROVE  ConversationOf(q)'
  BY <1>c, <1>u DEF ConversationOf, Result, Refused
<1>1. CASE UNCHANGED vars
  BY <1>1, <1>u DEF vars, Conversation
<1>2. ASSUME NEW r \in Request,
             /\ \/ Accept(r) \/ Timeout(r) \/ SendHeartbeat(r) \/ HeartbeatFails(r)
                \/ Report(r) \/ CancelRequest(r)
      PROVE  Conversation'
  <2>1. /\ UNCHANGED <<sent, taken, client>>
        /\ \A q \in Request \ {r} : handler'[q] = handler[q]
                                    /\ responder'[q] = responder[q]
    BY <1>2, <1>t DEF Accept, Timeout, SendHeartbeat, HeartbeatFails, Report,
                      CancelRequest, RespondTo, Sch!Cancel
  <2>2. ConversationOf(r)'
    BY <1>2, <1>c, <1>t, <2>1
    DEF Accept, Timeout, SendHeartbeat, HeartbeatFails, Report, CancelRequest,
        RespondTo, ConversationOf, Result, Refused
  <2> QED
    BY <1>u, <2>1, <2>2 DEF Conversation
<1>3. ASSUME NEW r \in Request, CallSchedule(r)
      PROVE  Conversation'
  <2>1. /\ sent[r] = <<>>
        /\ UNCHANGED <<responder, client, taken>>
        /\ handler' = [handler EXCEPT ![r] = "wait"]
        /\ handler[r] = "schedule"
        /\ \E a : sent' = [sent EXCEPT ![r] = Append(@, a)]
    BY <1>3 DEF CallSchedule, Sch!Schedule, Sch!Send
  <2>2. /\ sent'[r] # <<>>
        /\ \A q \in Request \ {r} : sent'[q] = sent[q] /\ handler'[q] = handler[q]
    BY <1>t, <2>1
  <2>3. taken[r] = 0
    BY <1>t, <2>1 DEF SchInv, Sch!AnswerProtocol
  <2>4. ConversationOf(r)'
    BY <1>c, <1>t, <2>1, <2>2, <2>3 DEF ConversationOf, Refused
  <2> QED
    BY <1>u, <2>1, <2>2, <2>4 DEF Conversation
<1>4. ASSUME NEW r \in Request, TakeResult(r)
      PROVE  Conversation'
  <2>1. /\ ~ Sch!ChannelEmpty(r)
        /\ UNCHANGED <<handler, client, sent>>
        /\ responder' = [responder EXCEPT ![r] = "send"]
        /\ responder[r] = "select"
        /\ taken' = [taken EXCEPT ![r] = @ + 1]
    BY <1>4 DEF TakeResult, RespondTo, Sch!Receive
  <2>2. client[r] # "served" /\ ~ Refused(r)
    BY <1>c, <2>1, LastAnswer DEF ConversationOf, Refused
  <2>3. ConversationOf(r)'
    BY <1>c, <1>t, <2>1, <2>2 DEF ConversationOf
  <2> QED
    BY <1>t, <1>u, <2>1, <2>3 DEF Conversation
<1>5. ASSUME NEW r \in Request, SendResult(r) \/ ClientLeaves(r)
      PROVE  Conversation'
  <2>1. /\ UNCHANGED <<handler, sent, taken>>
        /\ \A q \in Request \ {r} : client'[q] = client[q]
                                    /\ responder'[q] = responder[q]
    BY <1>5, <1>t DEF SendResult, ClientLeaves, RespondTo
  <2>2. ConversationOf(r)'
    BY <1>5, <1>c, <1>t, <2>1
    DEF SendResult, ClientLeaves, RespondTo, ConversationOf, Result, Refused
  <2> QED
    BY <1>u, <2>1, <2>2 DEF Conversation
<1>6. ASSUME PlaceRequests
      PROVE  Conversation'
  <2>1. UNCHANGED <<handler, responder, client, taken>>
    BY <1>6 DEF PlaceRequests, goroutines, Sch!ScheduleRequests,
                Sch!PlaceFirst, Sch!EndUpdate, Sch!Send
  <2>2. CASE UNCHANGED sent
    BY <1>u, <2>1, <2>2 DEF Conversation
  <2>3. ASSUME NEW i \in DOMAIN requests, NEW w \in Worker, Sch!PlaceFirst(i, w)
        PROVE  Conversation'
    <3>1. PICK r \in Request : r = requests[i] /\ InQueue(r)
      BY DEF GInv, InQueue
    <3>2. sent' = [sent EXCEPT ![r] = Append(@, Sch!Valid(w))]
      BY <2>3, <3>1 DEF Sch!PlaceFirst, Sch!Send
    <3>4. sent[r] = <<Sch!Queued>>
      BY <3>1 DEF SchInv, Sch!QueueIsWaiting, InQueue
    <3>3. /\ sent'[r] # <<>>
          /\ \A q \in Request \ {r} : sent'[q] = sent[q]
      <4>1. Append(sent[r], Sch!Valid(w)) # <<>>
        BY <3>4
      <4> QED
        BY <1>t, <3>1, <3>2, <4>1
    <3>5. client[r] # "served" /\ ~ Refused(r)
      BY <1>c, <3>1, LastAnswer DEF ConversationOf, Refused
    <3>6. sent[r] # <<>>
      BY <3>4
    <3>7. ConversationOf(r)'
      BY <1>c, <2>1, <3>1, <3>3, <3>5, <3>6 DEF ConversationOf
    <3> QED
      BY <1>u, <2>1, <3>3, <3>7 DEF Conversation
  <2> QED
    BY <1>6, <2>2, <2>3 DEF PlaceRequests, Sch!ScheduleRequests, Sch!EndUpdate
<1>7. ASSUME NEW w \in Worker,
             \/ \E s \in Space : WorkerReport(w, s)
             \/ WorkerGone(w)
             \/ \E s \in Speed : JobDone(w, s)
      PROVE  Conversation'
  <2>1. UNCHANGED <<handler, responder, client, sent, taken>>
    BY <1>7 DEF WorkerReport, WorkerGone, JobDone, goroutines,
                Sch!UpdateWorker, Sch!RemoveWorker, Sch!Completed
  <2> QED
    BY <1>u, <2>1 DEF Conversation
<1> QED
  BY <1>1, <1>2, <1>3, <1>4, <1>5, <1>6, <1>7 DEF Next, Responder

LEMMA SchInvHolds == Spec => []SchInv
<1>1. Sch!TypeOK /\ Sch!QueueIsWaiting /\ Sch!AnswerProtocol => SchInv
  BY DEF SchInv
<1> QED
  BY <1>1, SchedulerInvariants, PTL

LEMMA ConversationHolds == Spec => []Conversation
  BY ConversationInit, ConversationStep, GInvHolds, SchInvHolds, PTL DEF Spec

(* A client that is in the queue has not been answered, and has somebody   *)
(* at its channel as long as it is there.                                  *)
THEOREM QueuedClientsHaveListeners == Spec => []WaitingHasListener
<1>1. ASSUME GInv, SchInv, Conversation, NEW r \in Request, InQueue(r)
      PROVE  \/ /\ client[r] = "waiting"
                /\ responder[r] \in {"select", "send", "heartbeat"}
             \/ client[r] = "gone" /\ ~ Refused(r)
  <2>1. client[r] # "served" /\ ~ Refused(r)
    BY <1>1, LastAnswer DEF Conversation, ConversationOf, Refused
  <2>2. /\ client[r] \in {"waiting", "served", "gone"}
        /\ responder[r] \in ResponderStates
    BY <1>1 DEF GInv, GoroutineTypes, ClientStates
  <2>3. responder[r] \notin {"off"} /\
        (client[r] = "waiting" => responder[r] \notin {"cancel", "report", "done"})
    BY <1>1 DEF GInv, PhasesAgree
  <2> QED
    BY <2>1, <2>2, <2>3 DEF ResponderStates
<1>2. GInv /\ SchInv /\ Conversation => WaitingHasListener
  BY <1>1 DEF WaitingHasListener
<1> QED
  BY <1>2, GInvHolds, SchInvHolds, ConversationHolds, PTL

(* scheduler.go:39, "Remove the request from our list of requests", holds  *)
(* for every request whose client does not hang up before it is answered:  *)
(* the orphan that the run of CancelledIsRemoved shows needs such a client.*)
THEOREM OnlyLeaversAreOrphaned ==
  Spec => [](\A r \in Request :
               handler[r] = "done" /\ InQueue(r)
                 => r \in Leavers /\ client[r] = "gone")
<1>1. ASSUME Conversation, WaitingHasListener, NEW r \in Request,
             handler[r] = "done", InQueue(r)
      PROVE  r \in Leavers /\ client[r] = "gone"
  <2>1. responder[r] = "done"
    BY <1>1 DEF Conversation, ConversationOf
  <2>2. client[r] = "gone" /\ ~ Refused(r)
    BY <1>1, <2>1 DEF WaitingHasListener
  <2> QED
    BY <1>1, <2>2 DEF Conversation, ConversationOf
<1>2. Conversation /\ WaitingHasListener
        => \A r \in Request :
             handler[r] = "done" /\ InQueue(r)
               => r \in Leavers /\ client[r] = "gone"
  BY <1>1
<1> QED
  BY <1>2, ConversationHolds, QueuedClientsHaveListeners, PTL

(* A client is served with the last word of the scheduler: it was handed a *)
(* worker, it has read every answer on its channel, and none will follow.  *)
THEOREM ServedWithLastAnswer ==
  Spec => [](\A r \in Request :
               client[r] = "served" =>
                 /\ Sch!ChannelEmpty(r)
                 /\ \E w \in Worker : Result(r) = Sch!Valid(w)
                 /\ ~ InQueue(r))
<1>1. ASSUME SchInv, Conversation, NEW r \in Request, client[r] = "served"
      PROVE  /\ Sch!ChannelEmpty(r)
             /\ \E w \in Worker : Result(r) = Sch!Valid(w)
             /\ ~ InQueue(r)
  <2>1. taken[r] > 0 /\ Result(r).type = "Valid"
    BY <1>1 DEF Conversation, ConversationOf
  <2>2. Sch!ChannelEmpty(r) /\ ~ InQueue(r)
    BY <1>1, <2>1, LastAnswer
  <2>3. Result(r) \in Sch!Response
    <3>1. /\ sent[r] \in Seq(Sch!Response) /\ taken[r] \in Nat
          /\ taken[r] <= Len(sent[r])
      BY <1>1 DEF SchInv, Sch!TypeOK, Sch!AnswerProtocol
    <3> QED
      BY <2>1, <3>1 DEF Result
  <2>4. \E w \in Worker : Result(r) = Sch!Valid(w)
    BY <2>1, <2>3 DEF Sch!Response, Sch!NoWorkers, Sch!Queued, Sch!Valid
  <2> QED
    BY <2>2, <2>4
<1>2. SchInv /\ Conversation
        => \A r \in Request :
             client[r] = "served" =>
               /\ Sch!ChannelEmpty(r)
               /\ \E w \in Worker : Result(r) = Sch!Valid(w)
               /\ ~ InQueue(r)
  BY <1>1
<1> QED
  BY <1>2, SchInvHolds, ConversationHolds, PTL

(* The clients that are not free to leave stay until they are answered, so *)
(* the assumption AllStay of MutexReleased and ReportServesWaiting is what *)
(* a server without impatient clients provides.                            *)
THEOREM OthersStay == Spec => [](Leavers = {} => AllStay)
<1>1. Conversation => (Leavers = {} => AllStay)
  BY DEF Conversation, ConversationOf, AllStay
<1> QED
  BY <1>1, ConversationHolds, PTL

-----------------------------------------------------------------------------
(* Progress.  The provers do not reason about ENABLED, so the theorems      *)
(* below take []NobodyStuck as a hypothesis: it is an invariant of Server,  *)
(* which a run checks.  The rest of the arguments is proved.                *)

(* Where the responder of a request is, and how much it has read.           *)
At(r, p)      == responder[r] = p
HasRead(r, n) == taken[r] = n
Handles(r, p) == handler[r] = p
Gone(r)       == client[r] = "gone"
Looping(r)    == At(r, "select") \/ At(r, "send") \/ At(r, "heartbeat")

(* The ways in which a step can move the goroutines of a request.           *)
ResponderMoves(r) ==
  \/ responder'[r] = responder[r] /\ taken'[r] = taken[r]
  \/ /\ responder[r] = "select" /\ responder'[r] = "send"
     /\ taken'[r] = taken[r] + 1
  \/ /\ taken'[r] = taken[r]
     /\ \/ responder[r] = "off" /\ responder'[r] = "select"
        \/ responder[r] = "select" /\ responder'[r] = "heartbeat"
        \/ responder[r] = "send" /\ responder'[r] \in {"select", "report"}
        \/ responder[r] = "heartbeat" /\ responder'[r] = "select"
        \/ responder[r] = "heartbeat" /\ responder'[r] = "cancel" /\ Gone(r)
        \/ responder[r] = "cancel" /\ responder'[r] = "report"
        \/ responder[r] = "report" /\ responder'[r] = "done"

HandlerMoves(r) ==
  \/ handler'[r] = handler[r]
  \/ handler[r] = "none" /\ handler'[r] = "schedule"
  \/ handler[r] = "schedule" /\ handler'[r] = "wait"
  \/ handler[r] = "wait" /\ handler'[r] = "done"

LEMMA Moves ==
  ASSUME GInv, SchInv, [Next]_vars, NEW r \in Request
  PROVE  ResponderMoves(r) /\ HandlerMoves(r) /\ (Gone(r) => Gone(r)')
<1>t. /\ handler \in [Request -> HandlerStates]
      /\ responder \in [Request -> ResponderStates]
      /\ client \in [Request -> ClientStates]
      /\ taken \in [Request -> Nat]
  BY DEF GInv, GoroutineTypes, SchInv, Sch!TypeOK
<1> USE DEF ResponderMoves, HandlerMoves, Gone
<1>1. CASE UNCHANGED <<handler, responder, client, taken>>
  BY <1>1
<1>2. ASSUME NEW q \in Request,
             \/ Accept(q) \/ Timeout(q) \/ SendResult(q)
             \/ SendHeartbeat(q) \/ HeartbeatFails(q) \/ Report(q)
      PROVE  ResponderMoves(r) /\ HandlerMoves(r) /\ (Gone(r) => Gone(r)')
  <2>1. CASE q = r
    BY <1>2, <1>t, <2>1
    DEF Accept, Timeout, SendResult, SendHeartbeat, HeartbeatFails, Report,
        RespondTo
  <2>2. CASE q # r
    BY <1>2, <1>t, <2>2
    DEF Accept, Timeout, SendResult, SendHeartbeat, HeartbeatFails, Report,
        RespondTo
  <2> QED
    BY <2>1, <2>2
<1>3. ASSUME NEW q \in Request, CallSchedule(q) \/ CancelRequest(q)
      PROVE  ResponderMoves(r) /\ HandlerMoves(r) /\ (Gone(r) => Gone(r)')
  <2>1. UNCHANGED <<client, taken>>
    BY <1>3 DEF CallSchedule, CancelRequest, Sch!Schedule, Sch!Send, Sch!Cancel
  <2> QED
    BY <1>3, <1>t, <2>1 DEF CallSchedule, CancelRequest, RespondTo
<1>4. ASSUME NEW q \in Request, TakeResult(q)
      PROVE  ResponderMoves(r) /\ HandlerMoves(r) /\ (Gone(r) => Gone(r)')
  BY <1>4, <1>t DEF TakeResult, RespondTo, Sch!Receive
<1>5. ASSUME NEW q \in Request, ClientLeaves(q)
      PROVE  ResponderMoves(r) /\ HandlerMoves(r) /\ (Gone(r) => Gone(r)')
  BY <1>5, <1>t DEF ClientLeaves
<1>6. CASE PlaceRequests
  BY <1>6, <1>1 DEF PlaceRequests, goroutines, Sch!ScheduleRequests,
                    Sch!PlaceFirst, Sch!EndUpdate, Sch!Send
<1>7. ASSUME NEW w \in Worker,
             \/ \E s \in Space : WorkerReport(w, s)
             \/ WorkerGone(w)
             \/ \E s \in Speed : JobDone(w, s)
      PROVE  ResponderMoves(r) /\ HandlerMoves(r) /\ (Gone(r) => Gone(r)')
  BY <1>1, <1>7 DEF WorkerReport, WorkerGone, JobDone, goroutines,
                    Sch!UpdateWorker, Sch!RemoveWorker, Sch!Completed
<1>8. CASE UNCHANGED vars
  BY <1>1, <1>8 DEF vars
<1> QED
  BY <1>2, <1>3, <1>4, <1>5, <1>6, <1>7, <1>8 DEF Next, Responder

(* A step of a responder moves it; a move of a handler that has to schedule *)
(* or of a responder that sends heartbeats takes them further.              *)
LEMMA Forward ==
  ASSUME GInv, NEW r \in Request
  PROVE  /\ <<Responder(r)>>_vars => responder'[r] # responder[r]
         /\ <<CallSchedule(r)>>_vars => Handles(r, "wait")'
         /\ <<HeartbeatFails(r)>>_vars => At(r, "cancel")'
         /\ <<CancelRequest(r)>>_vars => At(r, "report")'
         /\ <<TakeResult(r)>>_vars => At(r, "select") /\ At(r, "send")'
<1>t. /\ handler \in [Request -> HandlerStates]
      /\ responder \in [Request -> ResponderStates]
  BY DEF GInv, GoroutineTypes
<1>1. Responder(r) => responder'[r] # responder[r]
  BY <1>t DEF Responder, TakeResult, Timeout, SendResult, SendHeartbeat,
              HeartbeatFails, CancelRequest, Report, RespondTo
<1>2. CallSchedule(r) => Handles(r, "wait")'
  BY <1>t DEF CallSchedule, Handles
<1>3. /\ HeartbeatFails(r) => At(r, "cancel")'
      /\ CancelRequest(r) => At(r, "report")'
      /\ TakeResult(r) => At(r, "select") /\ At(r, "send")'
  BY <1>t DEF HeartbeatFails, CancelRequest, TakeResult, RespondTo, At
<1> QED
  BY <1>1, <1>2, <1>3

LInv == GInv /\ SchInv /\ Conversation /\ WaitingHasListener

LEMMA LInvHolds == Spec => []LInv
<1>1. GInv /\ SchInv /\ Conversation /\ WaitingHasListener => LInv
  BY DEF LInv
<1> QED
  BY <1>1, GInvHolds, SchInvHolds, ConversationHolds,
     QueuedClientsHaveListeners, PTL

(* Only schedule brings a request into the queue, and cancel takes it out.  *)
LEMMA QueueGrows ==
  ASSUME LInv, [Next]_vars, NEW r \in Request, InQueue(r)', ~ InQueue(r)
  PROVE  CallSchedule(r)
<1> USE DEF LInv, GInv
<1>1. ASSUME NEW q \in Request, CallSchedule(q), q # r
      PROVE  FALSE
  <2>1. requests' = requests \/ requests' = Append(requests, q)
    BY <1>1 DEF CallSchedule, Sch!Schedule
  <2>2. CASE requests' = requests
    BY <2>2 DEF InQueue
  <2>3. CASE requests' = Append(requests, q)
    <3> DEFINE p == Append(requests, q)
    <3>1. /\ DOMAIN p = 1 .. (Len(requests) + 1)
          /\ DOMAIN requests = 1 .. Len(requests) /\ Len(requests) \in Nat
          /\ \A j \in 1 .. Len(requests) : p[j] = requests[j]
          /\ p[Len(requests) + 1] = q
      OBVIOUS
    <3> HIDE DEF p
    <3>2. ASSUME NEW j \in DOMAIN p, p[j] = r
          PROVE  \E k \in DOMAIN requests : requests[k] = r
      BY <1>1, <3>1, <3>2
    <3>3. requests' = p
      BY <2>3 DEF p
    <3> QED
      BY <3>2, <3>3 DEF InQueue
  <2> QED
    BY <2>1, <2>2, <2>3
<1>2. UNCHANGED requests => FALSE
  BY DEF InQueue
<1>3. (\E i \in DOMAIN requests : requests' = Sch!RemoveAt(requests, i)) => FALSE
  BY RemovalAddsNothing
<1>4. ASSUME NEW q \in Request,
             \/ Accept(q) \/ TakeResult(q) \/ Timeout(q) \/ SendResult(q)
             \/ SendHeartbeat(q) \/ HeartbeatFails(q) \/ Report(q)
             \/ ClientLeaves(q)
      PROVE  UNCHANGED requests
  BY <1>4 DEF Accept, TakeResult, Timeout, SendResult, SendHeartbeat,
              HeartbeatFails, Report, ClientLeaves, Sch!Receive
<1>5. ASSUME NEW q \in Request, CancelRequest(q)
      PROVE  FALSE
  BY <1>2, <1>3, <1>5 DEF CancelRequest, Sch!Cancel
<1>6. ~ PlaceRequests
  BY <1>2, <1>3 DEF PlaceRequests, Sch!ScheduleRequests, Sch!PlaceFirst, Sch!EndUpdate
<1>7. ASSUME NEW w \in Worker,
             \/ \E s \in Space : WorkerReport(w, s)
             \/ WorkerGone(w)
             \/ \E s \in Speed : JobDone(w, s)
      PROVE  UNCHANGED requests
  BY <1>7 DEF WorkerReport, WorkerGone, JobDone, Sch!UpdateWorker,
              Sch!RemoveWorker, Sch!Completed
<1>8. CASE UNCHANGED vars
  BY <1>2, <1>8 DEF vars
<1> QED
  BY <1>1, <1>2, <1>4, <1>5, <1>6, <1>7, <1>8 DEF Next, Responder

LEMMA CancelRemoves ==
  ASSUME SchInv, NEW r \in Request, CancelRequest(r)
  PROVE  ~ InQueue(r)'
<1>1. /\ requests \in Seq(Request)
      /\ \A j, k \in DOMAIN requests : requests[j] = requests[k] => j = k
  BY DEF SchInv, Sch!TypeOK, Sch!QueueIsWaiting
<1>2. ASSUME NEW i \in DOMAIN requests, requests[i] = r,
             requests' = Sch!RemoveAt(requests, i)
      PROVE  ~ InQueue(r)'
  <2>1. requests' = SchP!RemoveAt(requests, i)
    BY <1>2 DEF Sch!RemoveAt, SchP!RemoveAt
  <2>2. ~ \E j \in DOMAIN SchP!RemoveAt(requests, i) :
            SchP!RemoveAt(requests, i)[j] = r
    BY <1>1, <1>2, SameParameters, SchP!RemoveAtMembers
  <2> QED
    BY <2>1, <2>2 DEF InQueue
<1>3. CASE UNCHANGED requests /\ \A i \in DOMAIN requests : requests[i] # r
  BY <1>3 DEF InQueue
<1> QED
  BY <1>2, <1>3 DEF CancelRequest, Sch!Cancel

(* A request without a responder, in the queue: the run of                  *)
(* CancelledIsRemoved leads there.                                          *)
Orphaned(r) == InQueue(r) /\ (At(r, "report") \/ At(r, "done"))

(* The cause of every orphan is a call of schedule that comes after the     *)
(* cancel: the client left while the handler waited for the mutex.  A       *)
(* request that is in the queue when it is cancelled, or whose responder    *)
(* ends with a worker, is out of the queue and stays out of it.             *)
OrphansComeLate ==
  [][\A r \in Request :
       ~ Orphaned(r) /\ Orphaned(r)' => CallSchedule(r) /\ At(r, "report")]_vars

THEOREM OrphansAreScheduledLate == Spec => OrphansComeLate
<1>1. ASSUME LInv, [Next]_vars, NEW r \in Request, ~ Orphaned(r), Orphaned(r)'
      PROVE  CallSchedule(r) /\ At(r, "report")
  <2>1. CASE ~ InQueue(r)
    <3>1. CallSchedule(r)
      BY <1>1, <2>1, QueueGrows DEF Orphaned
    <3>2. responder' = responder /\ handler[r] = "schedule"
      BY <3>1 DEF CallSchedule
    <3>3. ~ At(r, "done")
      BY <1>1, <3>2 DEF LInv, Conversation, ConversationOf, At
    <3> QED
      BY <1>1, <3>1, <3>2, <3>3 DEF Orphaned, At
  <2>2. CASE InQueue(r)
    <3>1. /\ responder[r] # "report" /\ responder[r] # "done"
          /\ responder'[r] = "report" \/ responder'[r] = "done"
      BY <1>1, <2>2 DEF Orphaned, At
    <3>2. responder[r] \in {"send", "cancel"} /\ responder'[r] # responder[r]
      BY <1>1, <3>1, Moves DEF LInv, ResponderMoves
    <3>3. SendResult(r) \/ CancelRequest(r)
      <4>1. responder \in [Request -> ResponderStates]
        BY <1>1 DEF LInv, GInv, GoroutineTypes
      <4>2. responder' # responder
        BY <3>2
      <4> QED
        BY <1>1, <3>2, <4>1, <4>2
        DEF Next, Responder, vars, Accept, CallSchedule, TakeResult, Timeout,
            SendResult, SendHeartbeat, HeartbeatFails, CancelRequest, Report,
            ClientLeaves, WorkerReport, PlaceRequests, WorkerGone, JobDone,
            goroutines, RespondTo
    <3>4. CASE SendResult(r)
      <4>1. responder[r] = "send" /\ Result(r).type = "Valid"
        BY <1>1, <3>1, <3>4 DEF SendResult, RespondTo, LInv, GInv, GoroutineTypes
      <4>2. taken[r] > 0
        BY <1>1, <4>1 DEF LInv, Conversation, ConversationOf
      <4> QED
        BY <1>1, <2>2, <4>1, <4>2, LastAnswer DEF LInv
    <3>5. CASE CancelRequest(r)
      BY <1>1, <3>5, CancelRemoves DEF LInv, Orphaned
    <3> QED
      BY <3>3, <3>4, <3>5
  <2> QED
    BY <2>1, <2>2
<1>2. LInv /\ [Next]_vars
        => [\A r \in Request :
              ~ Orphaned(r) /\ Orphaned(r)' => CallSchedule(r) /\ At(r, "report")]_vars
  BY <1>1
<1> QED
  BY <1>2, LInvHolds, PTL DEF Spec, OrphansComeLate

(* What PTL needs of the fairness and the freedom to move of one request.   *)
LEMMA RunsOnOne == ASSUME NEW r \in Request PROVE AllRunOn => RunsOn(r)
  BY DEF AllRunOn

LEMMA NotStuckOne == ASSUME NEW r \in Request PROVE NobodyStuck => NotStuck(r)
  BY DEF NobodyStuck

LEMMA Unstuck ==
  ASSUME NEW r \in Request, NotStuck(r)
  PROVE  /\ Looping(r) => ENABLED <<Responder(r)>>_vars
         /\ At(r, "report") /\ Handles(r, "wait")
              => ENABLED <<Responder(r)>>_vars
         /\ Handles(r, "schedule") /\ ~ smutex
              => ENABLED <<CallSchedule(r)>>_vars
         /\ At(r, "cancel") /\ ~ smutex => ENABLED <<CancelRequest(r)>>_vars
         /\ At(r, "select") /\ ~ Sch!ChannelEmpty(r)
              => ENABLED <<TakeResult(r)>>_vars
         /\ At(r, "heartbeat") /\ Gone(r) => ENABLED <<HeartbeatFails(r)>>_vars
  BY DEF NotStuck, Looping, At, Handles, Gone

(* A channel carries at most two answers, one at a time.                    *)
LEMMA FewAnswers ==
  ASSUME SchInv, NEW r \in Request
  PROVE  taken[r] \in 0 .. 2 /\ Len(sent[r]) \in 0 .. 2
<1>1. /\ taken[r] \in Nat /\ taken[r] <= Len(sent[r])
      /\ sent[r] \in Sch!Answers
  BY DEF SchInv, Sch!TypeOK, Sch!AnswerProtocol
<1>3. \/ sent[r] = <<>>
      \/ sent[r] = <<Sch!NoWorkers>>
      \/ sent[r] = <<Sch!Queued>>
      \/ \E w \in Worker : sent[r] = <<Sch!Valid(w)>>
      \/ \E w \in Worker : sent[r] = <<Sch!Queued, Sch!Valid(w)>>
  BY <1>1 DEF Sch!Answers
<1>4. ASSUME NEW w \in Worker, sent[r] = <<Sch!Valid(w)>>
      PROVE  Len(sent[r]) = 1
  BY <1>4
<1>5. ASSUME NEW w \in Worker, sent[r] = <<Sch!Queued, Sch!Valid(w)>>
      PROVE  Len(sent[r]) = 2
  BY <1>5
<1>6. ASSUME sent[r] = <<>> PROVE Len(sent[r]) = 0
  BY <1>6
<1>7. ASSUME sent[r] = <<Sch!NoWorkers>> PROVE Len(sent[r]) = 1
  BY <1>7
<1>8. ASSUME sent[r] = <<Sch!Queued>> PROVE Len(sent[r]) = 1
  BY <1>8
<1>2. Len(sent[r]) \in 0 .. 2
  BY <1>3, <1>4, <1>5, <1>6, <1>7, <1>8
<1> DEFINE n == Len(sent[r])
<1>9. taken[r] \in Nat /\ taken[r] <= n /\ n \in 0 .. 2
  BY <1>1, <1>2
<1> HIDE DEF n
<1>10. taken[r] \in 0 .. 2
  BY <1>9
<1> QED
  BY <1>2, <1>10

(* The moves of the loop, and of the number of answers read in it.          *)
LEMMA LoopMoves ==
  ASSUME NEW r \in Request
  PROVE  LInv /\ [Next]_vars =>
           /\ At(r, "select") => \/ At(r, "select")' \/ At(r, "heartbeat")'
                                 \/ At(r, "send")'
           /\ At(r, "send") => \/ At(r, "send")' \/ At(r, "select")'
                               \/ At(r, "report")'
           /\ At(r, "heartbeat") => \/ At(r, "heartbeat")' \/ At(r, "select")'
                                    \/ At(r, "cancel")'
  BY Moves DEF LInv, ResponderMoves, At

LEMMA ReadsMove ==
  ASSUME NEW r \in Request
  PROVE  LInv /\ LInv' /\ [Next]_vars =>
           /\ HasRead(r, 0) => \/ HasRead(r, 0)'
                               \/ At(r, "select") /\ At(r, "send")' /\ HasRead(r, 1)'
           /\ HasRead(r, 1) => \/ HasRead(r, 1)'
                               \/ At(r, "select") /\ At(r, "send")' /\ HasRead(r, 2)'
           /\ HasRead(r, 2) => HasRead(r, 2)'
           /\ At(r, "select") /\ HasRead(r, 0) => ~ (At(r, "send")' /\ HasRead(r, 0)')
           /\ At(r, "select") /\ HasRead(r, 1) => ~ (At(r, "send")' /\ HasRead(r, 1)')
           /\ At(r, "select") /\ HasRead(r, 2) => ~ At(r, "send")'
<1>1. LInv => taken[r] \in 0 .. 2
  BY FewAnswers DEF LInv
<1>2. LInv' => (taken[r] \in 0 .. 2)'
  BY <1>1, PTL
<1> SUFFICES ASSUME LInv, LInv', [Next]_vars
             PROVE
           /\ HasRead(r, 0) => \/ HasRead(r, 0)'
                               \/ At(r, "select") /\ At(r, "send")' /\ HasRead(r, 1)'
           /\ HasRead(r, 1) => \/ HasRead(r, 1)'
                               \/ At(r, "select") /\ At(r, "send")' /\ HasRead(r, 2)'
           /\ HasRead(r, 2) => HasRead(r, 2)'
           /\ At(r, "select") /\ HasRead(r, 0) => ~ (At(r, "send")' /\ HasRead(r, 0)')
           /\ At(r, "select") /\ HasRead(r, 1) => ~ (At(r, "send")' /\ HasRead(r, 1)')
           /\ At(r, "select") /\ HasRead(r, 2) => ~ At(r, "send")'
  OBVIOUS
<1>3. ResponderMoves(r)
  BY Moves DEF LInv
<1>4. taken'[r] \in 0 .. 2
  BY <1>2
<1> QED
  BY <1>3, <1>4 DEF ResponderMoves, HasRead, At

LEMMA ReadsCount ==
  ASSUME NEW r \in Request
  PROVE  LInv => /\ HasRead(r, 0) \/ HasRead(r, 1) \/ HasRead(r, 2)
                 /\ ~ (HasRead(r, 0) /\ HasRead(r, 1))
                 /\ ~ (At(r, "select") /\ At(r, "send"))
<1>1. LInv => taken[r] \in 0 .. 2
  BY FewAnswers DEF LInv
<1> QED
  BY <1>1 DEF HasRead, At

LEMMA LoopSteps ==
  ASSUME NEW r \in Request
  PROVE  LInv =>
           /\ <<Responder(r)>>_vars => /\ At(r, "select") => ~ At(r, "select")'
                                       /\ At(r, "send") => ~ At(r, "send")'
                                       /\ At(r, "heartbeat") => ~ At(r, "heartbeat")'
           /\ <<HeartbeatFails(r)>>_vars => At(r, "cancel")'
  BY Forward DEF LInv, At

(* The loop of a responder whose client has gone ends: it reads at most two *)
(* answers, and heartbeats do not succeed for ever.                         *)
LEMMA LoopEnds ==
  ASSUME NEW r \in Request
  PROVE  /\ [][Next]_vars /\ []LInv /\ []NotStuck(r) /\ RunsOn(r)
         => (Gone(r) /\ Looping(r)
               ~> Gone(r) /\ (At(r, "cancel") \/ At(r, "report")))
<1>1. LInv /\ [Next]_vars => (Gone(r) => Gone(r)')
  BY Moves DEF LInv
<1>2. NotStuck(r) =>
        /\ Looping(r) => ENABLED <<Responder(r)>>_vars
        /\ At(r, "heartbeat") /\ Gone(r) => ENABLED <<HeartbeatFails(r)>>_vars
  BY Unstuck
<1>3. Looping(r) <=> At(r, "select") \/ At(r, "send") \/ At(r, "heartbeat")
  BY DEF Looping
<1> QED
  BY <1>1, <1>2, <1>3, LoopMoves, ReadsMove, ReadsCount, LoopSteps, PTL
  DEF RunsOn

(* The handler of a client that has gone gets the mutex and schedules.      *)
LEMMA HandlerSchedules ==
  ASSUME NEW r \in Request
  PROVE  /\ [][Next]_vars /\ []LInv /\ []NotStuck(r) /\ RunsOn(r)
         /\ []<> ~ smutex
         => (Gone(r) ~> Handles(r, "wait") \/ Handles(r, "done"))
<1>1. LInv /\ [Next]_vars =>
        /\ Gone(r) => Gone(r)'
        /\ Handles(r, "schedule") => Handles(r, "schedule")' \/ Handles(r, "wait")'
  BY Moves DEF LInv, HandlerMoves, Handles
<1>2. LInv =>
        /\ Gone(r) => Handles(r, "schedule") \/ Handles(r, "wait") \/ Handles(r, "done")
        /\ <<CallSchedule(r)>>_vars => Handles(r, "wait")'
  BY Forward DEF LInv, Conversation, ConversationOf, GInv, GoroutineTypes,
                 HandlerStates, Handles, Gone
<1>3. NotStuck(r) =>
        (Handles(r, "schedule") /\ ~ smutex => ENABLED <<CallSchedule(r)>>_vars)
  BY Unstuck
<1> QED
  BY <1>1, <1>2, <1>3, PTL DEF RunsOn

(* A responder that has to cancel gets the mutex.                           *)
LEMMA CancelEnds ==
  ASSUME NEW r \in Request
  PROVE  /\ [][Next]_vars /\ []LInv /\ []NotStuck(r) /\ RunsOn(r)
         /\ []<> ~ smutex
         => (At(r, "cancel") ~> At(r, "report"))
<1>1. LInv /\ [Next]_vars =>
        (At(r, "cancel") => At(r, "cancel")' \/ At(r, "report")')
  BY Moves DEF LInv, ResponderMoves, At
<1>2. LInv => (<<CancelRequest(r)>>_vars => At(r, "report")')
  BY Forward DEF LInv
<1>3. NotStuck(r) =>
        (At(r, "cancel") /\ ~ smutex => ENABLED <<CancelRequest(r)>>_vars)
  BY Unstuck
<1> QED
  BY <1>1, <1>2, <1>3, PTL DEF RunsOn

(* Handler and responder meet at errOut.                                    *)
LEMMA ReportEnds ==
  ASSUME NEW r \in Request
  PROVE  /\ [][Next]_vars /\ []LInv /\ []NotStuck(r) /\ RunsOn(r)
         => (At(r, "report") /\ Handles(r, "wait") ~> Handles(r, "done"))
<1>1. LInv /\ [Next]_vars =>
        /\ At(r, "report") => At(r, "report")' \/ At(r, "done")'
        /\ Handles(r, "wait") => Handles(r, "wait")' \/ Handles(r, "done")'
  BY Moves DEF LInv, ResponderMoves, HandlerMoves, At, Handles
<1>2. LInv =>
        /\ At(r, "done") <=> Handles(r, "done")
        /\ <<Responder(r)>>_vars => (At(r, "report") => ~ At(r, "report")')
  BY Forward DEF LInv, Conversation, ConversationOf, At, Handles
<1>3. NotStuck(r) =>
        (At(r, "report") /\ Handles(r, "wait") => ENABLED <<Responder(r)>>_vars)
  BY Unstuck
<1> QED
  BY <1>1, <1>2, <1>3, PTL DEF RunsOn

(* When a client has gone and the mutex is free again and again, the        *)
(* goroutines that serve it end, wherever they were and whatever is on      *)
(* their channel: the handler schedules, the responder leaves its loop,     *)
(* cancels if it has to, and the two meet at errOut.                        *)
THEOREM GoroutinesEnd == FairSpec /\ []NobodyStuck => NoGoroutineLeak
<1> SUFFICES ASSUME NEW r \in Request
             PROVE  FairSpec /\ []NobodyStuck /\ []<> ~ smutex
                      => (client[r] = "gone" ~> handler[r] = "done")
  BY DEF NoGoroutineLeak
<1>1. LInv /\ [Next]_vars =>
        /\ Gone(r) => Gone(r)'
        /\ Handles(r, "wait") => Handles(r, "wait")' \/ Handles(r, "done")'
        /\ Handles(r, "done") => Handles(r, "done")'
        /\ At(r, "report") => At(r, "report")' \/ At(r, "done")'
  BY Moves DEF LInv, ResponderMoves, HandlerMoves, At, Handles
<1>2. LInv /\ Gone(r) =>
        Looping(r) \/ At(r, "cancel") \/ At(r, "report") \/ At(r, "done")
  BY DEF LInv, Conversation, ConversationOf, GInv, GoroutineTypes, PhasesAgree,
         ResponderStates, At, Gone, Looping
<1>3. LInv => (At(r, "done") <=> Handles(r, "done"))
  BY DEF LInv, Conversation, ConversationOf, At, Handles
<1>4. (client[r] = "gone" <=> Gone(r)) /\ (handler[r] = "done" <=> Handles(r, "done"))
  BY DEF Gone, Handles
<1> QED
  BY <1>1, <1>2, <1>3, <1>4, LInvHolds, RunsOnOne, NotStuckOne, LoopEnds,
     HandlerSchedules, CancelEnds, ReportEnds, PTL DEF FairSpec, Fairness, Spec

-----------------------------------------------------------------------------
(* The channel and the queue of a request.                                  *)
Unread(r) == ~ Sch!ChannelEmpty(r)
IsNext(r) == \E i \in Sch!Servable : /\ \A j \in Sch!Servable : i <= j
                                     /\ requests[i] = r
NoneNext  == Sch!Servable = {}

(* A request in the queue has one answer on its channel at most.            *)
LEMMA QueuedOnce ==
  ASSUME SchInv, NEW r \in Request, InQueue(r)
  PROVE  /\ sent[r] = <<Sch!Queued>> /\ Len(sent[r]) = 1 /\ active[r]
         /\ Unread(r) => taken[r] = 0
<1>1. sent[r] = <<Sch!Queued>> /\ active[r]
  BY DEF SchInv, Sch!QueueIsWaiting, InQueue
<1>2. Len(sent[r]) = 1
  BY <1>1
<1>3. taken[r] \in Nat /\ taken[r] <= Len(sent[r])
  BY DEF SchInv, Sch!TypeOK, Sch!AnswerProtocol
<1> QED
  BY <1>1, <1>2, <1>3 DEF Unread, Sch!ChannelEmpty

(* While its answer is unread and its responder in the loop, a request in   *)
(* the queue is neither answered nor cancelled.                             *)
LEMMA UnreadKeeps ==
  ASSUME LInv, [Next]_vars, NEW r \in Request, InQueue(r), Unread(r), Looping(r)
  PROVE  sent'[r] = sent[r] /\ active'[r] = active[r]
<1>t. /\ sent \in [Request -> Seq(Sch!Response)]
      /\ active \in [Request -> BOOLEAN]
  BY DEF LInv, SchInv, Sch!TypeOK
<1>q. sent[r] = <<Sch!Queued>> /\ Len(sent[r]) = 1
  BY QueuedOnce DEF LInv
<1>1. CASE UNCHANGED <<sent, active>>
  BY <1>1
<1>2. ASSUME NEW q \in Request,
             \/ Accept(q) \/ Timeout(q) \/ SendResult(q) \/ SendHeartbeat(q)
             \/ HeartbeatFails(q) \/ Report(q) \/ ClientLeaves(q) \/ TakeResult(q)
      PROVE  UNCHANGED <<sent, active>>
  BY <1>2 DEF Accept, Timeout, SendResult, SendHeartbeat, HeartbeatFails, Report,
              ClientLeaves, TakeResult, Sch!Receive
<1>3. ASSUME NEW q \in Request, CallSchedule(q)
      PROVE  sent'[r] = sent[r] /\ active'[r] = active[r]
  <2>1. /\ sent[q] = <<>> /\ active' = active
        /\ \E a : sent' = [sent EXCEPT ![q] = Append(@, a)]
    BY <1>3 DEF CallSchedule, Sch!Schedule, Sch!Send
  <2>2. q # r
    BY <1>q, <2>1
  <2> QED
    BY <1>t, <2>1, <2>2
<1>4. ASSUME NEW q \in Request, CancelRequest(q)
      PROVE  sent'[r] = sent[r] /\ active'[r] = active[r]
  <2>1. /\ q # r /\ sent' = sent
        /\ active' = active \/ active' = [active EXCEPT ![q] = FALSE]
    BY <1>4 DEF CancelRequest, RespondTo, Sch!Cancel, Looping, At
  <2> QED
    BY <1>t, <2>1
<1>5. CASE PlaceRequests
  <2>1. \/ UNCHANGED <<sent, active>>
        \/ \E i \in DOMAIN requests, w \in Worker :
             /\ Sch!ChannelEmpty(requests[i])
             /\ sent' = [sent EXCEPT ![requests[i]] = Append(@, Sch!Valid(w))]
             /\ active' = active
    BY <1>5 DEF PlaceRequests, Sch!ScheduleRequests, Sch!PlaceFirst,
                Sch!EndUpdate, Sch!Send
  <2> QED
    BY <1>t, <2>1 DEF Unread
<1>6. ASSUME NEW w \in Worker,
             \/ \E s \in Space : WorkerReport(w, s)
             \/ WorkerGone(w)
             \/ \E s \in Speed : JobDone(w, s)
      PROVE  UNCHANGED <<sent, active>>
  BY <1>6 DEF WorkerReport, WorkerGone, JobDone, Sch!UpdateWorker,
              Sch!RemoveWorker, Sch!Completed
<1>7. CASE UNCHANGED vars
  BY <1>1, <1>7 DEF vars
<1> QED
  BY <1>1, <1>2, <1>3, <1>4, <1>5, <1>6, <1>7 DEF Next, Responder

(* A request in the queue whose client is there has a responder in its      *)
(* loop.                                                                    *)
LEMMA QueuedLoops ==
  ASSUME NEW r \in Request
  PROVE  LInv /\ AllStay /\ InQueue(r) => Looping(r) /\ ~ Gone(r)
  BY DEF LInv, WaitingHasListener, AllStay, Looping, At, Gone

(* The first read of a request in the queue empties its channel.            *)
LEMMA ReadDrains ==
  ASSUME LInv, NEW r \in Request, InQueue(r), Unread(r), TakeResult(r)
  PROVE  ~ Unread(r)'
<1>1. taken[r] = 0 /\ Len(sent[r]) = 1 /\ taken \in [Request -> Nat]
  BY QueuedOnce DEF LInv, SchInv, Sch!TypeOK
<1>2. taken'[r] = 1 /\ sent' = sent
  BY <1>1 DEF TakeResult, Sch!Receive
<1> QED
  BY <1>1, <1>2 DEF Unread, Sch!ChannelEmpty

(* As long as clients stay, the channel of a request in the queue is        *)
(* drained: the placing loop does not wait for it for ever.                 *)
LEMMA BufferDrains ==
  ASSUME NEW r \in Request
  PROVE  /\ [][Next]_vars /\ []LInv /\ []NotStuck(r) /\ RunsOn(r) /\ []AllStay
         => (InQueue(r) ~> ((InQueue(r) /\ ~ Unread(r)) \/ ~ InQueue(r)))
<1>2. LInv => ~ (At(r, "cancel") /\ Looping(r)) /\ ~ (At(r, "report") /\ Looping(r))
  BY DEF At, Looping
<1>4. LInv /\ InQueue(r) /\ Unread(r) => (<<TakeResult(r)>>_vars => ~ Unread(r)')
  BY ReadDrains
<1>5. NotStuck(r) =>
        /\ Looping(r) => ENABLED <<Responder(r)>>_vars
        /\ At(r, "select") /\ Unread(r) => ENABLED <<TakeResult(r)>>_vars
  BY Unstuck DEF Unread
<1>6. LInv /\ AllStay /\ InQueue(r) => Looping(r)
  BY QueuedLoops
<1>7. Looping(r) <=> At(r, "select") \/ At(r, "send") \/ At(r, "heartbeat")
  BY DEF Looping
<1> QED
  BY <1>2, <1>4, <1>5, <1>6, <1>7, LoopMoves, LoopSteps, PTL DEF RunsOn

(* While the placing loop holds the mutex nothing else changes the table,   *)
(* the queue or what was sent, and channels are drained but not filled.     *)
LEMMA WhileHeld ==
  ASSUME LInv, [Next]_vars, smutex
  PROVE  \/ PlaceRequests
         \/ /\ UNCHANGED <<workers, requests, smutex, sent>>
            /\ \A r \in Request : taken'[r] = taken[r] \/ Unread(r)
<1>t. taken \in [Request -> Nat]
  BY DEF LInv, SchInv, Sch!TypeOK
<1>1. CASE UNCHANGED <<workers, requests, smutex, sent, taken>>
  BY <1>1
<1>2. ASSUME NEW q \in Request,
             \/ Accept(q) \/ Timeout(q) \/ SendResult(q) \/ SendHeartbeat(q)
             \/ HeartbeatFails(q) \/ Report(q) \/ ClientLeaves(q)
      PROVE  UNCHANGED <<workers, requests, smutex, sent, taken>>
  BY <1>2 DEF Accept, Timeout, SendResult, SendHeartbeat, HeartbeatFails, Report,
              ClientLeaves
<1>3. ASSUME NEW q \in Request, CallSchedule(q) \/ CancelRequest(q)
      PROVE  FALSE
  BY <1>3 DEF CallSchedule, CancelRequest, Sch!Schedule, Sch!Cancel
<1>4. ASSUME NEW q \in Request, TakeResult(q)
      PROVE  /\ UNCHANGED <<workers, requests, smutex, sent>>
             /\ \A r \in Request : taken'[r] = taken[r] \/ Unread(r)
  BY <1>4, <1>t DEF TakeResult, Sch!Receive, Unread
<1>6. ASSUME NEW w \in Worker,
             \/ \E s \in Space : WorkerReport(w, s)
             \/ WorkerGone(w)
             \/ \E s \in Speed : JobDone(w, s)
      PROVE  FALSE
  BY <1>6 DEF WorkerReport, WorkerGone, JobDone, Sch!UpdateWorker,
              Sch!RemoveWorker, Sch!Completed
<1>7. CASE UNCHANGED vars
  BY <1>1, <1>7 DEF vars
<1> QED
  BY <1>1, <1>2, <1>3, <1>4, <1>6, <1>7 DEF Next, Responder

-----------------------------------------------------------------------------
(* From the answer to the client.                                           *)
Waits(r)  == client[r] = "waiting"
Served(r) == client[r] = "served"

(* A worker that a responder has taken off the channel is on its way to the *)
(* client until the client has it.                                          *)
HandedOver ==
  \A r \in Request : Granted(r) /\ ~ Unread(r) /\ Waits(r) => At(r, "send")

LEMMA GrantedFacts ==
  ASSUME SchInv, NEW r \in Request, Granted(r)
  PROVE  /\ sent[r] # <<>> /\ ~ InQueue(r)
         /\ sent[r] # <<Sch!NoWorkers>>
         /\ ~ Unread(r) => taken[r] > 0 /\ Result(r).type = "Valid"
         /\ HasRead(r, 2) => ~ Unread(r)
<1>t. /\ Sch!Queued.type = "Queued" /\ Sch!NoWorkers.type = "NoWorkers"
      /\ \A w : Sch!Valid(w).type = "Valid"
  BY DEF Sch!Queued, Sch!NoWorkers, Sch!Valid
<1>q. InQueue(r) => sent[r] = <<Sch!Queued>>
  BY DEF SchInv, Sch!QueueIsWaiting, InQueue
<1>r. taken[r] \in Nat /\ taken[r] <= Len(sent[r])
  BY DEF SchInv, Sch!TypeOK, Sch!AnswerProtocol
<1>1. PICK w \in Worker : \/ sent[r] = <<Sch!Valid(w)>>
                          \/ sent[r] = <<Sch!Queued, Sch!Valid(w)>>
  BY DEF Granted
<1>2. CASE sent[r] = <<Sch!Valid(w)>>
  <2>1. Len(sent[r]) = 1 /\ sent[r][1] = Sch!Valid(w)
    BY <1>2
  <2>2. <<Sch!Valid(w)>> # <<Sch!Queued>> /\ <<Sch!Valid(w)>> # <<Sch!NoWorkers>>
    BY <1>t
  <2> QED
    BY <1>2, <1>t, <1>q, <1>r, <2>1, <2>2
    DEF Unread, Sch!ChannelEmpty, Result, HasRead
<1>3. CASE sent[r] = <<Sch!Queued, Sch!Valid(w)>>
  <2>1. Len(sent[r]) = 2 /\ sent[r][2] = Sch!Valid(w)
    BY <1>3
  <2>2. /\ Len(<<Sch!Queued>>) = 1 /\ Len(<<Sch!NoWorkers>>) = 1
        /\ Len(<<>>) = 0
    OBVIOUS
  <2> QED
    BY <1>3, <1>t, <1>q, <1>r, <2>1, <2>2
    DEF Unread, Sch!ChannelEmpty, Result, HasRead
<1> QED
  BY <1>1, <1>2, <1>3

(* Only what is on the channel can be read.                                 *)
LEMMA TakesUnread ==
  ASSUME LInv, [Next]_vars, NEW r \in Request
  PROVE  taken'[r] = taken[r] \/ Unread(r)
<1>t. taken \in [Request -> Nat]
  BY DEF LInv, SchInv, Sch!TypeOK
<1>1. ASSUME NEW q \in Request, TakeResult(q)
      PROVE  taken'[r] = taken[r] \/ Unread(r)
  BY <1>t, <1>1 DEF TakeResult, Sch!Receive, Unread
<1>2. ASSUME NEW q \in Request,
             \/ Accept(q) \/ Timeout(q) \/ SendResult(q) \/ SendHeartbeat(q)
             \/ HeartbeatFails(q) \/ Report(q) \/ ClientLeaves(q)
             \/ CallSchedule(q) \/ CancelRequest(q)
      PROVE  taken' = taken
  BY <1>2 DEF Accept, Timeout, SendResult, SendHeartbeat, HeartbeatFails, Report,
              ClientLeaves, CallSchedule, CancelRequest, Sch!Schedule, Sch!Send,
              Sch!Cancel
<1>3. PlaceRequests => taken' = taken
  BY DEF PlaceRequests, Sch!ScheduleRequests, Sch!PlaceFirst, Sch!EndUpdate,
         Sch!Send
<1>4. ASSUME NEW w \in Worker,
             \/ \E s \in Space : WorkerReport(w, s)
             \/ WorkerGone(w)
             \/ \E s \in Speed : JobDone(w, s)
      PROVE  taken' = taken
  BY <1>4 DEF WorkerReport, WorkerGone, JobDone, Sch!UpdateWorker,
              Sch!RemoveWorker, Sch!Completed
<1>5. CASE UNCHANGED vars
  BY <1>5 DEF vars
<1> QED
  BY <1>1, <1>2, <1>3, <1>4, <1>5 DEF Next, Responder

(* What a step can do to the answers of a request ...                       *)
LEMMA SentMoves ==
  ASSUME LInv, [Next]_vars, NEW r \in Request
  PROVE  sent'[r] = sent[r] \/ (Unread(r)' /\ ~ Granted(r))
<1>t. /\ sent \in [Request -> Seq(Sch!Response)]
      /\ taken \in [Request -> Nat]
      /\ taken[r] <= Len(sent[r])
  BY DEF LInv, SchInv, Sch!TypeOK, Sch!AnswerProtocol
<1>1. CASE sent' = sent
  BY <1>1
<1>2. ASSUME NEW q \in Request, NEW a \in Sch!Response,
             Sch!ChannelEmpty(q), sent' = [sent EXCEPT ![q] = Append(@, a)],
             taken' = taken, sent[q] = <<>> \/ InQueue(q)
      PROVE  sent'[r] = sent[r] \/ (Unread(r)' /\ ~ Granted(r))
  <2>1. CASE q # r
    BY <1>2, <1>t, <2>1
  <2>2. CASE q = r
    <3>1. ~ Granted(r)
      BY <1>2, <2>2, GrantedFacts DEF LInv
    <3>2. Len(sent'[r]) = Len(sent[r]) + 1 /\ Len(sent[r]) \in Nat
      BY <1>2, <1>t, <2>2
    <3> QED
      BY <1>2, <2>2, <3>1, <3>2 DEF Unread, Sch!ChannelEmpty
  <2> QED
    BY <2>1, <2>2
<1>3. ASSUME NEW q \in Request,
             \/ Accept(q) \/ Timeout(q) \/ SendResult(q) \/ SendHeartbeat(q)
             \/ HeartbeatFails(q) \/ Report(q) \/ ClientLeaves(q) \/ TakeResult(q)
             \/ CancelRequest(q)
      PROVE  sent' = sent
  BY <1>3 DEF Accept, Timeout, SendResult, SendHeartbeat, HeartbeatFails, Report,
              ClientLeaves, TakeResult, Sch!Receive, CancelRequest, Sch!Cancel
<1>4. ASSUME NEW q \in Request, CallSchedule(q)
      PROVE  sent'[r] = sent[r] \/ (Unread(r)' /\ ~ Granted(r))
  <2>1. sent[q] = <<>> /\ Sch!ChannelEmpty(q) /\ taken' = taken
    BY <1>4 DEF CallSchedule, Sch!Schedule, Sch!Send
  <2>2. \A w \in Sch!FindFreeWorker(q) : w \in Worker
    BY DEF LInv, SchInv, Sch!TypeOK, Sch!FindFreeWorker, Sch!Fastest,
           Sch!Candidates
  <2>3. \E a \in Sch!Response : sent' = [sent EXCEPT ![q] = Append(@, a)]
    BY <1>4, <2>2 DEF CallSchedule, Sch!Schedule, Sch!Send, Sch!Response
  <2> QED
    BY <1>2, <2>1, <2>3
<1>5. CASE PlaceRequests
  <2>1. ASSUME NEW i \in DOMAIN requests, NEW w \in Worker, Sch!PlaceFirst(i, w)
        PROVE  sent'[r] = sent[r] \/ (Unread(r)' /\ ~ Granted(r))
    <3>1. requests[i] \in Request /\ InQueue(requests[i])
      BY DEF LInv, GInv, InQueue
    <3>2. Sch!Valid(w) \in Sch!Response
      BY DEF Sch!Response
    <3> QED
      BY <1>2, <2>1, <3>1, <3>2 DEF Sch!PlaceFirst, Sch!Send
  <2> QED
    BY <1>1, <1>5, <2>1 DEF PlaceRequests, Sch!ScheduleRequests, Sch!EndUpdate
<1>6. ASSUME NEW w \in Worker,
             \/ \E s \in Space : WorkerReport(w, s)
             \/ WorkerGone(w)
             \/ \E s \in Speed : JobDone(w, s)
      PROVE  sent' = sent
  BY <1>6 DEF WorkerReport, WorkerGone, JobDone, Sch!UpdateWorker,
              Sch!RemoveWorker, Sch!Completed
<1>7. CASE UNCHANGED vars
  BY <1>1, <1>7 DEF vars
<1> QED
  BY <1>1, <1>3, <1>4, <1>5, <1>6, <1>7 DEF Next, Responder

(* ... and to its client: a responder that leaves "send" with a worker has  *)
(* served a client that was waiting.                                        *)
LEMMA ClientMoves ==
  ASSUME LInv, [Next]_vars, NEW r \in Request
  PROVE  /\ Waits(r)' => Waits(r)
         /\ /\ Waits(r) /\ At(r, "send") /\ Result(r).type = "Valid"
            /\ ~ At(r, "send")'
            => Served(r)'
<1>t. /\ responder \in [Request -> ResponderStates]
      /\ client \in [Request -> ClientStates]
  BY DEF LInv, GInv, GoroutineTypes
<1> USE DEF Waits, Served, At
<1>1. ASSUME NEW q \in Request,
             \/ Accept(q) \/ Timeout(q) \/ SendHeartbeat(q)
             \/ HeartbeatFails(q) \/ Report(q) \/ CancelRequest(q)
             \/ TakeResult(q) \/ ClientLeaves(q) \/ CallSchedule(q)
      PROVE  /\ client' = client \/ \A c \in Request : client'[c] = "waiting" => client[c] = "waiting"
             /\ At(r, "send") => At(r, "send")'
  BY <1>1, <1>t
  DEF Accept, Timeout, SendHeartbeat, HeartbeatFails, Report, CancelRequest,
      TakeResult, ClientLeaves, CallSchedule, RespondTo
<1>2. ASSUME NEW q \in Request, SendResult(q)
      PROVE  /\ Waits(r)' => Waits(r)
             /\ /\ Waits(r) /\ At(r, "send") /\ Result(r).type = "Valid"
                /\ ~ At(r, "send")'
                => Served(r)'
  BY <1>2, <1>t DEF SendResult, RespondTo
<1>3. CASE UNCHANGED <<client, responder>>
  BY <1>3
<1>4. CASE PlaceRequests
  BY <1>3, <1>4 DEF PlaceRequests, goroutines
<1>6. ASSUME NEW w \in Worker,
             \/ \E s \in Space : WorkerReport(w, s)
             \/ WorkerGone(w)
             \/ \E s \in Speed : JobDone(w, s)
      PROVE  UNCHANGED <<client, responder>>
  BY <1>6 DEF WorkerReport, WorkerGone, JobDone, goroutines
<1>7. CASE UNCHANGED vars
  BY <1>3, <1>7 DEF vars
<1> QED
  BY <1>1, <1>2, <1>3, <1>4, <1>6, <1>7 DEF Next, Responder

LEMMA HandedOverStep == LInv /\ HandedOver /\ [Next]_vars => HandedOver'
<1> SUFFICES ASSUME LInv, HandedOver, [Next]_vars, NEW r \in Request,
                    Granted(r)', ~ Unread(r)', Waits(r)'
             PROVE  At(r, "send")'
  BY DEF HandedOver
<1>1. sent'[r] = sent[r] /\ Waits(r) /\ ResponderMoves(r)
  BY SentMoves, ClientMoves, Moves DEF LInv
<1>2. Granted(r)
  BY <1>1 DEF Granted
<1>3. CASE taken'[r] # taken[r]
  BY <1>1, <1>3 DEF ResponderMoves, At
<1>4. CASE taken'[r] = taken[r]
  <2>1. ~ Unread(r)
    BY <1>1, <1>4 DEF Unread, Sch!ChannelEmpty
  <2>2. At(r, "send") /\ Result(r).type = "Valid"
    BY <1>1, <1>2, <2>1, GrantedFacts DEF LInv, HandedOver
  <2> QED
    BY <1>1, <2>2, ClientMoves DEF Waits, Served
<1> QED
  BY <1>3, <1>4

(* A worker that was taken off a channel is not lost: as long as its client *)
(* waits, the responder is about to pass it on.                             *)
THEOREM TakenWorkersArrive == Spec => []HandedOver
<1>1. Init => HandedOver
  BY DEF Init, Sch!Init, HandedOver, Granted
<1> QED
  BY <1>1, HandedOverStep, LInvHolds, PTL DEF Spec

(* ... and it arrives there, or the client goes.                            *)
LEMMA GrantedStays ==
  ASSUME NEW r \in Request
  PROVE  LInv /\ [Next]_vars /\ Granted(r)
           => Granted(r)' /\ (~ Unread(r) => ~ Unread(r)')
<1> SUFFICES ASSUME LInv, [Next]_vars, Granted(r)
             PROVE  Granted(r)' /\ (~ Unread(r) => ~ Unread(r)')
  OBVIOUS
<1>1. sent'[r] = sent[r]
  BY SentMoves
<1>2. taken'[r] = taken[r] \/ Unread(r)
  BY TakesUnread
<1> QED
  BY <1>1, <1>2 DEF Granted, Unread, Sch!ChannelEmpty

LEMMA GrantedArrives ==
  ASSUME NEW r \in Request
  PROVE  /\ [][Next]_vars /\ []LInv /\ []HandedOver /\ []NotStuck(r) /\ RunsOn(r)
         => (Granted(r) /\ Waits(r) ~> ~ Waits(r))
<1>1. LInv /\ Granted(r) /\ Waits(r)
        => /\ Looping(r)
           /\ HasRead(r, 2) => ~ Unread(r)
           /\ ~ Unread(r) => Result(r).type = "Valid"
  <2> SUFFICES ASSUME LInv, Granted(r), Waits(r)
               PROVE  /\ Looping(r)
                      /\ HasRead(r, 2) => ~ Unread(r)
                      /\ ~ Unread(r) => Result(r).type = "Valid"
    OBVIOUS
  <2>1. Looping(r)
    BY GrantedFacts
    DEF LInv, Conversation, ConversationOf, GInv, GoroutineTypes, PhasesAgree,
        ResponderStates, Waits, Looping, At
  <2> QED
    BY <2>1, GrantedFacts DEF LInv
<1>2. LInv /\ [Next]_vars /\ Waits(r) /\ At(r, "send") /\ Result(r).type = "Valid"
        => At(r, "send")' \/ ~ Waits(r)'
  BY ClientMoves DEF Waits, Served
<1>3. HandedOver /\ Granted(r) /\ ~ Unread(r) /\ Waits(r) => At(r, "send")
  BY DEF HandedOver
<1>4. NotStuck(r) =>
        /\ Looping(r) => ENABLED <<Responder(r)>>_vars
        /\ At(r, "select") /\ Unread(r) => ENABLED <<TakeResult(r)>>_vars
  BY Unstuck DEF Unread
<1>5. LInv => /\ ~ (At(r, "cancel") /\ Looping(r)) /\ ~ (At(r, "report") /\ Looping(r))
              /\ <<TakeResult(r)>>_vars => At(r, "select") /\ At(r, "send")'
  BY Forward DEF LInv, At, Looping
<1>6. Looping(r) <=> At(r, "select") \/ At(r, "send") \/ At(r, "heartbeat")
  BY DEF Looping
<1> QED
  BY <1>1, <1>2, <1>3, <1>4, <1>5, <1>6, GrantedStays, LoopMoves, LoopSteps,
     ReadsMove, ReadsCount, PTL DEF RunsOn

(* For every fair behaviour in which nobody is stuck, whoever leaves and     *)
(* whether or not the mutex is ever free again.                             *)
THEOREM AssignmentsArrive == FairSpec /\ []NobodyStuck => AssignmentArrives
<1> SUFFICES ASSUME NEW r \in Request
             PROVE  FairSpec /\ []NobodyStuck
                      => (Granted(r) ~> client[r] # "waiting")
  BY DEF AssignmentArrives
<1>1. client[r] # "waiting" <=> ~ Waits(r)
  BY DEF Waits
<1> QED
  BY <1>1, GrantedArrives, LInvHolds, TakenWorkersArrive, RunsOnOne, NotStuckOne,
     PTL DEF FairSpec, Fairness, Spec

(* As long as clients stay, arriving means being served.                    *)
LEMMA GrantedIsServed ==
  ASSUME NEW r \in Request
  PROVE  /\ [][Next]_vars /\ []LInv /\ []HandedOver /\ []NotStuck(r) /\ RunsOn(r)
         /\ []AllStay
         => (Granted(r) /\ Waits(r) ~> Served(r))
<1>1. LInv /\ AllStay /\ Granted(r) => Waits(r) \/ Served(r)
  <2> SUFFICES ASSUME LInv, AllStay, Granted(r) PROVE Waits(r) \/ Served(r)
    OBVIOUS
  <2>1. ~ Gone(r)
    BY GrantedFacts, LastAnswer DEF LInv, AllStay, Gone, Refused
  <2> QED
    BY <2>1 DEF LInv, GInv, GoroutineTypes, ClientStates, Waits, Served, Gone
<1> QED
  BY <1>1, GrantedStays, GrantedArrives, PTL

-----------------------------------------------------------------------------
(* The placing loop serves the request that is next, and ends when there    *)
(* is none.                                                                 *)
LEMMA PlacingServes ==
  ASSUME SchInv, smutex, PlaceRequests
  PROVE  /\ \A r \in Request : IsNext(r) => Granted(r)'
         /\ NoneNext => ~ smutex'
<1>1. CASE Sch!EndUpdate
  BY <1>1 DEF Sch!EndUpdate, IsNext, NoneNext
<1>2. ASSUME NEW i \in DOMAIN requests, NEW w \in Worker, Sch!PlaceFirst(i, w)
      PROVE  ~ NoneNext /\ \A r \in Request : IsNext(r) => Granted(r)'
  <2>1. /\ i \in Sch!Servable /\ \A j \in Sch!Servable : i <= j
        /\ sent' = [sent EXCEPT ![requests[i]] = Append(@, Sch!Valid(w))]
        /\ requests \in Seq(Request)
    BY <1>2 DEF Sch!PlaceFirst, Sch!Send, SchInv, Sch!TypeOK
  <2>2. ASSUME NEW r \in Request, IsNext(r)
        PROVE  r = requests[i] /\ InQueue(r)
    <3>1. PICK k \in Sch!Servable : (\A j \in Sch!Servable : k <= j) /\ requests[k] = r
      BY <2>2 DEF IsNext
    <3>2. k \in DOMAIN requests /\ DOMAIN requests \subseteq Int
      BY <2>1 DEF Sch!Servable
    <3>3. k = i
      BY <2>1, <3>1, <3>2
    <3> QED
      BY <3>1, <3>2, <3>3 DEF InQueue
  <2>3. ASSUME NEW r \in Request, IsNext(r)
        PROVE  Granted(r)'
    <3>1. sent[r] = <<Sch!Queued>> /\ sent \in [Request -> Seq(Sch!Response)]
      BY <2>2, <2>3, QueuedOnce DEF SchInv, Sch!TypeOK
    <3>2. sent'[r] = Append(<<Sch!Queued>>, Sch!Valid(w))
      BY <2>1, <2>2, <2>3, <3>1
    <3>3. sent'[r] = <<Sch!Queued, Sch!Valid(w)>>
      BY <3>2, SameParameters, SchP!AppendToOne
    <3> QED
      BY <3>3 DEF Granted
  <2> QED
    BY <2>1, <2>3 DEF NoneNext
<1> QED
  BY <1>1, <1>2 DEF PlaceRequests, Sch!ScheduleRequests

(* Until the placing loop takes its next turn, the request that is next     *)
(* stays the next, and its channel is not filled, but may be drained by its *)
(* responder.                                                               *)
LEMMA NextStays ==
  ASSUME LInv, [Next]_vars, NEW r \in Request, smutex, IsNext(r),
         ~ PlaceRequests
  PROVE  /\ smutex' /\ IsNext(r)'
         /\ ~ Unread(r) => ~ Unread(r)'
         /\ Unread(r) /\ ~ At(r, "select") => Unread(r)'
<1>1. /\ UNCHANGED <<workers, requests, smutex, sent>>
      /\ taken'[r] = taken[r] \/ Unread(r)
  BY WhileHeld
<1>2. Sch!Servable' = Sch!Servable
  BY <1>1 DEF Sch!Servable, Sch!FindFreeWorker, Sch!Fastest, Sch!Candidates
<1>3. ~ At(r, "select") => taken'[r] = taken[r]
  BY Moves DEF LInv, ResponderMoves, At
<1> QED
  BY <1>1, <1>2, <1>3 DEF IsNext, Unread, Sch!ChannelEmpty

(* There is one request that is next.                                       *)
LEMMA NextIsUnique ==
  ASSUME LInv, NEW i \in Sch!Servable, \A j \in Sch!Servable : i <= j,
         NEW r \in Request, IsNext(r)
  PROVE  r = requests[i]
<1>1. PICK k \in Sch!Servable : (\A j \in Sch!Servable : k <= j) /\ requests[k] = r
  BY DEF IsNext
<1>2. requests \in Seq(Request)
  BY DEF LInv, GInv
<1>3. Sch!Servable \subseteq Int
  BY <1>2 DEF Sch!Servable
<1>4. i = k
  BY <1>1, <1>3
<1> QED
  BY <1>1, <1>4

(* As long as clients stay, the placing loop never blocks for good, however *)
(* many requests wait: the request that is next is handed a worker and its  *)
(* client is served, and the mutex is released when no request can be       *)
(* served.  (That the queue is finite, so that the loop ends and everybody  *)
(* in it becomes the next, is what TLC checks with MutexReleased and        *)
(* ReportServesWaiting.)                                                    *)
PlacingProgress ==
  []AllStay => /\ smutex /\ NoneNext ~> ~ smutex
               /\ \A r \in Request : smutex /\ IsNext(r) ~> client[r] = "served"

THEOREM PlacingGoesOn == FairSpec /\ []NobodyStuck => PlacingProgress
<1>1. LInv /\ [Next]_vars /\ smutex
        => PlaceRequests \/ (smutex' /\ (NoneNext => NoneNext'))
  BY WhileHeld
  DEF NoneNext, Sch!Servable, Sch!FindFreeWorker, Sch!Fastest, Sch!Candidates
<1>2. LInv /\ smutex /\ NoneNext /\ PlaceRequests => ~ smutex'
  BY PlacingServes DEF LInv
<1>3. PlacingNotStuck =>
        (smutex /\ NoneNext => ENABLED <<PlaceRequests>>_vars)
  BY DEF PlacingNotStuck, CanPlace, NoneNext
<1>4. NobodyStuck => PlacingNotStuck
  BY DEF NobodyStuck
<1>5. LInv /\ [Next]_vars /\ smutex /\ NoneNext
        => (smutex' /\ NoneNext') \/ ~ smutex'
  BY <1>1, <1>2
<1>6. LInv /\ smutex /\ NoneNext /\ <<PlaceRequests>>_vars => ~ smutex'
  BY <1>2
<1>7. FairSpec /\ []NobodyStuck => (smutex /\ NoneNext ~> ~ smutex)
  BY <1>3, <1>4, <1>5, <1>6, LInvHolds, PTL DEF FairSpec, Fairness, Spec
<1>8. ASSUME NEW r \in Request
      PROVE  FairSpec /\ []NobodyStuck /\ []AllStay
               => (smutex /\ IsNext(r) ~> client[r] = "served")
  <2>1. LInv /\ AllStay /\ smutex /\ IsNext(r) /\ PlaceRequests
          => Granted(r)' /\ Waits(r)'
    <3>1. PlaceRequests => client' = client
      BY DEF PlaceRequests, goroutines
    <3>2. IsNext(r) => InQueue(r)
      BY DEF IsNext, InQueue, Sch!Servable
    <3>3. LInv /\ AllStay /\ InQueue(r) => Waits(r)
      BY DEF LInv, WaitingHasListener, AllStay, Waits
    <3> QED
      BY <3>1, <3>2, <3>3, PlacingServes DEF LInv, Waits
  <2>3. LInv /\ AllStay /\ [Next]_vars /\ smutex /\ IsNext(r)
          => \/ /\ smutex' /\ IsNext(r)'
                /\ ~ Unread(r) => ~ Unread(r)'
             \/ Granted(r)' /\ Waits(r)'
    BY <2>1, NextStays
  <2>4. LInv /\ AllStay /\ smutex /\ IsNext(r) /\ <<PlaceRequests>>_vars
          => Granted(r)' /\ Waits(r)'
    BY <2>1
  <2>7. client[r] = "served" <=> Served(r)
    BY DEF Served
  <2>5. LInv /\ PlacingNotStuck =>
          (smutex /\ IsNext(r) /\ ~ Unread(r) => ENABLED <<PlaceRequests>>_vars)
    <3> SUFFICES ASSUME LInv, smutex, IsNext(r), ~ Unread(r) PROVE CanPlace
      BY DEF PlacingNotStuck
    <3> QED
      BY NextIsUnique DEF CanPlace, Unread
  <2>6. IsNext(r) => InQueue(r)
    BY DEF IsNext, InQueue, Sch!Servable
  <2> QED
    BY <2>3, <2>4, <2>5, <2>6, <2>7, <1>4, LInvHolds, TakenWorkersArrive,
       RunsOnOne, NotStuckOne, BufferDrains, GrantedIsServed, PTL DEF FairSpec, Fairness, Spec
<1>9. FairSpec /\ []NobodyStuck /\ []AllStay
        => \A r \in Request : smutex /\ IsNext(r) ~> client[r] = "served"
  BY <1>8
<1> QED
  BY <1>7, <1>9, PTL DEF PlacingProgress

-----------------------------------------------------------------------------
(* The deadlock that the runs of CancelLeavesLoop and CancelledIsRemoved    *)
(* show, for any clients: the placing loop is about to answer r, the answer *)
(* "queued" is still on the channel of r, and the responder of r does not   *)
(* come back to the channel.                                                *)
Wedged(r) ==
  /\ smutex
  /\ IsNext(r)
  /\ Unread(r)
  /\ responder[r] \in {"cancel", "report", "done"}

(* The placing loop does not take a turn for a request whose channel is     *)
(* full.                                                                    *)
LEMMA FullChannelBlocks ==
  ASSUME LInv, NEW r \in Request, IsNext(r), Unread(r)
  PROVE  ~ PlaceRequests
<1>1. ASSUME NEW i \in DOMAIN requests, NEW w \in Worker, Sch!PlaceFirst(i, w)
      PROVE  FALSE
  <2>1. /\ i \in Sch!Servable /\ \A j \in Sch!Servable : i <= j
        /\ Sch!ChannelEmpty(requests[i])
    BY <1>1 DEF Sch!PlaceFirst, Sch!Send
  <2>2. r = requests[i]
    BY <2>1, NextIsUnique
  <2> QED
    BY <2>1, <2>2 DEF Unread
<1>2. ~ Sch!EndUpdate
  BY DEF Sch!EndUpdate, IsNext
<1> QED
  BY <1>1, <1>2 DEF PlaceRequests, Sch!ScheduleRequests

(* Nothing ends the deadlock: not the loop, which waits for the channel;    *)
(* not the responder, which never reads again; and nobody else gets the     *)
(* mutex.                                                                   *)
LEMMA WedgedStays ==
  ASSUME LInv, [Next]_vars, NEW r \in Request, Wedged(r)
  PROVE  Wedged(r)'
<1>1. ~ PlaceRequests
  BY FullChannelBlocks DEF Wedged
<1>2. responder'[r] \in {"cancel", "report", "done"}
  BY Moves DEF LInv, ResponderMoves, Wedged
<1> QED
  BY <1>1, <1>2, NextStays DEF Wedged, At

THEOREM WedgeIsFinal == Spec => [][\A r \in Request : Wedged(r) => Wedged(r)']_vars
<1>1. LInv /\ [Next]_vars => [\A r \in Request : Wedged(r) => Wedged(r)']_vars
  BY WedgedStays
<1> QED
  BY <1>1, LInvHolds, PTL DEF Spec

(* It takes a client that hangs up while it is queued.                      *)
THEOREM OnlyLeaversWedge ==
  Spec => [](\A r \in Request : Wedged(r) => r \in Leavers /\ client[r] = "gone")
<1>1. ASSUME LInv, NEW r \in Request, Wedged(r)
      PROVE  r \in Leavers /\ client[r] = "gone"
  <2>1. InQueue(r)
    BY <1>1 DEF Wedged, IsNext, InQueue, Sch!Servable
  <2>2. client[r] = "gone" /\ ~ Refused(r)
    BY <1>1, <2>1 DEF LInv, WaitingHasListener, Wedged
  <2> QED
    BY <1>1, <2>2 DEF LInv, Conversation, ConversationOf
<1>2. LInv => \A r \in Request : Wedged(r) => r \in Leavers /\ client[r] = "gone"
  BY <1>1
<1> QED
  BY <1>2, LInvHolds, PTL

(* And nothing else blocks the placing loop: whatever clients do, the       *)
(* request that is next is handed a worker unless it comes to that          *)
(* deadlock.                                                                *)
OnlyWedgesBlock ==
  \A r \in Request : smutex /\ IsNext(r) ~> Granted(r) \/ Wedged(r)

THEOREM PlacingGoesOnUnlessWedged ==
  FairSpec /\ []NobodyStuck => OnlyWedgesBlock
<1> SUFFICES ASSUME NEW r \in Request
             PROVE  FairSpec /\ []NobodyStuck
                      => (smutex /\ IsNext(r) ~> Granted(r) \/ Wedged(r))
  BY DEF OnlyWedgesBlock
<1>1. LInv /\ [Next]_vars /\ smutex /\ IsNext(r)
        => \/ /\ smutex' /\ IsNext(r)'
              /\ ~ Unread(r) => ~ Unread(r)'
           \/ Granted(r)'
  BY NextStays, PlacingServes DEF LInv
<1>2. LInv /\ smutex /\ IsNext(r) /\ <<PlaceRequests>>_vars => Granted(r)'
  BY PlacingServes DEF LInv
<1>3. LInv /\ NobodyStuck =>
        (smutex /\ IsNext(r) /\ ~ Unread(r) => ENABLED <<PlaceRequests>>_vars)
  <2> SUFFICES ASSUME LInv, smutex, IsNext(r), ~ Unread(r) PROVE CanPlace
    BY DEF NobodyStuck, PlacingNotStuck
  <2> QED
    BY NextIsUnique DEF CanPlace, Unread
<1>4. LInv /\ smutex /\ IsNext(r) /\ Unread(r) => Looping(r) \/ Wedged(r)
  <2>1. IsNext(r) => InQueue(r)
    BY DEF IsNext, InQueue, Sch!Servable
  <2> QED
    BY <2>1 DEF LInv, GInv, GoroutineTypes, PhasesAgree, ResponderStates, Looping,
                At, Wedged
<1>6. LInv /\ IsNext(r) /\ Unread(r) => (<<TakeResult(r)>>_vars => ~ Unread(r)')
  BY ReadDrains DEF IsNext, InQueue, Sch!Servable
<1>7. NotStuck(r) =>
        /\ Looping(r) => ENABLED <<Responder(r)>>_vars
        /\ At(r, "select") /\ Unread(r) => ENABLED <<TakeResult(r)>>_vars
  BY Unstuck DEF Unread
<1>8. LInv => /\ ~ (At(r, "cancel") /\ Looping(r)) /\ ~ (At(r, "report") /\ Looping(r))
              /\ Looping(r) <=> At(r, "select") \/ At(r, "send") \/ At(r, "heartbeat")
  BY DEF At, Looping
<1> QED
  BY <1>1, <1>2, <1>3, <1>4, <1>6, <1>7, <1>8, LoopMoves, LoopSteps, LInvHolds,
     RunsOnOne, NotStuckOne, PTL DEF FairSpec, Fairness, Spec, RunsOn
=============================================================================
