---------------------------- MODULE FifoScheduler ----------------------------
(***************************************************************************)
(* The scheduler object of scheduler.go: a table of workers, a FIFO of     *)
(* waiting requests and the one-place result channel of each request, all  *)
(* protected by smutex.  The callers are the most general ones: any        *)
(* goroutine may call any operation whenever the mutex is free.            *)
(*                                                                         *)
(* A call that cannot block while it holds the mutex is one step.  The     *)
(* only statement that can block there is the channel send of              *)
(* scheduleRequests, so updateWorker and addWorker are split: one step     *)
(* takes the mutex and writes the table, one step per iteration of the     *)
(* loop, and one step leaves the loop and releases the mutex.              *)
(***************************************************************************)
EXTENDS Integers, Sequences, SequencesExt, FiniteSets

CONSTANTS
  Request,   \* every SchedulerRequest ever built (each GUID is used once)
  Worker,    \* machine IDs
  CanReach,  \* pairs <<r, w>>: getMatchingIP finds an address of w for r
  Space,     \* values of Capacity - Load a worker may report
  Speed,     \* values of a worker's speed estimate
  NoID       \* the empty machine ID of a response without a worker

Parameters ==
  /\ IsFiniteSet(Worker)
  /\ CanReach \subseteq Request \X Worker
  /\ Space \subseteq Int
  /\ Speed \subseteq Nat /\ 0 \in Speed
  /\ NoID \notin Worker

ASSUME SchedulerAssumption == Parameters

VARIABLES
  workers,   \* s.workers: partial function from machine IDs to entries
  requests,  \* s.requests: the waiting requests, oldest first
  active,    \* req.active
  smutex,    \* TRUE while a goroutine is inside scheduleRequests
  sent,      \* everything ever put on req.r ...
  taken      \* ... and how much of it the receiver has taken

vars == <<workers, requests, active, smutex, sent, taken>>

WorkerState == [space : Space, speed : Speed]

NoWorkers == [type |-> "NoWorkers", id |-> NoID]
Queued    == [type |-> "Queued",    id |-> NoID]
Valid(w)  == [type |-> "Valid",     id |-> w]

Response == {NoWorkers, Queued} \cup {Valid(w) : w \in Worker}

-----------------------------------------------------------------------------
(* req.r = make(chan WorkerResponse, 1): a send needs the buffer empty.    *)

ChannelEmpty(r) == Len(sent[r]) = taken[r]

Send(r, response) ==
  /\ ChannelEmpty(r)
  /\ sent' = [sent EXCEPT ![r] = Append(@, response)]
  /\ UNCHANGED taken

(* A receive on req.r by whoever waits for the result.                     *)
Receive(r) ==
  /\ ~ ChannelEmpty(r)
  /\ taken' = [taken EXCEPT ![r] = @ + 1]
  /\ UNCHANGED <<workers, requests, active, smutex, sent>>

-----------------------------------------------------------------------------
(* The search starts from a placeholder with speed -1 and keeps a worker   *)
(* only when it is strictly faster, walking the map in an unspecified      *)
(* order: the result is any of the fastest workers that have a free core   *)
(* and an address the client can reach, and there is none when the set is  *)
(* empty (which is also the answer to a request without addresses).        *)
Candidates(r) ==
  {w \in DOMAIN workers : /\ workers[w].space > 0
                          /\ <<r, w>> \in CanReach
                          /\ workers[w].speed > -1}

Fastest(set) ==
  {w \in set : \A v \in set : workers[v].speed <= workers[w].speed}

(* Mutant: answer with the placeholder when nothing was found.             *)
PlaceholderWorker(r) ==
  IF Candidates(r) = {} THEN {NoID} ELSE Fastest(Candidates(r))

FindFreeWorker(r) == Fastest(Candidates(r))

SetEntry(w, entry) ==
  workers' = [v \in DOMAIN workers \cup {w} |->
                IF v = w THEN entry ELSE workers[v]]

(* state.Speed*0.9 + cj.CompileSpeed*0.1, with the speeds grouped in       *)
(* classes: somewhere from the old speed to the new one.                   *)
Blend(old, new) ==
  IF old = 0 THEN {new}
  ELSE {s \in Speed : (old <= s /\ s <= new) \/ (new <= s /\ s <= old)}

-----------------------------------------------------------------------------
(* Mutant: queue the request even when it was answered.                    *)
ScheduleAlwaysQueues(r) ==
  /\ ~ smutex
  /\ sent[r] = <<>>
  /\ requests' = Append(requests, r)
  /\ \/ \E w \in FindFreeWorker(r) : Send(r, Valid(w))
     \/ FindFreeWorker(r) = {} /\ Send(r, Queued)
  /\ UNCHANGED <<workers, active, smutex>>

(* schedule: answer at once or queue the request and say so.               *)
Schedule(r) ==
  /\ ~ smutex
  /\ sent[r] = <<>>
  /\ \/ /\ DOMAIN workers = {}
        /\ Send(r, NoWorkers)
        /\ UNCHANGED requests
     \/ \E w \in FindFreeWorker(r) : Send(r, Valid(w)) /\ UNCHANGED requests
     \/ /\ DOMAIN workers # {}
        /\ FindFreeWorker(r) = {}
        /\ requests' = Append(requests, r)
        /\ Send(r, Queued)
  /\ UNCHANGED <<workers, active, smutex>>

(* Mutant: mark the request inactive and leave it in the queue.            *)
CancelOnlyMarks(r) ==
  /\ ~ smutex
  /\ \E i \in DOMAIN requests : requests[i] = r
  /\ active' = [active EXCEPT ![r] = FALSE]
  /\ UNCHANGED <<workers, requests, smutex, sent, taken>>

(* cancel: drop the request from the queue, or fail if it is not there.    *)
Cancel(r) ==
  /\ ~ smutex
  /\ \/ \E i \in DOMAIN requests :
          /\ requests[i] = r
          /\ \A j \in 1 .. (i - 1) : requests[j] # r
          /\ requests' = RemoveAt(requests, i)
          /\ active' = [active EXCEPT ![r] = FALSE]
     \/ /\ \A i \in DOMAIN requests : requests[i] # r
        /\ UNCHANGED <<requests, active>>
  /\ UNCHANGED <<workers, smutex, sent, taken>>

(* completed: fold the speed of a finished job into the entry of the       *)
(* worker that built it; an error, and no change, if it has no entry.      *)
Completed(w, speed) ==
  /\ ~ smutex
  /\ \/ /\ w \in DOMAIN workers
        /\ \E s \in Blend(workers[w].speed, speed) :
             SetEntry(w, [workers[w] EXCEPT !.speed = s])
     \/ /\ w \notin DOMAIN workers
        /\ UNCHANGED workers
  /\ UNCHANGED <<requests, active, smutex, sent, taken>>

(* Mutant: a report does not rescan the queue.                             *)
UpdateWithoutRescan(w, space) ==
  /\ ~ smutex
  /\ SetEntry(w, [space |-> space,
                  speed |-> IF w \in DOMAIN workers THEN workers[w].speed
                                                    ELSE 0])
  /\ UNCHANGED <<requests, active, smutex, sent, taken>>

(* updateWorker up to its call of scheduleRequests: mergeWorkerState keeps *)
(* the speed of a known worker; reports carry no speed of their own.       *)
UpdateWorker(w, space) ==
  /\ ~ smutex
  /\ SetEntry(w, [space |-> space,
                  speed |-> IF w \in DOMAIN workers THEN workers[w].speed
                                                    ELSE 0])
  /\ smutex' = TRUE
  /\ UNCHANGED <<requests, active, sent, taken>>

(* addWorker up to its call of scheduleRequests.                           *)
AddWorker(w, entry) ==
  /\ ~ smutex
  /\ SetEntry(w, entry)
  /\ smutex' = TRUE
  /\ UNCHANGED <<requests, active, sent, taken>>

(* removeWorker                                                            *)
RemoveWorker(w) ==
  /\ ~ smutex
  /\ workers' = Restrict(workers, DOMAIN workers \ {w})
  /\ UNCHANGED <<requests, active, smutex, sent, taken>>

-----------------------------------------------------------------------------
(* scheduleRequests, run with the mutex held.                              *)

(* Mutant: look at the head of the queue only.                             *)
ServableHead == {i \in DOMAIN requests : i = 1 /\ FindFreeWorker(requests[1]) # {}}

Servable == {i \in DOMAIN requests : FindFreeWorker(requests[i]) # {}}

(* Mutant: take the served request off the head of the queue.              *)
PlaceFirstPopsHead(i, w) ==
  /\ smutex
  /\ i \in Servable /\ \A j \in Servable : i <= j
  /\ w \in FindFreeWorker(requests[i])
  /\ Send(requests[i], Valid(w))
  /\ requests' = Tail(requests)
  /\ UNCHANGED <<workers, active, smutex>>

(* Mutant: serve the youngest request that can be served.                  *)
PlaceLast(i, w) ==
  /\ smutex
  /\ i \in Servable /\ \A j \in Servable : j <= i
  /\ w \in FindFreeWorker(requests[i])
  /\ Send(requests[i], Valid(w))
  /\ requests' = RemoveAt(requests, i)
  /\ UNCHANGED <<workers, active, smutex>>

(* One turn of the loop: the first request for which a worker is found is  *)
(* answered, which blocks as long as its channel is full, and leaves the   *)
(* queue.                                                                  *)
PlaceFirst(i, w) ==
  /\ smutex
  /\ i \in Servable
  /\ \A j \in Servable : i <= j
  /\ w \in FindFreeWorker(requests[i])
  /\ Send(requests[i], Valid(w))
  /\ requests' = RemoveAt(requests, i)
  /\ UNCHANGED <<workers, active, smutex>>

(* No request can be served: leave the loop and release the mutex.         *)
EndUpdate ==
  /\ smutex
  /\ Servable = {}
  /\ smutex' = FALSE
  /\ UNCHANGED <<workers, requests, active, sent, taken>>

ScheduleRequests ==
  (\E i \in DOMAIN requests, w \in Worker : PlaceFirst(i, w)) \/ EndUpdate

-----------------------------------------------------------------------------
Init ==
  /\ workers = [w \in {} |-> 0]
  /\ requests = <<>>
  /\ active = [r \in Request |-> TRUE]
  /\ smutex = FALSE
  /\ sent = [r \in Request |-> <<>>]
  /\ taken = [r \in Request |-> 0]

Next ==
  \/ \E r \in Request : Schedule(r) \/ Cancel(r) \/ Receive(r)
  \/ \E w \in Worker, s \in Speed : Completed(w, s)
  \/ \E w \in Worker, s \in Space : UpdateWorker(w, s)
  \/ \E w \in Worker, e \in WorkerState : AddWorker(w, e)
  \/ \E w \in Worker : RemoveWorker(w)
  \/ ScheduleRequests

Spec == Init /\ [][Next]_vars

-----------------------------------------------------------------------------
TypeOK ==
  /\ DOMAIN workers \subseteq Worker
  /\ workers \in [DOMAIN workers -> WorkerState]
  /\ requests \in Seq(Request)
  /\ active \in [Request -> BOOLEAN]
  /\ smutex \in BOOLEAN
  /\ sent \in [Request -> Seq(Response)]
  /\ taken \in [Request -> Nat]

(* The queue holds every request that was told to wait and has neither     *)
(* been answered nor cancelled since, once each, and nothing else: no      *)
(* request is lost by the removals in the middle of the slice, none is     *)
(* answered twice, and only a waiting request is ever marked inactive.     *)
QueueIsWaiting ==
  /\ \A i, j \in DOMAIN requests : requests[i] = requests[j] => i = j
  /\ \A r \in Request :
       (\E i \in DOMAIN requests : requests[i] = r)
         <=> (sent[r] = <<Queued>> /\ active[r])
  /\ \A r \in Request : ~ active[r] => sent[r] = <<Queued>>

(* What a client can count on: the scheduler says "no workers" or hands    *)
(* out a worker at once, or says "queued" and later hands out one worker.  *)
(* A client that was queued is never refused, nobody gets two workers, and *)
(* the receiver never gets ahead of the sender.                            *)
Answers ==
  {<<>>, <<NoWorkers>>, <<Queued>>} \cup {<<Valid(w)>> : w \in Worker}
                                    \cup {<<Queued, Valid(w)>> : w \in Worker}

AnswerProtocol ==
  \A r \in Request : sent[r] \in Answers /\ taken[r] <= Len(sent[r])

(* Worker w has a free core and an address that r can connect to.          *)
Usable(r, w) ==
  w \in DOMAIN workers /\ workers[w].space > 0 /\ <<r, w>> \in CanReach

(* No lost wakeup: whenever the mutex is free, no worker in the table      *)
(* could serve a waiting request.  Each operation must rescan the queue    *)
(* whenever it can create a match, the rescan must not stop early, and the *)
(* search must not overlook a worker, however slow.                        *)
WorkConserving ==
  ~ smutex =>
    \A i \in DOMAIN requests, w \in Worker : ~ Usable(requests[i], w)

(* Request r is handed worker w in this step.                              *)
Grants(r, w) == sent'[r] = Append(sent[r], Valid(w))

(* First come first served: a worker is never handed to a request while    *)
(* another one that could use this worker has been waiting for longer,     *)
(* whether the newcomer is further back in the queue or just arrived.      *)
NoOvertaking ==
  [][\A r \in Request, w \in Worker :
       Grants(r, w) =>
         \A i \in DOMAIN requests :
           (\A j \in 1 .. i : requests[j] # r) =>
              ~ Usable(requests[i], w)]_vars

(* A request that was cancelled while it waited gets no further answer:    *)
(* nobody listens to its channel, so an answer would block the scheduler   *)
(* for ever with the mutex held.                                           *)
CancelIsFinal ==
  [][\A r \in Request : ~ active[r] => sent'[r] = sent[r]]_vars
=============================================================================
