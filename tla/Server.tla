------------------------------- MODULE Server -------------------------------
(***************************************************************************)
(* processWorkerRequest of server.go on top of the scheduler.  Each client *)
(* connection that asks for a worker is served by two goroutines:          *)
(*                                                                         *)
(*   handler    calls schedule and then waits on errOut;                   *)
(*   responder  waits for a result or for a one second timeout, passes     *)
(*              results to the client, tells it that it is queued after a  *)
(*              timeout, cancels the request when that fails, and reports  *)
(*              on errOut when it leaves its loop.                         *)
(*                                                                         *)
(* They share the scheduler with the goroutines of the worker connections, *)
(* which report load, drop workers and fold in finished jobs at any time.  *)
(***************************************************************************)
EXTENDS Integers, Sequences

CONSTANTS
  Request, Worker, CanReach, Space, Speed, NoID,   \* see FifoScheduler
  Leavers    \* requests whose client may hang up, crash or give up in the queue

VARIABLES
  workers, requests, active, smutex, sent, taken,  \* see FifoScheduler
  handler,     \* where the goroutine of handleConnection is
  responder,   \* where the goroutine started by processWorkerRequest is
  client       \* "waiting" for a worker, "served" with one, or "gone"

Sch == INSTANCE FifoScheduler

ASSUME ServerAssumption == Sch!Parameters /\ Leavers \subseteq Request

goroutines == <<handler, responder, client>>
vars == <<workers, requests, active, smutex, sent, taken,
          handler, responder, client>>

HandlerStates   == {"none", "schedule", "wait", "done"}
ResponderStates == {"off", "select", "send", "heartbeat", "cancel",
                    "report", "done"}
ClientStates    == {"waiting", "served", "gone"}

RespondTo(r, from, to) ==
  /\ responder[r] = from
  /\ responder' = [responder EXCEPT ![r] = to]

-----------------------------------------------------------------------------
(* The handler: build the request, start the responder, schedule, wait.    *)
Accept(r) ==
  /\ handler[r] = "none"
  /\ handler' = [handler EXCEPT ![r] = "schedule"]
  /\ RespondTo(r, "off", "select")
  /\ UNCHANGED <<client, workers, requests, active, smutex, sent, taken>>

CallSchedule(r) ==
  /\ handler[r] = "schedule"
  /\ Sch!Schedule(r)
  /\ handler' = [handler EXCEPT ![r] = "wait"]
  /\ UNCHANGED <<responder, client>>

(* The responder: select takes a result or a timeout, whichever it likes   *)
(* when both are there.                                                    *)
TakeResult(r) ==
  /\ RespondTo(r, "select", "send")
  /\ Sch!Receive(r)
  /\ UNCHANGED <<handler, client>>

(* Mutant: give up after the first timeout.                                *)
TimeoutEndsLoop(r) ==
  /\ RespondTo(r, "select", "report")
  /\ UNCHANGED <<handler, client, workers, requests, active, smutex, sent,
                 taken>>

Timeout(r) ==
  /\ RespondTo(r, "select", "heartbeat")
  /\ UNCHANGED <<handler, client, workers, requests, active, smutex, sent,
                 taken>>

(* The outcome of passing a result on does not matter for the loop: it     *)
(* ends with a valid result even if nobody got it, and goes on after any   *)
(* other even if the connection is broken.                                 *)
Result(r) == sent[r][taken[r]]

(* Mutant: leave the loop with any result.                                 *)
SendResultEndsLoop(r) ==
  /\ RespondTo(r, "send", "report")
  /\ client' = [client EXCEPT ![r] =
                  IF @ = "waiting" /\ Result(r).type = "Valid" THEN "served"
                                                               ELSE @]
  /\ UNCHANGED <<handler, workers, requests, active, smutex, sent, taken>>

(* Mutant: wait for a result that is a worker.                              *)
SendWorkerOnly(r) ==
  /\ RespondTo(r, "send", "report")
  /\ Result(r).type = "Valid"
  /\ client' = [client EXCEPT ![r] = IF @ = "waiting" THEN "served" ELSE @]
  /\ UNCHANGED <<handler, workers, requests, active, smutex, sent, taken>>

SendResult(r) ==
  /\ \/ /\ RespondTo(r, "send", "report")
        /\ Result(r).type = "Valid"
        /\ client' = [client EXCEPT ![r] =
                        IF @ = "waiting" THEN "served" ELSE @]
     \/ /\ RespondTo(r, "send", "select")
        /\ Result(r).type # "Valid"
        /\ UNCHANGED client
  /\ UNCHANGED <<handler, workers, requests, active, smutex, sent, taken>>

(* A write to a client that has gone may still be swallowed by the network.*)
SendHeartbeat(r) ==
  /\ RespondTo(r, "heartbeat", "select")
  /\ UNCHANGED <<handler, client, workers, requests, active, smutex, sent,
                 taken>>

(* Mutant: cancel after every timeout.                                     *)
HeartbeatAlwaysFails(r) ==
  /\ RespondTo(r, "heartbeat", "cancel")
  /\ UNCHANGED <<handler, client, workers, requests, active, smutex, sent,
                 taken>>

(* Mutant: ignore the error.                                               *)
HeartbeatErrorIgnored(r) ==
  /\ client[r] = "gone"
  /\ RespondTo(r, "heartbeat", "select")
  /\ UNCHANGED <<handler, client, workers, requests, active, smutex, sent,
                 taken>>

HeartbeatFails(r) ==
  /\ client[r] = "gone"
  /\ RespondTo(r, "heartbeat", "cancel")
  /\ UNCHANGED <<handler, client, workers, requests, active, smutex, sent,
                 taken>>

CancelRequest(r) ==
  /\ RespondTo(r, "cancel", "report")
  /\ Sch!Cancel(r)
  /\ UNCHANGED <<handler, client>>

(* errOut is unbuffered: both goroutines have to be there.                 *)
Report(r) ==
  /\ RespondTo(r, "report", "done")
  /\ handler[r] = "wait"
  /\ handler' = [handler EXCEPT ![r] = "done"]
  /\ UNCHANGED <<client, workers, requests, active, smutex, sent, taken>>

-----------------------------------------------------------------------------
(* The surroundings: clients that leave, goroutines of worker connections, *)
(* connections that bring in a CompletedJob.                               *)

(* Every client gives up when it reads "no workers".                       *)
Refused(r) ==
  taken[r] > 0 /\ Result(r).type = "NoWorkers" /\ responder[r] # "send"

ClientLeaves(r) ==
  /\ r \in Leavers \/ Refused(r)
  /\ handler[r] # "none"
  /\ client[r] = "waiting"
  /\ client' = [client EXCEPT ![r] = "gone"]
  /\ UNCHANGED <<handler, responder, workers, requests, active, smutex, sent,
                 taken>>

WorkerReport(w, space) == Sch!UpdateWorker(w, space) /\ UNCHANGED goroutines
PlaceRequests          == Sch!ScheduleRequests       /\ UNCHANGED goroutines
WorkerGone(w)          == Sch!RemoveWorker(w)        /\ UNCHANGED goroutines
JobDone(w, speed)      == Sch!Completed(w, speed)    /\ UNCHANGED goroutines

-----------------------------------------------------------------------------
Init ==
  /\ Sch!Init
  /\ handler = [r \in Request |-> "none"]
  /\ responder = [r \in Request |-> "off"]
  /\ client = [r \in Request |-> "waiting"]

Responder(r) ==
  \/ TakeResult(r) \/ Timeout(r) \/ SendResult(r)
  \/ SendHeartbeat(r) \/ HeartbeatFails(r) \/ CancelRequest(r) \/ Report(r)

Next ==
  \/ \E r \in Request : Accept(r) \/ CallSchedule(r) \/ Responder(r)
                        \/ ClientLeaves(r)
  \/ \E w \in Worker, s \in Space : WorkerReport(w, s)
  \/ PlaceRequests
  \/ \E w \in Worker : WorkerGone(w)
  \/ \E w \in Worker, s \in Speed : JobDone(w, s)

(* Every goroutine that can run keeps running.  Competitors for the mutex  *)
(* get it in the end (sync.Mutex hands over to a starving goroutine),      *)
(* select does not ignore a ready case for ever, and writes to a client    *)
(* that has gone do not succeed for ever.  Nothing obliges clients to come *)
(* or to leave, or workers to report.                                      *)
RunsOn(r) ==
  /\ WF_vars(Responder(r))
  /\ SF_vars(CallSchedule(r)) /\ SF_vars(CancelRequest(r))
  /\ SF_vars(TakeResult(r)) /\ SF_vars(HeartbeatFails(r))

AllRunOn == \A r \in Request : RunsOn(r)
Fairness == AllRunOn /\ WF_vars(PlaceRequests)

Spec == Init /\ [][Next]_vars
FairSpec == Spec /\ Fairness

-----------------------------------------------------------------------------
TypeOK ==
  /\ Sch!TypeOK
  /\ handler \in [Request -> HandlerStates]
  /\ responder \in [Request -> ResponderStates]
  /\ client \in [Request -> ClientStates]

InQueue(r) == \E i \in DOMAIN requests : requests[i] = r

(* A client in the queue waits or has left without an answer; as long as   *)
(* it waits it has a responder that will come back to its channel, so that *)
(* the blocking send which the scheduler does with its mutex held will     *)
(* find the buffer drained.                                                *)
WaitingHasListener ==
  \A r \in Request :
    InQueue(r) =>
      \/ /\ client[r] = "waiting"
         /\ responder[r] \in {"select", "send", "heartbeat"}
      \/ client[r] = "gone" /\ ~ Refused(r)

(* A responder stops only when its client has a worker or has gone: an     *)
(* answer "queued" or "no workers" never ends the conversation.            *)
NobodyAbandoned ==
  \A r \in Request :
    responder[r] \in {"report", "done"} => client[r] # "waiting"

(* The placing loop has come to its end, or the channel that it is going   *)
(* to send to has room.                                                    *)
CanPlace ==
  /\ smutex
  /\ \A i \in Sch!Servable :
       (\A j \in Sch!Servable : i <= j) => Sch!ChannelEmpty(requests[i])

(* Where the goroutines of a connection and the placing loop do not wait   *)
(* for each other or for the mutex they have a step to take: no value on a *)
(* channel, no outcome of a search and no state of the client stops them.  *)
NotStuck(r) ==
  /\ \/ responder[r] \in {"select", "send", "heartbeat"}
     \/ responder[r] = "report" /\ handler[r] = "wait"
     => ENABLED <<Responder(r)>>_vars
  /\ handler[r] = "schedule" /\ ~ smutex => ENABLED <<CallSchedule(r)>>_vars
  /\ responder[r] = "cancel" /\ ~ smutex => ENABLED <<CancelRequest(r)>>_vars
  /\ responder[r] = "select" /\ ~ Sch!ChannelEmpty(r)
     => ENABLED <<TakeResult(r)>>_vars
  /\ responder[r] = "heartbeat" /\ client[r] = "gone"
     => ENABLED <<HeartbeatFails(r)>>_vars

PlacingNotStuck == CanPlace => ENABLED <<PlaceRequests>>_vars

NobodyStuck == (\A r \in Request : NotStuck(r)) /\ PlacingNotStuck

(* The scheduler has handed a worker to r, at once or out of the queue.     *)
Granted(r) ==
  \E w \in Worker : \/ sent[r] = <<Sch!Valid(w)>>
                    \/ sent[r] = <<Sch!Queued, Sch!Valid(w)>>

(* A worker that the scheduler hands out reaches its client, however many  *)
(* timeouts and heartbeats come before it is taken off the channel, and    *)
(* even if the mutex is never free again: it is lost only with a client    *)
(* that has gone, where the write fails and the loop ends all the same.    *)
AssignmentArrives ==
  \A r \in Request : Granted(r) ~> client[r] # "waiting"

(* Every client stays until it has an answer that ends its wait.           *)
AllStay == \A r \in Request : client[r] = "gone" => Refused(r)

(* As long as clients stay, scheduling never wedges the server: the mutex, *)
(* once taken for placing requests, is released, even though the placing   *)
(* loop blocks on channels that other goroutines have to drain.            *)
MutexReleased == []AllStay => (smutex ~> ~ smutex)

(* As long as clients stay, a worker that reports a free core ends the     *)
(* wait of every client in the queue that can reach it: the answer crosses *)
(* the queue, the channel and the responder.                               *)
ReportServesWaiting ==
  []AllStay =>
    \A r \in Request :
      (InQueue(r) /\ \E w \in Worker : Sch!Usable(r, w))
        ~> client[r] = "served"

(* The goroutines of a client that has gone come to an end, provided the   *)
(* mutex of the scheduler is free again and again.                         *)
NoGoroutineLeak ==
  []<> ~ smutex =>
    \A r \in Request : client[r] = "gone" ~> handler[r] = "done"

(* Claims of comments that the code does not live up to.                   *)

(* server.go:256, "Cancel the request and leave the loop".                 *)
CancelLeavesLoop ==
  \A r \in Request : responder[r] = "cancel" ~> responder[r] # "cancel"

(* scheduler.go:39, cancel: "Remove the request from our list of requests".*)
CancelledIsRemoved ==
  \A r \in Request : handler[r] = "done" => ~ InQueue(r)
=============================================================================
