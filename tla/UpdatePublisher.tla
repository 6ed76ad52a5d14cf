-------------------------- MODULE UpdatePublisher --------------------------
(***************************************************************************)
(* How monitors get to see the cluster: the publisher goroutine of         *)
(* observer.go, the goroutine of each monitor connection in server.go      *)
(* (handleConnection, handleMonitorConnection), and the goroutines that    *)
(* have something to publish (sendWorkState, connections that bring in a   *)
(* CompletedJob).  All channels are unbuffered: a send and the matching    *)
(* receive are one step of both goroutines.                                *)
(*                                                                         *)
(* The publisher offers an update to each observer in turn and drops it    *)
(* for those that are not at their channel.  It knows observers by the     *)
(* string a monitor sends, its host name and process number; a monitor     *)
(* that loses its connection sends the same string when it connects again. *)
(***************************************************************************)
CONSTANTS
  Monitor,     \* monitor connections; each is used once
  Host,        \* the identifiers that monitors send
  hostOf,      \* the identifier sent on each connection
  NoMonitor,
  Producer,    \* goroutines that publish updates ...
  Ticker       \* ... and the one of them that does so every second

ASSUME PublisherAssumption ==
  hostOf \in [Monitor -> Host] /\ NoMonitor \notin Monitor /\ Ticker \in Producer

VARIABLES
  obs,         \* the map of handlePublish: NoMonitor where it has no entry
  offering,    \* TRUE while the publisher is in its inner loop ...
  remaining,   \* ... and the hosts it has still to visit
  producer,    \* "idle", or "blocked" in the send to updates
  handler,     \* where the goroutine of each monitor connection is
  peer         \* the program at the other end: "none", "up" or "left"

vars == <<obs, offering, remaining, producer, handler, peer>>
publisher == <<obs, offering, remaining>>

HandlerStates == {"none", "add", "recv", "send", "remove", "done"}
PeerStates    == {"none", "up", "left"}

Handle(m, from, to) ==
  /\ handler[m] = from
  /\ handler' = [handler EXCEPT ![m] = to]

-----------------------------------------------------------------------------
(* Monitor programs: one connection at a time each.                        *)
Connect(m) ==
  /\ \A n \in Monitor : hostOf[n] = hostOf[m] => peer[n] # "up"
  /\ Handle(m, "none", "add")
  /\ peer' = [peer EXCEPT ![m] = "up"]
  /\ UNCHANGED <<publisher, producer>>

(* The program ends, or a read fails or takes too long.                    *)
Leave(m) ==
  /\ peer[m] = "up"
  /\ peer' = [peer EXCEPT ![m] = "left"]
  /\ UNCHANGED <<publisher, producer, handler>>

(* handleMonitorConnection, between two receives: a write works, or hits   *)
(* an error or the write deadline.                                         *)
SendUpdate(m) ==
  /\ Handle(m, "send", "recv")
  /\ UNCHANGED <<publisher, producer, peer>>

(* Mutant: carry on after an error.                                        *)
SendFailsCarryOn(m) ==
  /\ Handle(m, "send", "recv")
  /\ UNCHANGED <<publisher, producer, peer>>

SendFails(m) ==
  /\ Handle(m, "send", "remove")
  /\ UNCHANGED <<publisher, producer, peer>>

-----------------------------------------------------------------------------
(* The outer select of handlePublish.                                      *)
AddObs(m) ==
  /\ ~ offering
  /\ Handle(m, "add", "recv")
  /\ obs' = [obs EXCEPT ![hostOf[m]] = m]
  /\ UNCHANGED <<offering, remaining, producer, peer>>

(* Mutant: end without removing the channel.                               *)
RemoveObsForgets(m) ==
  /\ ~ offering
  /\ Handle(m, "remove", "done")
  /\ UNCHANGED <<publisher, producer, peer>>

RemoveObs(m) ==
  /\ ~ offering
  /\ Handle(m, "remove", "done")
  /\ obs' = [obs EXCEPT ![hostOf[m]] = NoMonitor]
  /\ UNCHANGED <<offering, remaining, producer, peer>>

TakeUpdate(p) ==
  /\ ~ offering
  /\ producer[p] = "blocked"
  /\ producer' = [producer EXCEPT ![p] = "idle"]
  /\ offering' = TRUE
  /\ remaining' = {h \in Host : obs[h] # NoMonitor}
  /\ UNCHANGED <<obs, handler, peer>>

(* The inner loop: a send that does not block.                             *)
(* Mutant: a send that blocks.                                             *)
OfferBlocks(h) ==
  /\ offering
  /\ h \in remaining
  /\ Handle(obs[h], "recv", "send")
  /\ remaining' = remaining \ {h}
  /\ UNCHANGED <<obs, offering, producer, peer>>

(* Mutant: a break out of the loop instead of the inner select.            *)
OfferToOne(h) ==
  /\ offering
  /\ h \in remaining
  /\ \/ Handle(obs[h], "recv", "send")
     \/ handler[obs[h]] # "recv" /\ UNCHANGED handler
  /\ remaining' = {}
  /\ UNCHANGED <<obs, offering, producer, peer>>

Offer(h) ==
  /\ offering
  /\ h \in remaining
  /\ \/ Handle(obs[h], "recv", "send")
     \/ handler[obs[h]] # "recv" /\ UNCHANGED handler
  /\ remaining' = remaining \ {h}
  /\ UNCHANGED <<obs, offering, producer, peer>>

EndOfRound ==
  /\ offering
  /\ remaining = {}
  /\ offering' = FALSE
  /\ UNCHANGED <<obs, remaining, producer, handler, peer>>

(* A goroutine has news, and blocks until the publisher takes them.        *)
Publish(p) ==
  /\ producer[p] = "idle"
  /\ producer' = [producer EXCEPT ![p] = "blocked"]
  /\ UNCHANGED <<publisher, handler, peer>>

-----------------------------------------------------------------------------
Init ==
  /\ obs = [h \in Host |-> NoMonitor]
  /\ offering = FALSE
  /\ remaining = {}
  /\ producer = [p \in Producer |-> "idle"]
  /\ handler = [m \in Monitor |-> "none"]
  /\ peer = [m \in Monitor |-> "none"]

Round == EndOfRound \/ \E h \in Host : Offer(h)

Next ==
  \/ \E m \in Monitor : \/ Connect(m) \/ Leave(m) \/ SendUpdate(m)
                        \/ SendFails(m) \/ AddObs(m) \/ RemoveObs(m)
  \/ \E p \in Producer : TakeUpdate(p) \/ Publish(p)
  \/ Round

(* The publisher keeps running and its select does not ignore a ready      *)
(* channel for ever.  The ticker keeps ticking: sendWorkState calls        *)
(* getWorkerState before each of its publications, so this assumes that    *)
(* the mutex of the scheduler is free again and again, which the deadlock  *)
(* of CancelLeavesLoop (Server) refutes.  A write may take any time        *)
(* (StuckWrites) or ends, the one to a monitor that has left in an error   *)
(* sooner or later (WriteFairness).                                        *)
MonitorMeets(m) == SF_vars(AddObs(m) \/ RemoveObs(m))
MonitorsMeet    == \A m \in Monitor : MonitorMeets(m)

PublisherFairness ==
  /\ WF_vars(Round)
  /\ MonitorsMeet
  /\ \A p \in Producer : SF_vars(TakeUpdate(p))
  /\ WF_vars(Publish(Ticker))

WriteErrs(m) == peer[m] = "left" /\ SendFails(m)
WritesEnd(m) == WF_vars(SendUpdate(m) \/ SendFails(m)) /\ SF_vars(WriteErrs(m))

WriteFairness == \A m \in Monitor : WritesEnd(m)

Spec == Init /\ [][Next]_vars
StuckWrites == Spec /\ PublisherFairness

-----------------------------------------------------------------------------
TypeOK ==
  /\ obs \in [Host -> Monitor \cup {NoMonitor}]
  /\ offering \in BOOLEAN
  /\ remaining \subseteq {h \in Host : obs[h] # NoMonitor}
  /\ producer \in [Producer -> {"idle", "blocked"}]
  /\ handler \in [Monitor -> HandlerStates]
  /\ peer \in [Monitor -> PeerStates]

(* The map holds no channel of a goroutine that has ended, and holds each  *)
(* under the identifier that came with it: nothing is left behind when     *)
(* monitors come and go, whoever shares an identifier with whom.           *)
NoDeadEntries ==
  \A h \in Host : obs[h] # NoMonitor =>
    /\ hostOf[obs[h]] = h
    /\ handler[obs[h]] \in {"recv", "send", "remove"}

(* Inside a round the publisher waits for nobody; outside it finds whoever *)
(* wants to register, to de-register or to publish ready to meet it.       *)
PublisherNotStuck ==
  /\ offering => ENABLED <<Round>>_vars
  /\ producer[Ticker] = "idle" => ENABLED <<Publish(Ticker)>>_vars
  /\ ~ offering => \A p \in Producer :
       producer[p] = "blocked" => ENABLED <<TakeUpdate(p)>>_vars

MonitorNotStuck(m) ==
  /\ ~ offering /\ handler[m] \in {"add", "remove"}
     => ENABLED <<AddObs(m) \/ RemoveObs(m)>>_vars
  /\ handler[m] = "send" =>
       /\ ENABLED <<SendUpdate(m) \/ SendFails(m)>>_vars
       /\ peer[m] = "left" => ENABLED <<WriteErrs(m)>>_vars

NobodyStuck == PublisherNotStuck /\ \A m \in Monitor : MonitorNotStuck(m)

(* Nobody who has news waits for a monitor: the publisher comes back to    *)
(* them even if a write to a monitor never ends.                           *)
NewsTaken(p) == producer[p] = "blocked" ~> producer[p] = "idle"

ProducersNotBlocked == \A p \in Producer : NewsTaken(p)

(* Monitors come and go while others are stuck: addObs and removeObs end.  *)
MonitorsNotBlocked ==
  \A m \in Monitor :
    handler[m] \in {"add", "remove"} ~> handler[m] \notin {"add", "remove"}

(* A monitor that is in the map and at its channel gets an update.         *)
EntryIsServed ==
  \A m \in Monitor :
    (obs[hostOf[m]] = m /\ handler[m] = "recv")
      ~> (obs[hostOf[m]] # m \/ handler[m] = "send")

(* If writes end, a monitor that has left does not stay in the map, where  *)
(* every round would have to visit it.                                     *)
LeftMonitorForgotten ==
  WriteFairness =>
    \A m \in Monitor :
      (peer[m] = "left" /\ obs[hostOf[m]] = m) ~> obs[hostOf[m]] # m

(* server.go:209, "On an error we de-register and bail out", by what       *)
(* monitor.go:89 calls "a unique host identifier": the entry of a monitor  *)
(* that is connected is taken away only by its own goroutine as it ends.   *)
DeregistersItself ==
  [][\A m \in Monitor :
       /\ peer[m] = "up"
       /\ obs[hostOf[m]] = m
       /\ obs'[hostOf[m]] = NoMonitor
       => handler'[m] = "done"]_vars
=============================================================================
