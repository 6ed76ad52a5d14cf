----------------------- MODULE UpdatePublisher_proofs -----------------------
(* Proofs about UpdatePublisher, for any sets of connections, identifiers  *)
(* and producers, and any sharing of identifiers.  The map changes only    *)
(* between rounds, which is when nothing remains to be visited.  Then the  *)
(* condition under which a monitor keeps its entry.  The last part is      *)
(* about progress: every round ends, between two rounds whoever waits for  *)
(* the publisher meets it, and a write to a monitor that has left errs.    *)
EXTENDS UpdatePublisher, TLAPS

RoundOver == ~ offering => remaining = {}

(* A connection has no goroutine before its program is there.              *)
NotYetThere == \A m \in Monitor : handler[m] = "none" => peer[m] = "none"

PInv == TypeOK /\ RoundOver /\ NotYetThere /\ NoDeadEntries

LEMMA PInvInit == Init => PInv
  BY PublisherAssumption
  DEF Init, PInv, TypeOK, RoundOver, NotYetThere, NoDeadEntries, HandlerStates, PeerStates

LEMMA PInvStep == PInv /\ [Next]_vars => PInv'
<1> SUFFICES ASSUME PInv, [Next]_vars PROVE PInv'
  OBVIOUS
<1> USE PublisherAssumption DEF PInv, TypeOK, RoundOver, NotYetThere, NoDeadEntries,
        HandlerStates, PeerStates, publisher, Handle
<1>1. CASE UNCHANGED vars
  BY <1>1 DEF vars
<1>2. ASSUME NEW m \in Monitor, Connect(m) \/ Leave(m)
      PROVE  PInv'
  BY <1>2 DEF Connect, Leave
<1>3. ASSUME NEW m \in Monitor, SendUpdate(m) \/ SendFails(m)
      PROVE  PInv'
  BY <1>3 DEF SendUpdate, SendFails
<1>4. ASSUME NEW m \in Monitor, AddObs(m)
      PROVE  PInv'
  BY <1>4 DEF AddObs
<1>5. ASSUME NEW m \in Monitor, RemoveObs(m)
      PROVE  PInv'
  BY <1>5 DEF RemoveObs
<1>6. ASSUME NEW p \in Producer, TakeUpdate(p) \/ Publish(p)
      PROVE  PInv'
  <2>1. CASE Publish(p)
    BY <2>1 DEF Publish
  <2>2. CASE TakeUpdate(p)
    BY <2>2 DEF TakeUpdate
  <2> QED
    BY <1>6, <2>1, <2>2
<1>7. ASSUME NEW h \in Host, Offer(h)
      PROVE  PInv'
  BY <1>7 DEF Offer
<1>8. CASE EndOfRound
  BY <1>8 DEF EndOfRound
<1> QED
  BY <1>1, <1>2, <1>3, <1>4, <1>5, <1>6, <1>7, <1>8 DEF Next, Round

LEMMA PInvHolds == Spec => []PInv
  BY PInvInit, PInvStep, PTL DEF Spec

(* Every variable keeps to its type.                                       *)
THEOREM PublisherTypeCorrect == Spec => []TypeOK
<1>1. PInv => TypeOK
  BY DEF PInv
<1> QED
  BY <1>1, PInvHolds, PTL

(* The publisher's map never holds the channel of a goroutine that ended.  *)
THEOREM NothingLeftBehind == Spec => []NoDeadEntries
<1>1. PInv => NoDeadEntries
  BY DEF PInv
<1> QED
  BY <1>1, PInvHolds, PTL

-----------------------------------------------------------------------------
(* The map has one entry for each identifier; a monitor that is connected  *)
(* and served should have it, or it gets no updates any more.              *)
OwnEntry ==
  \A m \in Monitor :
    handler[m] \in {"recv", "send"} /\ peer[m] = "up" => obs[hostOf[m]] = m

(* The connections that have registered with the identifier of m before,   *)
(* or that do so while m is there.                                         *)
Namesakes(m) ==
  {n \in Monitor \ {m} : /\ hostOf[n] = hostOf[m]
                        /\ handler[n] \notin {"none", "add"}}

OwnEntryOf(m) ==
  handler[m] \in {"recv", "send"} /\ Namesakes(m) = {} => obs[hostOf[m]] = m

LEMMA OwnEntryInit == ASSUME NEW m \in Monitor PROVE Init => OwnEntryOf(m)
  BY DEF Init, OwnEntryOf

LEMMA OwnEntryStep ==
  ASSUME NEW m \in Monitor
  PROVE  TypeOK /\ OwnEntryOf(m) /\ [Next]_vars => OwnEntryOf(m)'
<1> SUFFICES ASSUME TypeOK, OwnEntryOf(m), [Next]_vars,
                    handler'[m] \in {"recv", "send"}, Namesakes(m)' = {}
             PROVE  obs'[hostOf[m]] = m
  BY DEF OwnEntryOf
<1>t. /\ handler \in [Monitor -> HandlerStates]
      /\ obs \in [Host -> Monitor \cup {NoMonitor}]
      /\ hostOf \in [Monitor -> Host]
  BY PublisherAssumption DEF TypeOK
<1>a. \A n \in Monitor \ {m} :
        hostOf[n] = hostOf[m] => handler'[n] \in {"none", "add"}
  BY DEF Namesakes
<1>1. ASSUME NEW n \in Monitor, AddObs(n)
      PROVE  obs'[hostOf[m]] = m
  <2>1. /\ handler' = [handler EXCEPT ![n] = "recv"]
        /\ obs' = [obs EXCEPT ![hostOf[n]] = n]
    BY <1>1 DEF AddObs, Handle
  <2>2. CASE n = m
    BY <2>1, <2>2, <1>t
  <2>3. CASE n # m
    <3>1. hostOf[n] # hostOf[m]
      BY <2>1, <2>3, <1>a, <1>t
    <3>2. Namesakes(m) = {} /\ handler[m] \in {"recv", "send"}
      BY <2>1, <2>3, <3>1, <1>a, <1>t DEF Namesakes
    <3> QED
      BY <2>1, <3>1, <3>2, <1>t DEF OwnEntryOf
  <2> QED
    BY <2>2, <2>3
<1>2. ASSUME NEW n \in Monitor, RemoveObs(n)
      PROVE  obs'[hostOf[m]] = m
  <2>1. /\ handler' = [handler EXCEPT ![n] = "done"]
        /\ obs' = [obs EXCEPT ![hostOf[n]] = NoMonitor]
        /\ handler[n] = "remove"
    BY <1>2 DEF RemoveObs, Handle
  <2>2. n # m
    BY <2>1, <1>t
  <2>3. hostOf[n] # hostOf[m]
    BY <2>1, <2>2, <1>a, <1>t
  <2>4. Namesakes(m) = {} /\ handler[m] \in {"recv", "send"}
    BY <2>1, <2>2, <2>3, <1>a, <1>t DEF Namesakes
  <2> QED
    BY <2>1, <2>3, <2>4, <1>t DEF OwnEntryOf
<1>3. ASSUME obs' = obs,
             handler[m] \in {"recv", "send"},
             \A n \in Monitor :
               handler'[n] \in {"none", "add"} => handler[n] \in {"none", "add"}
      PROVE  obs'[hostOf[m]] = m
  BY <1>3, <1>a DEF OwnEntryOf, Namesakes
<1>4. CASE UNCHANGED <<obs, handler>>
  BY <1>3, <1>4
<1>5. ASSUME NEW n \in Monitor,
             Connect(n) \/ SendUpdate(n) \/ SendFails(n)
      PROVE  obs'[hostOf[m]] = m
  BY <1>3, <1>5, <1>t DEF Connect, SendUpdate, SendFails, Handle, publisher
<1>6. ASSUME NEW h \in Host, Offer(h)
      PROVE  obs'[hostOf[m]] = m
  BY <1>3, <1>6, <1>t DEF Offer, Handle
<1>7. ASSUME NEW n \in Monitor, Leave(n)
      PROVE  UNCHANGED <<obs, handler>>
  BY <1>7 DEF Leave, publisher
<1>8. ASSUME NEW p \in Producer, TakeUpdate(p) \/ Publish(p)
      PROVE  UNCHANGED <<obs, handler>>
  BY <1>8 DEF TakeUpdate, Publish, publisher
<1>9. CASE EndOfRound \/ UNCHANGED vars
  BY <1>9, <1>4 DEF EndOfRound, vars
<1> QED
  BY <1>1, <1>2, <1>4, <1>5, <1>6, <1>7, <1>8, <1>9 DEF Next, Round

LEMMA OwnEntryHolds ==
  ASSUME NEW m \in Monitor
  PROVE  Spec => []OwnEntryOf(m)
<1>1. PInv => TypeOK
  BY DEF PInv
<1> QED
  BY <1>1, PInvHolds, OwnEntryInit, OwnEntryStep, PTL DEF Spec

(* A monitor that is served and whose identifier no other connection has   *)
(* registered has the entry of that identifier.  Another connection with   *)
(* the identifier is the only way to lose it, be it the goroutine of an    *)
(* older one that removes it, or its registration that comes late.         *)
THEOREM OnlyNamesakesOverwrite ==
  Spec => [](\A m \in Monitor : OwnEntryOf(m))
<1> SUFFICES ASSUME NEW m \in Monitor
             PROVE  Spec => []OwnEntryOf(m)
  OBVIOUS
<1> QED
  BY OwnEntryHolds

(* If no two connections share an identifier, the comment of monitor.go:89 *)
(* is true: every monitor that is served has its entry, and goroutines     *)
(* de-register themselves only.                                            *)
LEMMA UniqueRemoval ==
  ASSUME \A m, n \in Monitor : hostOf[m] = hostOf[n] => m = n,
         TypeOK, [Next]_vars, NEW m \in Monitor,
         obs[hostOf[m]] = m, obs'[hostOf[m]] = NoMonitor
  PROVE  handler'[m] = "done"
<1>t. /\ handler \in [Monitor -> HandlerStates]
      /\ obs \in [Host -> Monitor \cup {NoMonitor}]
      /\ hostOf \in [Monitor -> Host] /\ NoMonitor \notin Monitor
  BY PublisherAssumption DEF TypeOK
<1>c. obs' # obs
  BY <1>t
<1>1. ASSUME NEW n \in Monitor, RemoveObs(n)
      PROVE  handler'[m] = "done"
  <2>1. /\ handler' = [handler EXCEPT ![n] = "done"]
        /\ obs' = [obs EXCEPT ![hostOf[n]] = NoMonitor]
    BY <1>1 DEF RemoveObs, Handle
  <2>2. hostOf[n] = hostOf[m]
    BY <2>1, <1>t
  <2> QED
    BY <2>1, <2>2, <1>t
<1>2. ASSUME NEW n \in Monitor, AddObs(n)
      PROVE  FALSE
  BY <1>2, <1>t DEF AddObs
<1>3. ASSUME NEW n \in Monitor,
             Connect(n) \/ Leave(n) \/ SendUpdate(n) \/ SendFails(n)
      PROVE  FALSE
  BY <1>3, <1>c DEF Connect, Leave, SendUpdate, SendFails, publisher
<1>4. ASSUME NEW p \in Producer, TakeUpdate(p) \/ Publish(p)
      PROVE  FALSE
  BY <1>4, <1>c DEF TakeUpdate, Publish, publisher
<1>5. ASSUME Round \/ UNCHANGED vars
      PROVE  FALSE
  BY <1>5, <1>c DEF Round, EndOfRound, Offer, vars
<1> QED
  BY <1>1, <1>2, <1>3, <1>4, <1>5 DEF Next

THEOREM UniqueIdentifiersSuffice ==
  ASSUME \A m, n \in Monitor : hostOf[m] = hostOf[n] => m = n
  PROVE  Spec => []OwnEntry /\ DeregistersItself
<1>1. ASSUME NEW m \in Monitor PROVE Namesakes(m) = {}
  BY DEF Namesakes
<1>2. (\A m \in Monitor : OwnEntryOf(m)) => OwnEntry
  BY <1>1 DEF OwnEntryOf, OwnEntry
<1>3. PInv /\ [Next]_vars =>
        [\A m \in Monitor :
           /\ peer[m] = "up"
           /\ obs[hostOf[m]] = m
           /\ obs'[hostOf[m]] = NoMonitor
           => handler'[m] = "done"]_vars
  BY UniqueRemoval DEF PInv
<1> QED
  BY <1>2, <1>3, OnlyNamesakesOverwrite, PInvHolds, PTL
  DEF DeregistersItself, Spec
-----------------------------------------------------------------------------
(* Progress.  Two facts are hypotheses here and properties of a run: that  *)
(* nobody is stuck, because the provers do not reason about ENABLED, and   *)
(* that the publisher comes back to those who have news, because a round   *)
(* over any finite number of hosts ends by induction on their number.      *)
(* That everything else follows for any set of monitors is proved.         *)
At(m, p)      == handler[m] = p
Left(m)       == peer[m] = "left"
Owns(m)       == obs[hostOf[m]] = m
ToVisit(m)    == hostOf[m] \in remaining
Blocked       == producer[Ticker] = "blocked"

LEMMA TickerMoves ==
  ASSUME PInv, [Next]_vars
  PROVE  /\ Blocked /\ offering => Blocked'
         /\ ~ offering => remaining = {}
<1> USE DEF Blocked, PInv, TypeOK, publisher
<1>1. ASSUME NEW m \in Monitor,
             \/ Connect(m) \/ Leave(m) \/ SendUpdate(m) \/ SendFails(m)
             \/ AddObs(m) \/ RemoveObs(m)
      PROVE  producer' = producer
  BY <1>1 DEF Connect, Leave, SendUpdate, SendFails, AddObs, RemoveObs
<1>2. ASSUME NEW p \in Producer, Publish(p)
      PROVE  Blocked => Blocked'
  BY <1>2 DEF Publish
<1>3. ASSUME NEW p \in Producer, TakeUpdate(p)
      PROVE  ~ offering
  BY <1>3 DEF TakeUpdate
<1>4. ASSUME NEW h \in Host, Offer(h)
      PROVE  producer' = producer
  BY <1>4 DEF Offer
<1>5. EndOfRound \/ UNCHANGED vars => producer' = producer
  BY DEF EndOfRound, vars
<1> QED
  BY <1>1, <1>2, <1>3, <1>4, <1>5 DEF Next, Round, RoundOver

LEMMA Published == PInv /\ <<Publish(Ticker)>>_vars => Blocked'
  BY PublisherAssumption DEF Publish, Blocked, PInv, TypeOK

(* The publisher is between two rounds again and again.                    *)
RoundsEnd == []<> ~ offering

LEMMA RoundsGoOn ==
  StuckWrites /\ []NobodyStuck /\ ProducersNotBlocked
    => /\ RoundsEnd
       /\ Blocked ~> ~ Blocked
       /\ ~ Blocked ~> Blocked
<1>1. PInv /\ [Next]_vars => (Blocked /\ offering => Blocked')
  BY TickerMoves
<1>2. PInv => (<<Publish(Ticker)>>_vars => Blocked')
  BY Published
<1>3. PInv /\ NobodyStuck => (~ Blocked => ENABLED <<Publish(Ticker)>>_vars)
  BY PublisherAssumption
  DEF PInv, TypeOK, NobodyStuck, PublisherNotStuck, Blocked
<1>4. ProducersNotBlocked => NewsTaken(Ticker)
  BY PublisherAssumption DEF ProducersNotBlocked
<1>5. producer[Ticker] = "blocked" <=> Blocked
  BY DEF Blocked
<1>6. producer[Ticker] = "idle" => ~ Blocked
  BY DEF Blocked
<1> QED
  BY <1>1, <1>2, <1>3, <1>4, <1>5, <1>6, PInvHolds, PTL
  DEF StuckWrites, Spec, PublisherFairness, NewsTaken, RoundsEnd

(* The moves of the goroutine of a monitor, of its entry and of the round. *)
LEMMA MonitorMoves ==
  ASSUME PInv, [Next]_vars, NEW m \in Monitor
  PROVE  /\ Left(m) => Left(m)'
         /\ At(m, "add") => At(m, "add")' \/ At(m, "recv")'
         /\ At(m, "recv") => At(m, "recv")' \/ At(m, "send")'
         /\ At(m, "remove") => At(m, "remove")' \/ At(m, "done")'
         /\ Owns(m) /\ At(m, "recv") /\ ToVisit(m)
              => ToVisit(m)' \/ At(m, "send")'
         /\ Owns(m) /\ At(m, "recv") /\ Blocked => Blocked' \/ ToVisit(m)'
<1> USE PublisherAssumption
    DEF PInv, TypeOK, RoundOver, HandlerStates, publisher, Handle, Left, At,
        Owns, ToVisit, Blocked
<1>1. ASSUME NEW n \in Monitor,
             \/ Connect(n) \/ Leave(n) \/ SendUpdate(n) \/ SendFails(n)
             \/ AddObs(n) \/ RemoveObs(n)
      PROVE  /\ Left(m) => Left(m)'
             /\ At(m, "add") => At(m, "add")' \/ At(m, "recv")'
             /\ At(m, "recv") => At(m, "recv")'
             /\ At(m, "remove") => At(m, "remove")' \/ At(m, "done")'
             /\ UNCHANGED <<remaining, producer>>
  <2>1. CASE n = m /\ (Connect(n) \/ Leave(n))
    BY <2>1 DEF Connect, Leave, NotYetThere
  <2>3. CASE n = m /\ (SendUpdate(n) \/ SendFails(n))
    BY <2>3 DEF SendUpdate, SendFails
  <2>4. CASE n = m /\ (AddObs(n) \/ RemoveObs(n))
    BY <2>4 DEF AddObs, RemoveObs
  <2>2. CASE n # m
    BY <1>1, <2>2 DEF Connect, Leave, SendUpdate, SendFails, AddObs, RemoveObs
  <2> QED
    BY <1>1, <2>1, <2>2, <2>3, <2>4
<1>2. ASSUME NEW p \in Producer, TakeUpdate(p)
      PROVE  /\ UNCHANGED <<handler, peer>>
             /\ remaining = {}
             /\ Owns(m) => ToVisit(m)'
  BY <1>2 DEF TakeUpdate
<1>3. ASSUME NEW p \in Producer, Publish(p)
      PROVE  /\ UNCHANGED <<handler, peer, remaining>>
             /\ Blocked => Blocked'
  BY <1>3 DEF Publish
<1>4. ASSUME NEW h \in Host, Offer(h)
      PROVE  /\ UNCHANGED <<peer, producer>>
             /\ \A n \in Monitor : \/ handler'[n] = handler[n]
                                   \/ handler[n] = "recv" /\ handler'[n] = "send"
             /\ Owns(m) /\ At(m, "recv") /\ ToVisit(m)
                  => ToVisit(m)' \/ At(m, "send")'
  <2>1. obs[h] \in Monitor
    BY <1>4 DEF Offer
  <2> QED
    BY <1>4, <2>1 DEF Offer
<1>5. CASE EndOfRound \/ UNCHANGED vars
  BY <1>5 DEF EndOfRound, vars
<1> QED
  BY <1>1, <1>2, <1>3, <1>4, <1>5 DEF Next, Round

(* The steps that take it further, and what its entry says of it.          *)
LEMMA MonitorSteps ==
  ASSUME PInv, NEW m \in Monitor
  PROVE  /\ AddObs(m) \/ RemoveObs(m) => ~ At(m, "add")' /\ ~ At(m, "remove")'
         /\ WriteErrs(m) => At(m, "remove")'
         /\ Owns(m) => At(m, "recv") \/ At(m, "send") \/ At(m, "remove")
         /\ ToVisit(m) => offering
<1> USE DEF PInv, TypeOK, At, Owns, ToVisit
<1>1. /\ AddObs(m) \/ RemoveObs(m) => ~ At(m, "add")' /\ ~ At(m, "remove")'
      /\ WriteErrs(m) => At(m, "remove")'
  BY DEF AddObs, RemoveObs, WriteErrs, SendFails, Handle
<1>2. Owns(m) => At(m, "recv") \/ At(m, "send") \/ At(m, "remove")
  BY PublisherAssumption DEF NoDeadEntries
<1> QED
  BY <1>1, <1>2 DEF RoundOver

LEMMA MonitorUnstuck ==
  ASSUME NobodyStuck, NEW m \in Monitor
  PROVE  /\ ~ offering /\ (At(m, "add") \/ At(m, "remove"))
              => ENABLED <<AddObs(m) \/ RemoveObs(m)>>_vars
         /\ At(m, "send") /\ Left(m) => ENABLED <<WriteErrs(m)>>_vars
  BY DEF NobodyStuck, MonitorNotStuck, At, Left

(* addObs and removeObs end, also while the writes to other monitors do    *)
(* not.                                                                    *)
LEMMA MeetsPublisher ==
  ASSUME NEW m \in Monitor
  PROVE  StuckWrites /\ []NobodyStuck /\ RoundsEnd
           => (At(m, "add") \/ At(m, "remove")
                 ~> ~ At(m, "add") /\ ~ At(m, "remove"))
<1>1. PInv /\ [Next]_vars =>
         /\ At(m, "add") => At(m, "add")' \/ At(m, "recv")'
         /\ At(m, "remove") => At(m, "remove")' \/ At(m, "done")'
  BY MonitorMoves
<1>2. PInv => (<<AddObs(m) \/ RemoveObs(m)>>_vars
                 => ~ At(m, "add")' /\ ~ At(m, "remove")')
  BY MonitorSteps
<1>3. NobodyStuck => (~ offering /\ (At(m, "add") \/ At(m, "remove"))
                        => ENABLED <<AddObs(m) \/ RemoveObs(m)>>_vars)
  BY MonitorUnstuck
<1>4. MonitorsMeet => MonitorMeets(m)
  BY DEF MonitorsMeet
<1>5. /\ ~ (At(m, "recv") /\ (At(m, "add") \/ At(m, "remove")))
      /\ ~ (At(m, "done") /\ (At(m, "add") \/ At(m, "remove")))
  BY DEF At
<1> QED
  BY <1>1, <1>2, <1>3, <1>4, <1>5, PInvHolds, PTL
  DEF StuckWrites, Spec, PublisherFairness, MonitorMeets, RoundsEnd

THEOREM RegistrationsEnd ==
  StuckWrites /\ []NobodyStuck /\ ProducersNotBlocked => MonitorsNotBlocked
<1> SUFFICES ASSUME NEW m \in Monitor
             PROVE  StuckWrites /\ []NobodyStuck /\ ProducersNotBlocked
                      => (handler[m] \in {"add", "remove"}
                            ~> handler[m] \notin {"add", "remove"})
  BY DEF MonitorsNotBlocked
<1>1. /\ handler[m] \in {"add", "remove"} <=> At(m, "add") \/ At(m, "remove")
      /\ handler[m] \notin {"add", "remove"}
           <=> ~ At(m, "add") /\ ~ At(m, "remove")
  BY DEF At
<1> QED
  BY <1>1, MeetsPublisher, RoundsGoOn, PTL

(* A monitor at its channel gets an update as long as it has its entry:    *)
(* the ticker publishes, the round that follows visits every entry, and it *)
(* does not end before it has.                                             *)
LEMMA GetsUpdate ==
  ASSUME NEW m \in Monitor
  PROVE  StuckWrites /\ []NobodyStuck /\ ProducersNotBlocked
           => (Owns(m) /\ At(m, "recv") ~> ~ Owns(m) \/ At(m, "send"))
<1>1. PInv /\ [Next]_vars =>
         /\ At(m, "recv") => At(m, "recv")' \/ At(m, "send")'
         /\ Owns(m) /\ At(m, "recv") /\ ToVisit(m)
              => ToVisit(m)' \/ At(m, "send")'
         /\ Owns(m) /\ At(m, "recv") /\ Blocked => Blocked' \/ ToVisit(m)'
  BY MonitorMoves
<1>2. PInv => (ToVisit(m) => offering)
  BY MonitorSteps
<1> QED
  BY <1>1, <1>2, RoundsGoOn, PInvHolds, PTL DEF StuckWrites, Spec, RoundsEnd

THEOREM EntriesAreServed ==
  StuckWrites /\ []NobodyStuck /\ ProducersNotBlocked => EntryIsServed
<1> SUFFICES ASSUME NEW m \in Monitor
             PROVE  StuckWrites /\ []NobodyStuck /\ ProducersNotBlocked
                      => ((obs[hostOf[m]] = m /\ handler[m] = "recv")
                            ~> (obs[hostOf[m]] # m \/ handler[m] = "send"))
  BY DEF EntryIsServed
<1>1. /\ obs[hostOf[m]] = m <=> Owns(m)
      /\ obs[hostOf[m]] # m <=> ~ Owns(m)
      /\ handler[m] = "recv" <=> At(m, "recv")
      /\ handler[m] = "send" <=> At(m, "send")
  BY DEF Owns, At
<1> QED
  BY <1>1, GetsUpdate, PTL

(* A monitor that has left loses its entry if writes end: it gets updates  *)
(* until the write of one fails, and its goroutine then removes it.        *)
THEOREM LeftMonitorsForgotten ==
  StuckWrites /\ []NobodyStuck /\ ProducersNotBlocked => LeftMonitorForgotten
<1> SUFFICES ASSUME NEW m \in Monitor
             PROVE  StuckWrites /\ []NobodyStuck /\ ProducersNotBlocked
                    /\ WriteFairness
                      => ((peer[m] = "left" /\ obs[hostOf[m]] = m)
                            ~> obs[hostOf[m]] # m)
  BY DEF LeftMonitorForgotten
<1>1. PInv /\ [Next]_vars =>
         /\ Left(m) => Left(m)'
         /\ At(m, "remove") => At(m, "remove")' \/ At(m, "done")'
  BY MonitorMoves
<1>2. PInv => /\ <<WriteErrs(m)>>_vars => At(m, "remove")'
              /\ Owns(m) => At(m, "recv") \/ At(m, "send") \/ At(m, "remove")
  BY MonitorSteps
<1>3. NobodyStuck => (At(m, "send") /\ Left(m) => ENABLED <<WriteErrs(m)>>_vars)
  BY MonitorUnstuck
<1>4. WriteFairness => WritesEnd(m)
  BY DEF WriteFairness
<1>5. /\ obs[hostOf[m]] = m <=> Owns(m)
      /\ obs[hostOf[m]] # m <=> ~ Owns(m)
      /\ peer[m] = "left" <=> Left(m)
      /\ ~ (At(m, "done") /\ At(m, "recv"))
      /\ ~ (At(m, "done") /\ At(m, "send"))
      /\ ~ (At(m, "done") /\ At(m, "remove"))
  BY DEF Owns, Left, At
<1> QED
  BY <1>1, <1>2, <1>3, <1>4, <1>5, GetsUpdate, MeetsPublisher, RoundsGoOn,
     PInvHolds, PTL DEF StuckWrites, Spec, WritesEnd
=============================================================================
