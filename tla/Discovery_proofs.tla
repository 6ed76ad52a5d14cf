-------------------------- MODULE Discovery_proofs --------------------------
(***************************************************************************)
(* The properties of Discovery, for every set of servers and ports.  The   *)
(* safety ones hold because the position of stop tells where the           *)
(* goroutines are.  In the last part each position of a search, and of the *)
(* stop of a server, is left in the end for the next one.                  *)
(***************************************************************************)
EXTENDS Discovery, TLAPS

Running == /\ broadcaster \in {"write", "wait"}
           /\ listener \in {"check", "read", "offer"}
           /\ port # NoPort

Nothing == /\ broadcaster = "off" /\ listener = "off"
           /\ port = NoPort /\ socket = {}

(* A search whose sockets could not be opened is the second case of        *)
(* "stopPing".                                                             *)
Phases ==
  /\ caller = "idle" => Nothing
  /\ caller = "waiting" => Running
  /\ caller = "stopPing" => Running \/ Nothing
  /\ caller = "stopListen" => /\ broadcaster = "done"
                              /\ listener \in {"check", "read", "offer"}
                              /\ port # NoPort
  /\ caller = "close" => broadcaster = "done" /\ listener = "done" /\ port # NoPort
  /\ caller = "pingDone" => /\ broadcaster = "done" /\ listener = "done"
                            /\ port = NoPort /\ socket = {}
  /\ caller = "listenDone" => /\ broadcaster = "off" /\ listener = "done"
                              /\ port = NoPort /\ socket = {}

ServerPhases ==
  \A s \in Server :
    /\ stopper[s] \in {"running", "stop"} => server[s] \in {"check", "read"}
    /\ stopper[s] \in {"close", "serverDone"} => server[s] = "done"
    /\ stopper[s] = "stopped" => server[s] = "off"

IInv == TypeOK /\ Phases /\ ServerPhases

-----------------------------------------------------------------------------
LEMMA InvariantInit == Init => IInv
  BY DEF Init, IInv, TypeOK, Phases, ServerPhases, Running, Nothing,
         CallerStates, BroadcasterStates, ListenerStates, ServerStates,
         StopperStates, Open

(* The steps of the caller.                                                *)
LEMMA SearcherStep == ASSUME IInv, Searcher PROVE IInv'
<1> USE DEF IInv, TypeOK, Phases, Running, Nothing, CallerStates,
            BroadcasterStates, ListenerStates, Call, serving
<1>0. ServerPhases'
  <2>1. UNCHANGED <<server, stopper>>
    BY DEF Searcher, Start, StartFails, TakeResult, Timeout, StopPing,
           StopListen, Close, PingDone, ListenDone
  <2>2. QED  BY <2>1 DEF ServerPhases
<1>1. CASE Start
  BY <1>0, <1>1, DiscoveryAssumption DEF Start, Broadcast, Listen
<1>2. CASE StartFails  BY <1>0, <1>2 DEF StartFails
<1>3. CASE TakeResult  BY <1>0, <1>3 DEF TakeResult
<1>4. CASE Timeout     BY <1>0, <1>4 DEF Timeout, answers
<1>5. CASE StopPing    BY <1>0, <1>5 DEF StopPing, Broadcast, answers
<1>6. CASE StopListen  BY <1>0, <1>6 DEF StopListen, Listen, answers
<1>7. CASE Close       BY <1>0, <1>7 DEF Close, answers
<1>8. CASE PingDone    BY <1>0, <1>8 DEF PingDone, Broadcast, answers
<1>9. CASE ListenDone  BY <1>0, <1>9 DEF ListenDone, Listen, answers
<1>10. QED
  BY <1>1, <1>2, <1>3, <1>4, <1>5, <1>6, <1>7, <1>8, <1>9 DEF Searcher

(* The steps of the two goroutines and of the network.                     *)
LEMMA GoroutineStep ==
  ASSUME IInv, Broadcaster \/ Listener \/ Noise
  PROVE  IInv'
<1> USE DEF IInv, TypeOK, Phases, Running, Nothing, CallerStates,
            BroadcasterStates, ListenerStates, answers, serving
<1>0. ServerPhases'
  <2>1. UNCHANGED <<server, stopper>>
    BY DEF Broadcaster, Listener, Read, WritePing, PingAgain, CheckStop,
           ReadPacket, ReadTimesOut, Offer, Noise
  <2>2. QED  BY <2>1 DEF ServerPhases
<1>1. CASE WritePing
  <2>1. port \in Port  BY <1>1 DEF WritePing, Broadcast
  <2>2. pings' \in [Server -> SUBSET Port]  BY <1>1, <2>1 DEF WritePing
  <2>3. QED  BY <1>0, <1>1, <2>2 DEF WritePing, Broadcast
<1>2. CASE PingAgain     BY <1>0, <1>2 DEF PingAgain, Broadcast
<1>3. CASE CheckStop     BY <1>0, <1>3 DEF CheckStop, Listen
<1>4. CASE Read
  <2>1. PICK p \in Server \cup {Junk} : ReadPacket(p)  BY <1>4 DEF Read
  <2>2. CASE p = Junk    BY <1>0, <2>1, <2>2 DEF ReadPacket
  <2>3. CASE p # Junk    BY <1>0, <2>1, <2>3 DEF ReadPacket, Listen
  <2>4. QED  BY <2>2, <2>3
<1>5. CASE ReadTimesOut  BY <1>0, <1>5 DEF ReadTimesOut, Listen
<1>6. CASE Offer         BY <1>0, <1>6 DEF Offer, Listen
<1>7. CASE Noise         BY <1>0, <1>7 DEF Noise, searching
<1>8. QED
  BY <1>1, <1>2, <1>3, <1>4, <1>5, <1>6, <1>7 DEF Broadcaster, Listener

(* The steps of the discovery servers and their owners.                    *)
LEMMA ServerStep ==
  ASSUME IInv, NEW s \in Server,
         ServerLoop(s) \/ ServerOwner(s)
  PROVE  IInv'
<1> USE DEF IInv, TypeOK, ServerPhases, ServerStates, StopperStates, Open,
            Serve, Own
<1>1. UNCHANGED <<searching, port, answers>>
  BY DEF ServerLoop, ServerOwner, ServerCheck, AnswerPing, ServerReadFails,
         StartServer, CallStop, ServerStop, ServerClose, ServerDone
<1>2. Phases' /\ socket' \subseteq Server \cup {Junk}
  <2>1. CASE UNCHANGED socket
    BY <1>1, <2>1 DEF Phases, Running, Nothing, searching
  <2>2. CASE port # NoPort /\ socket' = socket \cup {s}
    BY <1>1, <2>2 DEF Phases, Running, Nothing, searching
  <2>3. UNCHANGED socket \/ (port # NoPort /\ socket' = socket \cup {s})
    BY DiscoveryAssumption
    DEF ServerLoop, ServerOwner, ServerCheck, AnswerPing, ServerReadFails,
        StartServer, CallStop, ServerStop, ServerClose, ServerDone
  <2>4. QED  BY <2>1, <2>2, <2>3
<1>3. /\ server' \in [Server -> ServerStates]
      /\ stopper' \in [Server -> StopperStates]
      /\ pings' \in [Server -> SUBSET Port]
      /\ ServerPhases'
  <2>1. CASE ServerCheck(s)      BY <2>1 DEF ServerCheck
  <2>2. CASE \E p \in Port : AnswerPing(s, p)  BY <2>2 DEF AnswerPing
  <2>3. CASE ServerReadFails(s)  BY <2>3 DEF ServerReadFails
  <2>4. CASE StartServer(s)      BY <2>4 DEF StartServer
  <2>5. CASE CallStop(s)         BY <2>5 DEF CallStop
  <2>6. CASE ServerStop(s)       BY <2>6 DEF ServerStop
  <2>7. CASE ServerClose(s)      BY <2>7 DEF ServerClose
  <2>8. CASE ServerDone(s)       BY <2>8 DEF ServerDone
  <2>9. QED
    BY <2>1, <2>2, <2>3, <2>4, <2>5, <2>6, <2>7, <2>8 DEF ServerLoop, ServerOwner
<1>4. QED  BY <1>1, <1>2, <1>3 DEF searching, answers

LEMMA InvariantStep ==
  ASSUME IInv, [Next]_vars PROVE IInv'
<1>1. CASE UNCHANGED vars
  BY <1>1 DEF vars, searching, answers, serving, IInv, TypeOK, Phases, Running,
              Nothing, ServerPhases
<1>2. CASE Next  BY <1>2, SearcherStep, GoroutineStep, ServerStep DEF Next
<1>3. QED  BY <1>1, <1>2

LEMMA Invariance == Spec => []IInv
  BY InvariantInit, InvariantStep, PTL DEF Spec

-----------------------------------------------------------------------------
(* A search returns an error or the address of a server (discovery.go:408, *)
(* 386-398), and every state component keeps its range.                    *)
THEOREM DiscoveryTypeCorrect == Spec => []TypeOK
<1>1. IInv => TypeOK  BY DEF IInv
<1>2. QED  BY <1>1, Invariance, PTL

(* stop leaves no goroutine and no socket behind (discovery.go:275-287),   *)
(* however the search, the listener and the network interleave.            *)
THEOREM StopIsComplete == Spec => []StopLeavesNothing
<1>1. IInv => StopLeavesNothing
  BY DEF IInv, Phases, Nothing, StopLeavesNothing
<1>2. QED  BY <1>1, Invariance, PTL

(* No goroutine of the client or of a server reads or writes a socket      *)
(* after stop has closed it (discovery.go:174-180, 275-287).               *)
THEOREM SocketsSafe == Spec => []ClosedSocketUnused
<1>1. IInv => ClosedSocketUnused
  BY DEF IInv, TypeOK, CallerStates, Phases, Running, Nothing, ServerPhases,
         ClosedSocketUnused
<1>2. QED  BY <1>1, Invariance, PTL
-----------------------------------------------------------------------------
(* When SearchReturns fails: stop waits at its first send,                 *)
(* discovery.go:277, and the goroutine that would receive never started.   *)
Hangs == caller = "stopPing" /\ broadcaster = "off"

(* A step leads into Hangs only when a socket cannot be opened, and no     *)
(* step leads out.                                                         *)
LEMMA HangStep ==
  ASSUME IInv, [Next]_vars
  PROVE  /\ Hangs => Hangs'
         /\ ~ Hangs /\ Hangs' => StartFails
<1> USE DEF IInv, Phases, Running, Nothing, Hangs
<1>1. CASE Searcher
  BY <1>1 DEF Searcher, Start, StartFails, TakeResult, Timeout, StopPing,
              StopListen, Close, PingDone, ListenDone, Call, Broadcast
<1>2. CASE Broadcaster
  BY <1>2 DEF Broadcaster, WritePing, PingAgain, Broadcast
<1>3. CASE Listener \/ Noise
  BY <1>3 DEF Listener, CheckStop, Read, ReadPacket, ReadTimesOut, Offer,
              Noise, searching
<1>4. CASE \E s \in Server : ServerLoop(s) \/ ServerOwner(s)
  BY <1>4 DEF ServerLoop, ServerOwner, ServerCheck, AnswerPing,
              ServerReadFails, StartServer, CallStop, ServerStop, ServerClose,
              ServerDone, searching
<1>5. CASE UNCHANGED vars
  BY <1>5 DEF vars, searching
<1>6. QED  BY <1>1, <1>2, <1>3, <1>4, <1>5 DEF Next

(* A search whose sockets could not be opened never returns                *)
(* (discovery.go:411): its caller stays in stop for ever, with any timing  *)
(* and whatever packets arrive.                                            *)
THEOREM FailedSearchHangs == Spec => [](Hangs => []Hangs)
<1>1. IInv /\ [Next]_vars => (Hangs => Hangs')
  BY HangStep
<1>2. QED  BY <1>1, Invariance, PTL DEF Spec

(* No other search ends up there: a search that opened its sockets finds a *)
(* broadcaster to receive its first signal (discovery.go:277, 309).        *)
THEOREM OpenSearchesAreHeard ==
  Spec => [][~ Hangs /\ Hangs' => StartFails]_vars
<1>1. IInv /\ [Next]_vars => (~ Hangs /\ Hangs' => StartFails)
  BY HangStep
<1>2. QED  BY <1>1, Invariance, PTL DEF Spec
-----------------------------------------------------------------------------
(* Progress.  The provers do not reason about ENABLED, so the theorems     *)
(* below take []NobodyStuck as a hypothesis: it is an invariant of         *)
(* Discovery, which a run checks.  The rest of the arguments is proved.    *)

(* Where a search and its goroutines are, and what its socket holds.       *)
At(c)         == caller = c
Pings(b)      == broadcaster = b
Listens(l)    == listener = l
SocketIs(set) == socket = set
AnswerThere   == socket \cap Server # {}

(* The moves of the caller and, while it stops, of its goroutines.         *)
LEMMA SearchMoves ==
  ASSUME IInv, [Next]_vars
  PROVE  /\ At("waiting") => At("waiting")' \/ (At("stopPing")' /\ Running')
         /\ At("stopPing") /\ Running =>
              \/ /\ At("stopPing")' /\ Running'
                 /\ Pings("write") => Pings("write")' \/ Pings("wait")'
                 /\ Pings("wait") => Pings("wait")' \/ Pings("write")'
              \/ At("stopListen")'
         /\ At("stopListen") =>
              \/ /\ At("stopListen")'
                 /\ ~ Listens("read") => ~ Listens("read")'
                 /\ Listens("read") /\ AnswerThere =>
                      AnswerThere' \/ ~ Listens("read")'
              \/ At("close")'
         /\ At("close") => At("close")' \/ At("pingDone")'
         /\ At("pingDone") => At("pingDone")' \/ At("listenDone")'
         /\ At("listenDone") => At("listenDone")' \/ At("idle")'
<1> USE DEF IInv, Phases, Running, Nothing, At, Pings, Listens, AnswerThere
<1>1. CASE Searcher
  BY <1>1 DEF Searcher, Start, StartFails, TakeResult, Timeout, StopPing,
              StopListen, Close, PingDone, ListenDone, Call, Broadcast, Listen
<1>2. CASE Broadcaster
  BY <1>2 DEF Broadcaster, WritePing, PingAgain, Broadcast
<1>3. CASE Noise
  BY <1>3 DEF Noise, searching
<1>4. CASE CheckStop \/ ReadTimesOut \/ Offer
  BY <1>4 DEF CheckStop, ReadTimesOut, Offer, Listen
<1>5. CASE Read
  <2>1. PICK p \in Server \cup {Junk} : ReadPacket(p)
    BY <1>5 DEF Read
  <2>2. CASE p = Junk
    BY <2>1, <2>2, DiscoveryAssumption DEF ReadPacket
  <2>3. CASE p # Junk
    BY <2>1, <2>3 DEF ReadPacket, Listen
  <2> QED
    BY <2>2, <2>3
<1>6. ASSUME NEW s \in Server, ServerLoop(s) \/ ServerOwner(s)
      PROVE  UNCHANGED <<searching, port>> /\ socket \subseteq socket'
  BY <1>6 DEF ServerLoop, ServerOwner, ServerCheck, AnswerPing,
              ServerReadFails, StartServer, CallStop, ServerStop, ServerClose,
              ServerDone
<1>7. CASE UNCHANGED <<searching, port>> /\ socket \subseteq socket'
  BY <1>7 DEF searching
<1>8. CASE UNCHANGED vars
  BY <1>8 DEF vars, searching
<1> QED
  BY <1>1, <1>2, <1>3, <1>4, <1>5, <1>6, <1>7, <1>8 DEF Next, Listener

(* The steps that take the caller and its goroutines further.              *)
LEMMA SearchSteps ==
  ASSUME IInv
  PROVE  /\ TakeResult \/ Timeout => ~ At("waiting")'
         /\ StopPing => ~ At("stopPing")'
         /\ StopListen => ~ At("stopListen")'
         /\ Close => ~ At("close")'
         /\ PingDone => ~ At("pingDone")'
         /\ ListenDone => ~ At("listenDone")'
         /\ Broadcaster => /\ Pings("write") => ~ Pings("write")'
                           /\ Pings("wait") => ~ Pings("wait")'
         /\ ReadTimesOut \/ ReadAnswer => ~ Listens("read")'
         /\ Read /\ ~ AnswerThere => SocketIs({})' \/ ~ Listens("read")'
<1> USE DEF At, Pings, Listens, Call, Broadcast, Listen
<1>1. TakeResult \/ Timeout => ~ At("waiting")'  BY DEF TakeResult, Timeout
<1>2. /\ StopPing => ~ At("stopPing")'
      /\ StopListen => ~ At("stopListen")'
      /\ Close => ~ At("close")'
      /\ PingDone => ~ At("pingDone")'
      /\ ListenDone => ~ At("listenDone")'
  BY DEF StopPing, StopListen, Close, PingDone, ListenDone
<1>3. Broadcaster => /\ Pings("write") => ~ Pings("write")'
                     /\ Pings("wait") => ~ Pings("wait")'
  BY DEF Broadcaster, WritePing, PingAgain
<1>4. ReadTimesOut \/ ReadAnswer => ~ Listens("read")'
  BY DiscoveryAssumption DEF ReadTimesOut, ReadAnswer, ReadPacket
<1>5. Read /\ ~ AnswerThere => SocketIs({})' \/ ~ Listens("read")'
  BY DEF IInv, TypeOK, AnswerThere, SocketIs, Read, ReadPacket
<1> QED
  BY <1>1, <1>2, <1>3, <1>4, <1>5

(* From one signal of stop to the next: the caller finds the broadcaster   *)
(* at its wait again and again, and a read of the listener ends, because   *)
(* answers end it, junk is read, and a socket that is empty again and      *)
(* again lets the deadline pass.                                           *)
LEMMA SearchPhases ==
  FairSpec /\ []NobodyStuck =>
    /\ At("waiting") ~> At("stopPing") /\ Running
    /\ At("stopPing") /\ Running ~> At("stopListen")
    /\ At("stopListen") ~> At("close")
    /\ At("close") ~> At("pingDone")
    /\ At("pingDone") ~> At("listenDone")
    /\ At("listenDone") ~> At("idle")
<1>1. IInv /\ [Next]_vars =>
         /\ At("waiting") => At("waiting")' \/ (At("stopPing")' /\ Running')
         /\ At("stopPing") /\ Running =>
              \/ /\ At("stopPing")' /\ Running'
                 /\ Pings("write") => Pings("write")' \/ Pings("wait")'
                 /\ Pings("wait") => Pings("wait")' \/ Pings("write")'
              \/ At("stopListen")'
         /\ At("stopListen") =>
              \/ /\ At("stopListen")'
                 /\ ~ Listens("read") => ~ Listens("read")'
                 /\ Listens("read") /\ AnswerThere =>
                      AnswerThere' \/ ~ Listens("read")'
              \/ At("close")'
         /\ At("close") => At("close")' \/ At("pingDone")'
         /\ At("pingDone") => At("pingDone")' \/ At("listenDone")'
         /\ At("listenDone") => At("listenDone")' \/ At("idle")'
  BY SearchMoves
<1>2. IInv =>
         /\ <<TakeResult \/ Timeout>>_vars => ~ At("waiting")'
         /\ <<StopPing>>_vars => ~ At("stopPing")'
         /\ <<StopListen>>_vars => ~ At("stopListen")'
         /\ <<Close>>_vars => ~ At("close")'
         /\ <<PingDone>>_vars => ~ At("pingDone")'
         /\ <<ListenDone>>_vars => ~ At("listenDone")'
         /\ <<Broadcaster>>_vars => /\ Pings("write") => ~ Pings("write")'
                                    /\ Pings("wait") => ~ Pings("wait")'
         /\ <<ReadTimesOut>>_vars => ~ Listens("read")'
         /\ <<ReadAnswer>>_vars => ~ Listens("read")'
         /\ <<Read>>_vars /\ ~ AnswerThere => SocketIs({})' \/ ~ Listens("read")'
  BY SearchSteps
<1>3. NobodyStuck =>
         /\ At("waiting") => ENABLED <<TakeResult \/ Timeout>>_vars
         /\ At("stopPing") /\ Pings("wait") => ENABLED <<StopPing>>_vars
         /\ At("stopListen") /\ ~ Listens("read") => ENABLED <<StopListen>>_vars
         /\ At("close") => ENABLED <<Close>>_vars
         /\ At("pingDone") => ENABLED <<PingDone>>_vars
         /\ At("listenDone") => ENABLED <<ListenDone>>_vars
         /\ Pings("write") \/ Pings("wait") => ENABLED <<Broadcaster>>_vars
         /\ Listens("read") /\ SocketIs({}) => ENABLED <<ReadTimesOut>>_vars
         /\ Listens("read") /\ ~ SocketIs({}) => ENABLED <<Read>>_vars
         /\ Listens("read") /\ AnswerThere => ENABLED <<ReadAnswer>>_vars
  BY DEF NobodyStuck, SearchNotStuck, GoroutinesNotStuck, At, Pings, Listens,
         SocketIs, AnswerThere
<1>4. /\ Running => Pings("write") \/ Pings("wait")
      /\ ~ (Pings("write") /\ Pings("wait"))
      /\ ~ (At("waiting") /\ At("stopPing"))
  BY DEF Running, Pings, At
<1>5. FairSpec /\ []NobodyStuck =>
        /\ At("waiting") ~> At("stopPing") /\ Running
        /\ At("stopPing") /\ Running ~> At("stopListen")
  BY <1>1, <1>2, <1>3, <1>4, Invariance, PTL DEF FairSpec, Fairness, Spec
<1>6. FairSpec /\ []NobodyStuck => (At("stopListen") ~> At("close"))
  BY <1>1, <1>2, <1>3, Invariance, PTL DEF FairSpec, Fairness, Spec
<1>7. FairSpec /\ []NobodyStuck =>
        /\ At("close") ~> At("pingDone")
        /\ At("pingDone") ~> At("listenDone")
        /\ At("listenDone") ~> At("idle")
  BY <1>1, <1>2, <1>3, Invariance, PTL DEF FairSpec, Fairness, Spec
<1> QED
  BY <1>5, <1>6, <1>7, PTL

(* A search that could open its sockets returns (discovery.go:275-287),    *)
(* whatever its goroutines are doing when the answer or the timeout comes. *)
THEOREM SearchEnds == FairSpec /\ []NobodyStuck => OpenSearchReturns
<1>1. /\ caller = "waiting" <=> At("waiting")
      /\ caller = "idle" <=> At("idle")
  BY DEF At
<1> QED
  BY <1>1, SearchPhases, PTL DEF OpenSearchReturns

(* If sockets can always be opened the comment of worker.go:91 is true of  *)
(* the search: it returns wherever it is, and the worker goes on.          *)
THEOREM OpenSocketsSuffice ==
  FairSpec /\ []NobodyStuck /\ [][~ StartFails]_vars => SearchReturns
<1>1. Init => ~ Hangs
  BY DEF Init, Hangs
<1>2. IInv /\ [Next]_vars /\ [~ StartFails]_vars => (~ Hangs => ~ Hangs')
  <2>1. IInv /\ [Next]_vars => (~ Hangs /\ Hangs' => StartFails)
    BY HangStep
  <2>2. UNCHANGED vars => (Hangs' => Hangs)
    BY DEF vars, searching, Hangs
  <2> QED
    BY <2>1, <2>2
<1>3. IInv /\ ~ Hangs
        => \/ At("idle") \/ At("waiting") \/ (At("stopPing") /\ Running)
           \/ At("stopListen") \/ At("close") \/ At("pingDone") \/ At("listenDone")
  BY DEF IInv, TypeOK, CallerStates, Phases, Running, Nothing, Hangs, At
<1>4. /\ caller = "idle" <=> At("idle")
      /\ caller # "idle" <=> ~ At("idle")
  BY DEF At
<1> QED
  BY <1>1, <1>2, <1>3, <1>4, SearchPhases, Invariance, PTL
  DEF FairSpec, Spec, SearchReturns

-----------------------------------------------------------------------------
(* The discovery server.                                                   *)
Owns(s, p)   == stopper[s] = p
Serves(s, p) == server[s] = p

LEMMA ServerMoves ==
  ASSUME IInv, [Next]_vars, NEW s \in Server
  PROVE  /\ Owns(s, "stop") => \/ Owns(s, "stop")' /\ (~ Serves(s, "read") => ~ Serves(s, "read")')
                               \/ Owns(s, "close")'
         /\ Owns(s, "close") => Owns(s, "close")' \/ Owns(s, "serverDone")'
         /\ Owns(s, "serverDone") => Owns(s, "serverDone")' \/ Owns(s, "stopped")'
<1> USE DEF IInv, TypeOK, ServerPhases, Owns, Serves
<1>1. CASE UNCHANGED <<server, stopper>>
  BY <1>1
<1>2. Searcher \/ Broadcaster \/ Listener \/ Noise => UNCHANGED <<server, stopper>>
  BY DEF Searcher, Start, StartFails, TakeResult, Timeout, StopPing, StopListen,
         Close, PingDone, ListenDone, Broadcaster, WritePing, PingAgain, Listener,
         CheckStop, Read, ReadPacket, ReadTimesOut, Offer, Noise, serving
<1>3. ASSUME NEW q \in Server, ServerLoop(q)
      PROVE  /\ stopper' = stopper
             /\ Owns(s, "stop") /\ ~ Serves(s, "read") => ~ Serves(s, "read")'
  BY <1>3 DEF ServerLoop, ServerCheck, AnswerPing, ServerReadFails, Serve
<1>4. ASSUME NEW q \in Server, ServerOwner(q)
      PROVE  /\ \/ stopper'[s] = stopper[s]
                \/ stopper[s] = "stopped" /\ stopper'[s] = "running"
                \/ stopper[s] = "running" /\ stopper'[s] = "stop"
                \/ stopper[s] = "stop" /\ stopper'[s] = "close"
                \/ stopper[s] = "close" /\ stopper'[s] = "serverDone"
                \/ stopper[s] = "serverDone" /\ stopper'[s] = "stopped"
             /\ ~ Serves(s, "read") => ~ Serves(s, "read")'
  BY <1>4 DEF ServerOwner, StartServer, CallStop, ServerStop, ServerClose,
              ServerDone, Serve, Own
<1>5. CASE UNCHANGED vars
  BY <1>1, <1>5 DEF vars, serving
<1> QED
  BY <1>1, <1>2, <1>3, <1>4, <1>5 DEF Next

LEMMA ServerSteps ==
  ASSUME IInv, NEW s \in Server
  PROVE  /\ ServerLoop(s) => (Serves(s, "read") => ~ Serves(s, "read")')
         /\ ServerStop(s) => ~ Owns(s, "stop")'
         /\ ServerClose(s) => ~ Owns(s, "close")'
         /\ ServerDone(s) => ~ Owns(s, "serverDone")'
  BY DEF IInv, TypeOK, Owns, Serves, ServerLoop, ServerCheck, AnswerPing,
         ServerReadFails, ServerStop, ServerClose, ServerDone, Serve, Own

(* A discovery server that is told to stop stops: its read ends at the     *)
(* deadline at the latest, and the next thing it does is to look.          *)
THEOREM ServersEnd == FairSpec /\ []NobodyStuck => ServerStops
<1> SUFFICES ASSUME NEW s \in Server
             PROVE  FairSpec /\ []NobodyStuck
                      => (stopper[s] = "stop" ~> stopper[s] = "stopped")
  BY DEF ServerStops
<1>1. IInv /\ [Next]_vars =>
         /\ Owns(s, "stop") => \/ Owns(s, "stop")' /\ (~ Serves(s, "read") => ~ Serves(s, "read")')
                               \/ Owns(s, "close")'
         /\ Owns(s, "close") => Owns(s, "close")' \/ Owns(s, "serverDone")'
         /\ Owns(s, "serverDone") => Owns(s, "serverDone")' \/ Owns(s, "stopped")'
  BY ServerMoves
<1>2. IInv =>
         /\ <<ServerLoop(s)>>_vars => (Serves(s, "read") => ~ Serves(s, "read")')
         /\ <<ServerStop(s)>>_vars => ~ Owns(s, "stop")'
         /\ <<ServerClose(s)>>_vars => ~ Owns(s, "close")'
         /\ <<ServerDone(s)>>_vars => ~ Owns(s, "serverDone")'
  BY ServerSteps
<1>3. NobodyStuck =>
         /\ Serves(s, "read") => ENABLED <<ServerLoop(s)>>_vars
         /\ Owns(s, "stop") /\ ~ Serves(s, "read") => ENABLED <<ServerStop(s)>>_vars
         /\ Owns(s, "close") => ENABLED <<ServerClose(s)>>_vars
         /\ Owns(s, "serverDone") => ENABLED <<ServerDone(s)>>_vars
  BY DEF NobodyStuck, ServerNotStuck, Owns, Serves
<1>4. ServersRunOn => ServerRunsOn(s)
  BY DEF ServersRunOn
<1>5. /\ stopper[s] = "stop" <=> Owns(s, "stop")
      /\ stopper[s] = "stopped" <=> Owns(s, "stopped")
  BY DEF Owns
<1> QED
  BY <1>1, <1>2, <1>3, <1>4, <1>5, Invariance, PTL
  DEF FairSpec, Fairness, Spec, ServerRunsOn
=============================================================================
