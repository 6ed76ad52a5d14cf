----------------------------- MODULE Discovery -----------------------------
(***************************************************************************)
(* Auto-discovery, discovery.go: audoDiscoverySearch starts a client that  *)
(* pings in one goroutine and listens in another, waits for an answer or a *)
(* timeout, and stops the two; a discovery server answers the pings.       *)
(*                                                                         *)
(* All the stop and done channels are unbuffered, so that a send and its   *)
(* receive are one step of both goroutines.  The network loses packets at  *)
(* will.  A failed write of a ping is retried at once: it is no step here. *)
(***************************************************************************)
EXTENDS Naturals

CONSTANTS
  Server,     \* discovery servers, named by the address that they announce
  Port,       \* UDP ports that the system hands out to searches
  NoServer, NoPort,
  Junk        \* any packet that is not a valid DISC_SERVER packet

ASSUME DiscoveryAssumption ==
  /\ NoServer \notin Server /\ Junk \notin Server \cup {NoServer}
  /\ NoPort \notin Port

VARIABLES
  caller,       \* where audoDiscoverySearch and stop are
  broadcaster,  \* the goroutine that pings
  listener,     \* the goroutine that listens
  port,         \* port of the listening socket, NoPort when it is not open
  socket,       \* packets that wait in the listening socket
  offered,      \* the answer that listen holds
  result,       \* the buffer of c.result
  found,        \* what the last search returned, NoServer for an error
  server,       \* the goroutine of a discovery server
  stopper,      \* where its owner is: running it or stopping it
  pings         \* ports named in the pings that wait in a server's socket

searching == <<caller, broadcaster, listener>>
answers   == <<offered, result, found>>
serving   == <<server, stopper, pings>>
vars == <<searching, port, socket, answers, serving>>

CallerStates  == {"idle", "waiting", "stopPing", "stopListen", "close",
                  "pingDone", "listenDone"}
BroadcasterStates == {"off", "write", "wait", "done"}
ListenerStates == {"off", "check", "read", "offer", "done"}
ServerStates   == {"off", "check", "read", "done"}
Open           == {"running", "stop", "close"}
StopperStates  == Open \cup {"serverDone", "stopped"}

Call(from, to)      == caller = from /\ caller' = to
Broadcast(from, to) == broadcaster = from /\ broadcaster' = to
Listen(from, to)    == listener = from /\ listener' = to
Serve(s, from, to)  == server[s] = from /\ server' = [server EXCEPT ![s] = to]
Own(s, from, to)    == stopper[s] = from /\ stopper' = [stopper EXCEPT ![s] = to]

-----------------------------------------------------------------------------
(* newDiscoveryClient: a client of its own, with its sockets and channels. *)
Start ==
  /\ Call("idle", "waiting")
  /\ Broadcast("off", "write")
  /\ Listen("off", "check")
  /\ port' \in Port
  /\ result' = NoServer /\ found' = NoServer
  /\ UNCHANGED <<socket, offered, serving>>

(* A socket cannot be opened.  The search defers c.stop() before it looks  *)
(* at the error of start, which has launched no goroutine then.            *)
StartFails ==
  /\ Call("idle", "stopPing")
  /\ result' = NoServer /\ found' = NoServer
  /\ UNCHANGED <<broadcaster, listener, port, socket, offered, serving>>

TakeResult ==
  /\ Call("waiting", "stopPing")
  /\ result # NoServer
  /\ found' = result /\ result' = NoServer
  /\ UNCHANGED <<broadcaster, listener, port, socket, offered, serving>>

Timeout ==
  /\ Call("waiting", "stopPing")
  /\ UNCHANGED <<broadcaster, listener, port, socket, answers, serving>>

(* stop: signal both goroutines, close the sockets, wait for both.         *)
(* Mutant: close the sockets once the broadcaster has been told.           *)
StopPingThenClose ==
  /\ Call("stopPing", "close")
  /\ Broadcast("wait", "done")
  /\ UNCHANGED <<listener, port, socket, answers, serving>>

StopPing ==
  /\ Call("stopPing", "stopListen")
  /\ Broadcast("wait", "done")
  /\ UNCHANGED <<listener, port, socket, answers, serving>>

(* Mutant: listen offers its answer without a look at stopListen.          *)
StopListenBetweenReads ==
  /\ Call("stopListen", "close")
  /\ Listen("check", "done")
  /\ UNCHANGED <<broadcaster, port, socket, answers, serving>>

StopListen ==
  /\ Call("stopListen", "close")
  /\ Listen("check", "done") \/ Listen("offer", "done")
  /\ UNCHANGED <<broadcaster, port, socket, answers, serving>>

Close ==
  /\ Call("close", "pingDone")
  /\ port' = NoPort /\ socket' = {}
  /\ UNCHANGED <<broadcaster, listener, answers, serving>>

(* Mutant: wait for the broadcaster only.                                  *)
PingDoneOnly ==
  /\ Call("pingDone", "idle")
  /\ Broadcast("done", "off")
  /\ UNCHANGED <<listener, port, socket, answers, serving>>

PingDone ==
  /\ Call("pingDone", "listenDone")
  /\ Broadcast("done", "off")
  /\ UNCHANGED <<listener, port, socket, answers, serving>>

ListenDone ==
  /\ Call("listenDone", "idle")
  /\ Listen("done", "off")
  /\ UNCHANGED <<broadcaster, port, socket, answers, serving>>

-----------------------------------------------------------------------------
(* broadcast: a ping reaches some of the servers whose socket is open.     *)
WritePing ==
  /\ Broadcast("write", "wait")
  /\ \E reached \in SUBSET {s \in Server : stopper[s] \in Open} :
       pings' = [s \in Server |->
                   IF s \in reached THEN pings[s] \cup {port} ELSE pings[s]]
  /\ UNCHANGED <<caller, listener, port, socket, answers, server, stopper>>

PingAgain ==
  /\ Broadcast("wait", "write")
  /\ UNCHANGED <<caller, listener, port, socket, answers, serving>>

-----------------------------------------------------------------------------
(* listen: a pending stop is seen before a read ...                        *)
CheckStop ==
  /\ Listen("check", "read")
  /\ caller # "stopListen"
  /\ UNCHANGED <<caller, broadcaster, port, socket, answers, serving>>

(* ... which lasts until a server packet or the deadline; every other      *)
(* packet restarts the read with a new deadline.                           *)
(* Mutant: take every packet for an answer.                                *)
ReadAnyPacket(p) ==
  /\ Listen("read", "offer")
  /\ p \in socket
  /\ socket' = socket \ {p} /\ offered' = p
  /\ UNCHANGED <<caller, broadcaster, port, result, found, serving>>

ReadPacket(p) ==
  /\ listener = "read"
  /\ p \in socket
  /\ socket' = socket \ {p}
  /\ \/ p = Junk /\ UNCHANGED <<listener, offered>>
     \/ p # Junk /\ Listen("read", "offer") /\ offered' = p
  /\ UNCHANGED <<caller, broadcaster, port, result, found, serving>>

ReadTimesOut ==
  /\ Listen("read", "check")
  /\ socket = {}
  /\ UNCHANGED <<caller, broadcaster, port, socket, answers, serving>>

(* The buffer of c.result holds one answer; the next one has to wait.      *)
Offer ==
  /\ Listen("offer", "check")
  /\ result = NoServer
  /\ result' = offered
  /\ UNCHANGED <<caller, broadcaster, port, socket, offered, found, serving>>

(* Anybody may send a packet to the port of a search.                      *)
Noise ==
  /\ port # NoPort
  /\ socket' = socket \cup {Junk}
  /\ UNCHANGED <<searching, port, answers, serving>>

-----------------------------------------------------------------------------
(* server: look for a stop, read, answer to the port that the ping names.  *)
ServerCheck(s) ==
  /\ Serve(s, "check", "read")
  /\ stopper[s] # "stop"
  /\ UNCHANGED <<searching, port, socket, answers, stopper, pings>>

AnswerPing(s, p) ==
  /\ Serve(s, "read", "check")
  /\ p \in pings[s]
  /\ pings' = [pings EXCEPT ![s] = @ \ {p}]
  /\ \/ p = port /\ socket' = socket \cup {s}
     \/ UNCHANGED socket
  /\ UNCHANGED <<searching, port, answers, stopper>>

(* A deadline, an invalid packet or an error only ends this read.          *)
(* Mutant: an error ends the server.                                       *)
ReadErrorEndsServer(s) ==
  /\ Serve(s, "read", "done")
  /\ UNCHANGED <<searching, port, socket, answers, stopper, pings>>

ServerReadFails(s) ==
  /\ Serve(s, "read", "check")
  /\ UNCHANGED <<searching, port, socket, answers, stopper, pings>>

(* newDiscoveryServer, and stop, which its owner calls once.               *)
StartServer(s) ==
  /\ Own(s, "stopped", "running")
  /\ Serve(s, "off", "check")
  /\ UNCHANGED <<searching, port, socket, answers, pings>>

CallStop(s) ==
  /\ Own(s, "running", "stop")
  /\ UNCHANGED <<searching, port, socket, answers, server, pings>>

ServerStop(s) ==
  /\ Own(s, "stop", "close")
  /\ Serve(s, "check", "done")
  /\ UNCHANGED <<searching, port, socket, answers, pings>>

ServerClose(s) ==
  /\ Own(s, "close", "serverDone")
  /\ pings' = [pings EXCEPT ![s] = {}]
  /\ UNCHANGED <<searching, port, socket, answers, server>>

ServerDone(s) ==
  /\ Own(s, "serverDone", "stopped")
  /\ Serve(s, "done", "off")
  /\ UNCHANGED <<searching, port, socket, answers, pings>>

-----------------------------------------------------------------------------
Init ==
  /\ caller = "idle" /\ broadcaster = "off" /\ listener = "off"
  /\ port = NoPort /\ socket = {}
  /\ offered = NoServer /\ result = NoServer /\ found = NoServer
  /\ server = [s \in Server |-> "off"]
  /\ stopper = [s \in Server |-> "stopped"]
  /\ pings = [s \in Server |-> {}]

Searcher ==
  \/ Start \/ StartFails \/ TakeResult \/ Timeout
  \/ StopPing \/ StopListen \/ Close \/ PingDone \/ ListenDone
Broadcaster == WritePing \/ PingAgain
Read       == \E p \in Server \cup {Junk} : ReadPacket(p)
ReadAnswer == \E p \in Server : ReadPacket(p)
Listener == CheckStop \/ Read \/ ReadTimesOut \/ Offer
ServerLoop(s) ==
  \/ ServerCheck(s) \/ (\E p \in Port : AnswerPing(s, p)) \/ ServerReadFails(s)
ServerOwner(s) ==
  StartServer(s) \/ CallStop(s) \/ ServerStop(s) \/ ServerClose(s) \/ ServerDone(s)

Next ==
  \/ Searcher \/ Broadcaster \/ Listener \/ Noise
  \/ \E s \in Server : ServerLoop(s) \/ ServerOwner(s)

Spec == Init /\ [][Next]_vars

ServerRunsOn(s) ==
  /\ WF_vars(ServerLoop(s)) /\ WF_vars(ServerStop(s))
  /\ WF_vars(ServerClose(s)) /\ WF_vars(ServerDone(s))

ServersRunOn == \A s \in Server : ServerRunsOn(s)

(* Goroutines keep running, timers fire, writes succeed in the end.  A     *)
(* stop that is pending when broadcast starts to wait wins over the timer, *)
(* which has a second to go.  A socket hands out its packets in order, so  *)
(* that an answer is not overtaken for ever, and junk does not arrive      *)
(* every second for ever, so that some read of listen meets its deadline.  *)
Fairness ==
  /\ WF_vars(TakeResult \/ Timeout) /\ SF_vars(StopPing) /\ WF_vars(StopListen)
  /\ WF_vars(Close) /\ WF_vars(PingDone) /\ WF_vars(ListenDone)
  /\ WF_vars(Broadcaster)
  /\ WF_vars(CheckStop) /\ WF_vars(Read) /\ SF_vars(ReadTimesOut) /\ WF_vars(Offer)
  /\ SF_vars(ReadAnswer)
  /\ ServersRunOn

FairSpec == Spec /\ Fairness

-----------------------------------------------------------------------------
(* In particular a search returns the address of a server or an error.     *)
TypeOK ==
  /\ caller \in CallerStates
  /\ broadcaster \in BroadcasterStates
  /\ listener \in ListenerStates
  /\ port \in Port \cup {NoPort}
  /\ socket \subseteq Server \cup {Junk}
  /\ {offered, result, found} \subseteq Server \cup {NoServer}
  /\ server \in [Server -> ServerStates]
  /\ stopper \in [Server -> StopperStates]
  /\ pings \in [Server -> SUBSET Port]

(* stop (discovery.go:275) leaves nothing behind: when a search returns,   *)
(* its two goroutines have ended and its sockets are closed.               *)
StopLeavesNothing ==
  caller = "idle" => /\ broadcaster = "off" /\ listener = "off"
                     /\ port = NoPort /\ socket = {}

(* The two stop functions close a socket only when no goroutine can use it *)
(* any more: what was started with it has been told to end and will not    *)
(* read or write again.                                                    *)
ClosedSocketUnused ==
  /\ port = NoPort => broadcaster \in {"off", "done"} /\ listener \in {"off", "done"}
  /\ \A s \in Server :
       stopper[s] \in {"serverDone", "stopped"} => server[s] \in {"off", "done"}

(* Where the code waits for no other goroutine, or the one it waits for is *)
(* there, it has a step to take: a listener reads whatever its socket      *)
(* holds, stop finds each goroutine at a receive whatever that one was     *)
(* doing, and the server gets from any read to the next look at its stop.  *)
SearchNotStuck ==
  /\ caller = "waiting" => ENABLED <<TakeResult \/ Timeout>>_vars
  /\ caller = "stopPing" /\ broadcaster = "wait" => ENABLED <<StopPing>>_vars
  /\ caller = "stopListen" /\ listener # "read" => ENABLED <<StopListen>>_vars
  /\ caller = "close" => ENABLED <<Close>>_vars
  /\ caller = "pingDone" => ENABLED <<PingDone>>_vars
  /\ caller = "listenDone" => ENABLED <<ListenDone>>_vars

GoroutinesNotStuck ==
  /\ broadcaster \in {"write", "wait"} => ENABLED <<Broadcaster>>_vars
  /\ listener = "read" =>
       /\ socket = {} => ENABLED <<ReadTimesOut>>_vars
       /\ socket # {} => ENABLED <<Read>>_vars
       /\ socket \cap Server # {} => ENABLED <<ReadAnswer>>_vars

ServerNotStuck(s) ==
  /\ server[s] = "read" => ENABLED <<ServerLoop(s)>>_vars
  /\ stopper[s] = "stop" /\ server[s] # "read" => ENABLED <<ServerStop(s)>>_vars
  /\ stopper[s] = "close" => ENABLED <<ServerClose(s)>>_vars
  /\ stopper[s] = "serverDone" => ENABLED <<ServerDone(s)>>_vars

NobodyStuck ==
  SearchNotStuck /\ GoroutinesNotStuck /\ \A s \in Server : ServerNotStuck(s)

(* A search that could open its sockets returns, whatever its goroutines   *)
(* are doing when the answer or the timeout comes: pinging, waiting,       *)
(* reading, or holding one more answer that nobody will take.              *)
OpenSearchReturns == caller = "waiting" ~> caller = "idle"

(* A stop of the discovery server ends (discovery_test.go,                 *)
(* TestDiscoveryStop), whatever the server is reading at that time.        *)
ServerStops == \A s \in Server : stopper[s] = "stop" ~> stopper[s] = "stopped"

(* worker.go:91, updateServer "will do it's best to maintain a connection  *)
(* to the main server": every search ends, so that a worker that looks for *)
(* the server goes on to connect or to try again.                          *)
SearchReturns == caller # "idle" ~> caller = "idle"
=============================================================================
