# A TLA+ specification of cbd

cbd distributes C and C++ compiles over a cluster.  A *server* keeps a table of
*workers* and hands a worker to each *client* that wants to compile a file;
*monitors* watch.  This directory holds TLA+ models of the program
from the command line to the scheduler, TLC configurations that check them, and TLAPS proofs.

    tlc -workers 2 -config FifoScheduler.cfg MCFifoScheduler.tla
    tlapm FifoScheduler_proofs.tla

`PROJECT.json` lists the components, the runs, which lines of the source each
definition stands for, the hazards, and the theorems.

## 1. The system

| component | source | state | operations | modelled in |
|---|---|---|---|---|
| scheduler | `scheduler.go` | worker table, request queue, mutex, a one-place channel per request | `schedule`, `cancel`, `completed`, `addWorker`, `updateWorker`, `removeWorker`, `scheduleRequests` | `FifoScheduler`, seen as `Dispatch` in `FifoDispatch` |
| server, worker requests | `server.go` | two goroutines per client connection | `processWorkerRequest` | `Server` |
| server, worker connections | `server.go`, `worker.go` | connections, one reading goroutine each, the table | `updateServer`, `sendWorkerState`, `handleWorkerConnection` | `WorkerLink` |
| server, monitors | `observer.go`, `server.go`, `monitor.go` | map of observers, one goroutine per monitor | `handlePublish`, `handleMonitorConnection`, `sendWorkState`, `Connect` | `UpdatePublisher` |
| auto-discovery | `discovery.go` | two goroutines per search, one per server, six channels | `audoDiscoverySearch`, `start`, `stop`, `broadcast`, `listen`, `server` | `Discovery` |
| client | `client.go` | a state machine per build | `ClientBuildJob`, `findWorker`, `buildRemote`, `reportCompletion` | `ClientBuild` |
| worker, build service | `worker.go` | one goroutine per job in one process | `handleRequest` | `ClientBuild` |
| compile jobs | `core.go` | temporary files | `ParseArgs`, `Validate`, `MakeCompileJob`, `Preprocess`, `Compile` | `CompileJob`, `ClientBuild` |
| addresses | `net.go` | none | `Less`, `getLocalIPAddrs`, `getMatchingIP`, `NetListen` | `Addresses`, `Routing`, without `NetListen` |
| messages | `messaging.go` | a gob stream | `Send`, `Read`, `ReadX` | `Messaging` |
| utilities | `util.go` | none | `RunCmd`, `TempFile`, machine ID, GUID | outcomes in `ClientBuild` |
| command line | `cmds/cbd.go` | none | `runCompiler`, `runMonitor`, flags | `ClientBuild`, `UpdatePublisher`, in part |
| scripts | `build.sh`, `test.sh` | none | | no |

How they interact.  A client connects to the server and sends its addresses; the
server's goroutine for that connection starts a second one, the *responder*, and
calls `schedule`.  The scheduler answers on the channel of the request: "no
workers", a worker, or "queued" and later a worker.  The responder passes answers
on and tells the client every second that it is queued.  Each worker keeps a
connection on which it reports its load every five seconds; each report is an
`updateWorker`, which rescans the queue, and a lost connection is a
`removeWorker`.  After a build the client opens another connection and sends a
`CompletedJob`, which goes to `completed` and to the publisher.  The publisher
offers updates to the goroutines of the monitors.

What makes it hard: the mutex of the scheduler is held across a blocking channel
send; the goroutine that has to drain this channel takes the mutex itself when its
client has gone; the two ends of a connection learn of its loss at different times
and the server identifies peers by something that outlives connections; goroutines
are stopped through unbuffered channels while they may be in any state; nothing is
persistent, so that the table and the map have to converge after every failure.

What must hold, by component:

* scheduler: nobody waits next to a worker he could use; nobody is overtaken for
  a worker he could use; nobody gets two workers; a cancelled request gets none.
* server: the mutex is released; a client that stays gets a worker when there is
  one; goroutines of clients that went away end.
* worker connections: the table converges to the connected workers.
* monitors: no stuck monitor delays anybody; nothing of a monitor stays behind.
* discovery: every search ends and leaves nothing behind.
* client: every call ends, its exit status is that of a compiler run, the report
  names the machine that compiled, and an answer is not thrown away.
* compile jobs: the indices are those of the arguments and within them; no
  temporary file is left without a reason.
* addresses: a strict order, and the most private network that two machines share.

## 2. The modules

**FifoScheduler** is the object of `scheduler.go` under the most general callers.
`workers`, `requests`, `active`, `smutex` are the fields of the same names; the
channel `req.r` is everything ever `sent` and how much of it is `taken`, so that
properties can speak about the whole conversation.  A call that cannot block while
it holds the mutex is one step, since no other goroutine can see its middle.  The
one statement that can block there is the send at `scheduler.go:217`; therefore
`updateWorker` and `addWorker` are a step that takes the mutex and writes the
table, one step `PlaceFirst` per round of `scheduleRequests`, which waits for room
in the channel, and `EndUpdate`.  (`schedule` sends too, to a channel that is new
and empty.)  Abstracted: capacity and load to the number of free cores, the
addresses of clients and workers to the relation `CanReach` (which `Routing` takes
apart), the speed to a number of a small ordered set; `findFreeWorker` walks a Go map, whose order is
unspecified, so that any of the fastest usable workers may come out.

**Dispatch** is what a client may expect of a scheduler: it asks once, and is
refused, served or put in line, in order of arrival among those that can be served,
and the line is served before anything else happens.  It has no mutex, channel,
load or speed.  **FifoDispatch** reads it off the scheduler: the sets of workers
that are there and that have a free core, the queue, and the last answer of each
conversation.  A round of `PlaceFirst` is an `Assign`; everything that takes or
releases the mutex, or reads a channel, is a stutter.

**Addresses** holds the pure part of `net.go`: an address is its first octet, the
number formed by the others, and the size of its network.  **Routing** puts it under
the scheduler: `CanReach` is then what `getMatchingIP` finds, and each answer has an
address.

**Server** instantiates `FifoScheduler` as `Sch` and adds the two goroutines of
each request (`handler`, `responder`) and the `client` at the other end.  Each of
its steps that touches the scheduler is written as a step of `Sch`, so that the
invariants of the scheduler hold in the server by the way it is composed; what the
runs and proofs ask is what the goroutines make of its answers.  `client` tells the one
thing that the properties need: whether it waits, has a worker, or has gone.  Every
client leaves when it is told that there are no workers; `Leavers` are those that may
leave at any time.

**WorkerLink** is about which machine IDs are in the table.  Connections are used
once; `link` is what the network does, `mine` what the worker believes, `reader`
where the server's goroutine is.  `mail` counts the reports under way.  Machines
and the server crash and restart, and a connection breaks at any time.  A worker also
gives up a connection that is good, when its reports are not taken within the write
deadline (`WriteTimesOut`); such a connection is "left" until somebody closes it, and
the server goes on reading what it holds.

**UpdatePublisher** has unbuffered channels only: a send and its receive are one
step.  `offering` and `remaining` are the inner loop of `handlePublish`, whose
`select` with `default` is the two cases of `Offer`.  A monitor program has one
connection at a time and sends the same identifier on each (`hostOf`).

**Discovery** is one search after the other by one caller, and servers that are
started and stopped.  `caller` is the position in `audoDiscoverySearch` and `stop`.
A packet is a valid answer of some server, or `Junk`; any packet may be lost, an
answer may come after its search, to a port handed out again.

**CompileJob** holds the pure part of `core.go`: the step of the loop of `ParseArgs`,
`Validate`, and the indices that are stored to.  **Messaging** says which reader
accepts which message.  **ClientBuild** uses both: one call of the compiler from its
arguments to its exit status.  `pc` is where the client process is; `serving` is
where the goroutine is that serves it in a worker, whose process is `live`; `answer`
and `reply` are messages under way.  The server may answer anything it can answer, or
nothing; a worker fails and starts at any time; a panic in one goroutine (an index out
of range, a temporary file that could not be opened) is `Down` for all goroutines of
that worker.  A client is started with arguments and an environment out of `Setup`,
which includes addresses of the wrong kind of program.  The compiler is `Result`: it
fails, or it succeeds and the object code can be read back or not.  `runs` and `files`
are the history of compiler runs and the temporary files that exist.

`MC<module>.tla` gives values to the constants.  `<module>_proofs.tla` holds the
proofs.  Each component module also holds, next to the definitions they replace,
the mistakes against which its properties were tested ("Mutant: ..."): they are not
used by any specification.

## 3. The runs

| run | what it asks | instance |
|---|---|---|
| `scheduler` | the queue is exact, no lost wakeup, no overtaking, the answers are legal, cancelled requests stay silent, addresses stay private, and all of it is a `Dispatch` | 3 requests, 2 workers with several networks; `r1` reaches only `w1`, `r3` only `w2`; 83,131 states |
| `requests` | clients that may leave: those that stay have a listener and are not abandoned, goroutines of the others end; clients that stay: the mutex is released, a report serves the queue; whoever leaves: a worker that was handed out arrives; nobody is stuck | 2 clients, 1 worker; 22,853 states |
| `cancel_blocks` | violated: the responder that cancels leaves its loop | same |
| `orphan` | violated: a cancelled request is not in the queue | same |
| `link` | the table is watched and converges | 2 machines, 3 connections, 1 report under way; 338,064 states |
| `link_drop` | violated: only missing workers are dropped | same |
| `publisher` | the map is clean, nobody is stuck or waits for a stuck monitor, updates arrive | 3 connections, two of one program, 2 producers; 22,728 states |
| `publisher_overwrite` | violated: the entry of a connected monitor is removed only by its own goroutine | 2 connections of one program |
| `discovery` | searches and stops end, nothing is left behind, nobody is stuck | 1 server, 2 ports; 11,462 states |
| `discovery_hang` | violated: every search returns | 1 server, 1 port |
| `build` | calls of the compiler end with the status of a compiler run, report the builder, do not repeat, clean up; no client is stuck | 2 clients, 1 worker, 7 command lines, 18 environments; 261,355 states |
| `exit_status` | violated: a client that may not compile and found no worker ends in an error | same |

Why these bounds.  Overtaking and removal from the middle of the queue need three
requests of which an older one cannot use the worker a younger one can: hence two
workers and an incomplete `CanReach`.  The deadlock of the server needs one client;
the second one shows that it hits others, and lets a client wait behind another.
A stale goroutine needs one machine with two connections, and the third connection
lets it happen twice or to two machines.  Two monitors under one identifier and one
under another make a round visit two entries while one is being replaced.  A full
result buffer in a search needs two answers, which one server gives to two pings.
The networks of `scheduler` contain a pair that shares a private and a public network,
where the numerical order would choose the public one, and a loopback address
everywhere.  The second client of `build` compiles from standard input, which makes its
job the one whose goroutine takes the worker down while the first one is at any of its
steps; the command lines have `-o` twice, last and missing, no `-c`, no input, and an empty
argument.
The safety properties are proved for every instance (section 5).  For `Server` and
`UpdatePublisher` this includes type correctness, which their runs leave out:
`ServerTypeCorrect` and `PublisherTypeCorrect` stand for it.

Bounds of the model itself: `MaxMail` (reports under way), the finite sets of
connections, and `Space`, `Speed`.  Each connection and each request is used once,
so that runs with `CHECK_DEADLOCK FALSE` (those where clients may leave) are the ones where
the code really can stop.

**The violated properties** quote comments and documents of the code and are explained under
`findings` in `PROJECT.json`:

* `CancelLeavesLoop` (`server.go:256`): the responder that cancels needs the mutex,
  while its holder sends to the channel that only this responder reads.  The whole
  server stands still from then on (`WedgeIsFinal`).
* `CancelledIsRemoved` (`scheduler.go:39`): the responder runs before `schedule`
  does; its cancel may find nothing, and the request is queued afterwards.
* `OnlyMissingAreDropped` (`server.go:193`): the goroutine of an old connection
  removes a worker that has already registered on a new one: the read of the old one
  fails, or it times out, for example because
  the worker gave the connection up.  The next report repairs
  it (`StableWorkerRegistered` holds), but the speed estimate is lost.  The property
  speaks of connections that are still up after the step, so that a restart of the
  server, which forgets everything, does not count.
* `DeregistersItself` (`server.go:209`, `monitor.go:89`): the same with monitors, and
  nothing repairs it.  The old goroutine is woken by an update, fails to write it to
  the monitor that has left, and removes the identifier under which the new connection
  of the same program has been registered since.  A late *registration* by the old
  goroutine (`server.go:162`) overwrites the entry of the new one as well; the property
  is not about that, but `OnlyNamesakesOverwrite` is.
* `SearchReturns` (`worker.go:91`): `stop` is deferred before the error of `start`
  is looked at.  Where sockets can be opened it holds (`OpenSocketsSuffice`).
* `NoLocalFails` (`README.md:91`): with `CBD_NO_LOCAL` and no worker the client leaves
  with the return code of an empty result, which is 0, and no output file.

For each of them a theorem of section 5 says when it can happen and how far the damage goes.

**Nobody is stuck.**  Four runs check an invariant `NobodyStuck`.  TLC's own deadlock
check sees only states in which the whole system stops, and it has to be off where
clients may leave; a single goroutine or client that no message, deadline or error
path can move any more would go unnoticed.  `NobodyStuck` says for each of them
when it has a step to take:

* in `Server`, a responder in its loop, one that waits for its handler, a call of
  `schedule` or `cancel` when the mutex is free, an answer in the buffer, a heartbeat
  to a client that has gone, and the placing loop when the channel it sends to has room;
* in `ClientBuild`, a client anywhere between parsing and its exit;
* in `UpdatePublisher`, the publisher inside a round whatever the monitors do, and
  between two rounds everybody who waits for it;
* in `Discovery`, `stop` at each of its positions when the goroutine it signals is
  where it can be signalled, a listener whatever its socket holds, and a server.

The liveness theorems take this invariant as their hypothesis.

`NoGoroutineLeak` and `LeftMonitorForgotten` are stated with what the code does
deliver in view of this: the first assumes that the mutex is free again and again,
the second speaks of the entry in the map.  `MutexReleased` and `ReportServesWaiting`
assume that all clients stay.  `StatusIsEarned` leaves out clients that may not
compile themselves, and calls that end before a job exists: `MakeCompileJob` also
has an error path with return code 0 (`core.go:205`).  It demands that a
success leave object code in the file exactly when the run it is taken from has
delivered some.  It does not forbid an empty file: a result whose object code
the worker could not read back (`worker.go:78`) arrives without an error, and the
client writes an empty output file and ends with 0 (`output` is "lost"); the documents
promise nothing here.  `SuccessesAccountedFor` in section 5 lists all that an exit
status of zero can mean, this and the excluded cases included.

### Fairness

Goroutines that can run keep running (weak fairness of their steps).  Strong
fairness is used where a step competes: for the mutex, because `sync.Mutex` hands
over to a goroutine that starves; for a case of a `select`, because Go chooses among
the ready cases at random; for a write to a connection whose peer has gone, because
the network does not swallow writes for ever.  In `Discovery`, `StopPing` is strongly
fair because a stop that is pending when the broadcaster starts to wait beats a timer
of a second, and `ReadTimesOut` because junk does not arrive every second for ever.
`ReadAnswer` is, because a socket hands out its packets in the order of their arrival
and an answer is not overtaken for ever.  Pings are written in the end.  Timers fire.  No fairness on clients that come
or leave, on worker reports, on failures and repairs, and, in the liveness properties
of the publisher other than `LeftMonitorForgotten`, on writes to monitors
(`StuckWrites`).

In `ClientBuild` only the steps of the client process are weakly fair, and the passing
of its `quittime`: a process that can run does, compilers end, and each read has a
deadline, so that `FindFails` and `AwaitFails` can happen whatever the others do.
Nothing obliges a server to answer or a worker to run.

`WorkerLink` and `UpdatePublisher` leave the scheduler's mutex out.  The fairness of
`ReadReport` and `RemoveWorker` (`LostWorkerForgotten`, `StableWorkerRegistered`) and
that of `Publish(Ticker)` (`EntryIsServed`, `LeftMonitorForgotten`: `sendWorkState`
calls `getWorkerState` before it publishes) therefore assume that the mutex is free
again and again.  The run `cancel_blocks` shows a state of the server in which it never
is again: after it nothing obliges these steps to happen, and the four properties are
not claimed.
`AssignmentArrives` needs no such assumption.

## 4. Only model-checked

Every safety property that the runs check is proved (section 5), except `NobodyStuck`.
What is left to TLC, and why:

* The provers do not reason about `ENABLED`.  The liveness theorems therefore have
  `[]NobodyStuck` as a hypothesis, and `NobodyStuck` itself is left to the runs
  `requests`, `build`, `publisher` and `discovery`.  From it, fairness and the
  invariants the rest is proved.
* An induction over data cannot be instantiated.  The steps of such an argument are
  theorems, the induction is TLC's: `MutexReleased` and `ReportServesWaiting`
  (over the length of the queue; `PlacingGoesOn` is one round), `ClientEnds` (over the
  command line; `ClientsEnd` is what follows parsing), `LostWorkerForgotten` and
  `StableWorkerRegistered` (over the reports under way), and `ProducersNotBlocked` (over
  the hosts that remain in a round).  The last is a hypothesis of the other liveness
  theorems of the publisher.

## 5. Proved

For every value of the constants that satisfies the assumption of the module:

* `FifoScheduler_proofs`: `TypeCorrect`, `QueueCorrect`, `AnswersCorrect`,
  `NoLostWakeup`, `FirstComeFirstServed`, `CancelledStaysSilent`.  The inductive
  invariant is the conjunction of the four invariants that `scheduler` checks.
  `AnswerProtocol` is not inductive alone: that a worker is appended only to
  "queued" needs `QueueIsWaiting`, which in turn needs the removal from the middle
  of a sequence (`RemoveAtFacts`, `RemoveAtMembers`).  `WorkConserving` at the end
  of a rescan is the exit condition of the loop together with the fact that the
  search finds a fastest worker whenever a usable one exists (`FastestExists`,
  `SearchIsComplete`), which needs that the table is finite and speeds are not
  negative.  `NoOvertaking` for a request that is answered at once is
  `WorkConserving` before the step; for one taken from the queue it is the choice
  of the first that can be served.  `QueueKeepsOrder` says what this choice must not
  cost: whoever leaves from the middle, the others keep their places (`QueueChanges`:
  a queue only grows at its end, or loses one member).
* `Server_proofs`, safety: `SchedulerInvariants`, `ServerKeepsOrder`, and, composed with
  the refinement of `FifoDispatch`, `ServerDispatches` carry the results about the
  scheduler over to the server.
  `ServerTypeCorrect`, `ClientsNotAbandoned` and `QueuedClientsHaveListeners` rest on
  an invariant (`GInv`) that relates the two program counters to the answers taken.
  A second one, `Conversation`, relates them to everything sent, and gives:
  `ServedWithLastAnswer`; `OthersStay`, so that the premise of `MutexReleased`
  is met where nobody may leave; and `OnlyLeaversAreOrphaned`, that the requests
  `CancelledIsRemoved` is about are those of clients that have hung up.
  `TakenWorkersArrive`: an assigned worker is on the channel, in the hands of the
  responder, or delivered (`HandedOver`), unless the client has gone.
* `Server_proofs`, liveness: `GoroutinesEnd` is `NoGoroutineLeak`, for any number of
  clients.  `Moves` is a table of where each goroutine can go from where it is; each
  stretch of the way of an abandoned responder (its loop, the wait for its answer, its
  cancel, its report) is a lemma by weak or strong fairness (`LoopEnds`,
  `HandlerSchedules`, `CancelEnds`, `ReportEnds`), and the stretches are chained by
  temporal logic.  `PlacingGoesOn`: while clients stay, the blocking send
  always finds room in the end (`BufferDrains`), the request it was for is served
  (`GrantedIsServed`), and a loop with nothing left to place releases the mutex.
  `AssignmentsArrive` is `AssignmentArrives`, with no hypothesis about the mutex or about
  who leaves: a worker that was handed out is the last thing on its channel
  (`GrantedStays`), and its responder, which has not left the loop while its client is
  there, takes it off and sends it (`GrantedArrives`).
* `Server_proofs`, the deadlock.  `Wedged(r)` describes the state of the server behind
  `CancelLeavesLoop` and `CancelledIsRemoved`: the placing loop is before a full channel
  whose responder has left its loop.  `WedgeIsFinal`: no step of anybody leaves it.
  `OnlyLeaversWedge`: the client of `r` may leave and has left.
  `PlacingGoesOnUnlessWedged`: whoever leaves, a round of the placing loop ends or is
  wedged, so that the mutex is lost inside a round in no other way.  It rests on
  `ReadDrains` (a responder in its loop empties its channel) and on `NextIsUnique` (which
  request the loop is at does not change before it is served).
  `OrphansAreScheduledLate`: a request without a reader enters the queue only by a
  `schedule` that comes after its `cancel`.
* `WorkerLink_proofs`: `LinkTypeCorrect`, `NoGhosts`, and `WellWorkersLoseToTheirPast`:
  a worker whose connection is up and read loses its entry only to the goroutine of
  another connection of the same machine, one that is broken or has been given up by
  the worker.  It needs `OneGoodConnection`:
  a machine has at most one connection that is up, and this is the one it uses.
* `UpdatePublisher_proofs`: `PublisherTypeCorrect`, `NothingLeftBehind`,
  `OnlyNamesakesOverwrite` (for each connection, it keeps its entry while no other
  one has come with its identifier, whether to remove or to register late) and its
  consequence `UniqueIdentifiersSuffice`: with one identifier per connection every
  monitor that is served has its entry (`OwnEntry`), and the violated property
  `DeregistersItself` holds.
  Liveness: `RegistrationsEnd`, `EntriesAreServed`, `LeftMonitorsForgotten`.  Rounds begin
  again and again because the ticker has news (`RoundsGoOn`); between two of them the
  publisher is free, and strong fairness lets whoever waits for it meet it
  (`MeetsPublisher`); a round visits every host of the map, so that a monitor at its
  channel cannot be passed over (`GetsUpdate`).  A monitor that has left is woken by an
  update, its write errs, and it de-registers.
* `Discovery_proofs`: `DiscoveryTypeCorrect`, `StopIsComplete`, `SocketsSafe`.  The
  invariant says, for each position of `stop`, where the two goroutines are; a
  search whose sockets could not be opened is a second case of the first position.
  `FailedSearchHangs`: this second case is never left; `OpenSearchesAreHeard`: it is
  entered in no other way.
  Liveness: `SearchEnds` and `ServersEnd`, position by position (`SearchPhases`); a
  `stop` that waits for a listener in the middle of a read relies on the read ending,
  with junk by its deadline and with an answer by `ReadAnswer`.  `OpenSocketsSuffice`
  combines this with the second case: `SearchReturns` fails only after `StartFails`.
* `FifoDispatch_proofs`: `SchedulerDispatches`.  The invariants of the scheduler give
  what the mapping needs: a request in the queue was last told "queued", so that the
  worker sent to it is the outcome `Assign` asks for; that the line is settled when a
  call begins is `WorkConserving`.
* `Routing_proofs`: `OrderIsPrivacy`, `LessIsStrictOrder`, `AnswersStayPrivate`.  The
  last rests on the invariant that a worker in an answer can be reached, and on a
  property of the first hit in two sorted lists (addresses in one network have one
  first octet, hence one rank).
* `ClientBuild_proofs`: `BuildTypeCorrect`, `ArgumentsParsed`, `AcceptedJobsHaveOutput`,
  `ExitStatusIsEarned`, `ReportsNameTheBuilder`, `AnsweredMeansDone`, `NoStrayFiles`.
  The invariant says what is known at each position of the client: the job exists and
  its indices have been stored to (`Phases`), the name under which it will report is
  that of the machine it talks to (`Names`), a run stands behind each result, and no
  local run exists before the local build ends (`Results`).  `AnsweredMeansDone` also
  needs `ReplyAccepted`: the reader of results takes the message that workers send,
  although it names another identifier.  `ArgumentsParsed` is an induction over the
  steps of `ReadArgument`: a new index is larger than all before it (`ReadOne`).
  The invariant `Outcome` adds what a client leaves behind.  `OutputComesFromCompiler`:
  object code in the output file was made by a run for this client; an empty file comes
  from a run in a worker that could not read its output back, never from a run in the
  client; a file cut short shows in the exit status.  `SuccessesAccountedFor`: an exit
  status of zero of a compile means that the object code is there; or that the worker
  lost it and the file is empty (`worker.go:78`); or that a run in the client lost it and
  there is no file (`core.go:285`); or that nothing was written and nothing reported,
  because the job could not be made (`core.go:188`, `core.go:205`) or, as `NoLocalFails`
  shows, because the client must not compile.  The last three are losses of an error
  that the code has; the theorem says that there are no others.
  `ClientsEnd`: a client that has parsed its arguments ends, because
  each of its steps leads to a later position (`StepGoesOn`), except for another wait
  in the queue before the ten seconds are over; no other process moves it
  (`OthersDoNotMove`); and at no position is it without a step.

Assumptions: `SchedulerAssumption` (finitely many workers; `NoID` is no worker;
speeds are natural numbers: sizes are not negative and a build takes time, so that
`computeCompileSpeed` gives no negative value), `ServerAssumption`, `LinkAssumption`,
`PublisherAssumption`, `DiscoveryAssumption`, `RoutingAssumption` (both address lists
are sorted and without loopback, as `getLocalIPAddrs` leaves them), `BuildAssumption`
(a client is not also a worker or the server of the cluster).  TLC evaluates them in every run.

## 6. Not modelled

* True load.  A worker that is handed out keeps its free cores in the table until
  it reports again, so one free core goes to every request of up to five seconds.
  The code promises nothing about it, and no property does.
* Speeds as floating-point numbers: a `CompileTime` of zero gives `+Inf` or `NaN`
  (`monitor.go:37`), and a worker of speed `NaN` is never chosen again.
* Data in place: `findFreeWorker` sorts the address list of the request, which
  `getLocalIPAddrs` has sorted already.
* Whether two machines with the same private network are connected
  (`scheduler.go:302`): no part of the program knows.
* `NetListen`, IPv6 addresses, and IPv4 masks shorter than eight bits.
* A worker that is a client as well: `worker` compares machines by name, and
  `Client` and `Worker` are disjoint.
* Ports.  With `CBD_POTENTIAL_HOST` set and no port in `CBD_SERVER`, reports fail to
  connect (`client.go:33`); in the model any report may.
* What the client runs besides compiling a job: `RunCmd` for command lines that are no
  compile, and the preprocessor, are outcomes only and leave no entry in `runs`.
* The log file of `runCompiler`, which can end the process before anything else.
* Machine ID, GUID, names of temporary files: system calls and random numbers.
* A ping that can never be written (`discovery.go:302`): the broadcaster would spin
  and never see the stop.
* Formatting, logging, the table of commands, scripts.

## 7. Plan

Exists: `FifoScheduler`, `Server`, `WorkerLink`, `UpdatePublisher`, `Discovery`,
`Dispatch` and its refinement, `Addresses` and `Routing`, `CompileJob`, `Messaging` and
`ClientBuild`, with their runs, proofs of all safety properties, and proofs of
liveness where no induction over data is needed.

Left, in this order:

1. Speeds with the values that floating-point division can give (`NaN`, `+Inf`), for
   `findFreeWorker` and `updateWorkerStats`.
2. A search during which no ping can be written, as a run of `Discovery`.
3. `Server` with the clients of `ClientBuild` in place of its own.
4. `NetListen`.
