----------------------------- MODULE WorkerLink -----------------------------
(***************************************************************************)
(* How the server comes to know the workers: updateServer and              *)
(* sendWorkerState of worker.go, handleConnection and                      *)
(* handleWorkerConnection of server.go.                                    *)
(*                                                                         *)
(* A worker holds one connection at a time and opens another one when a    *)
(* write fails or takes longer than ten seconds.  The server reads each    *)
(* connection in a goroutine of its own, which removes the worker when a   *)
(* read fails or takes longer than ten seconds.  The two ends learn at     *)
(* different times that a connection is of no use any more, so several     *)
(* goroutines may serve connections of one machine ID.  Of the scheduler   *)
(* only the set of machine IDs matters here.                               *)
(***************************************************************************)
EXTENDS Naturals

CONSTANTS
  Worker,    \* machine IDs
  Conn,      \* TCP connections; each is used once
  NoWorker, NoConn,
  MaxMail    \* reports that the network holds for one connection

ASSUME LinkAssumption ==
  NoWorker \notin Worker /\ NoConn \notin Conn /\ MaxMail \in Nat \ {0}

VARIABLES
  running,     \* the worker process is alive
  mine,        \* the connection mc of the worker, NoConn between connections
  owner,       \* the machine at the other end of a connection
  link,        \* "unused", "up", "left" by its worker, or "cut"
  mail,        \* number of reports on their way
  reader,      \* where the goroutine of handleConnection is
  registered   \* machine IDs in the table of the scheduler

vars == <<running, mine, owner, link, mail, reader, registered>>
worker == <<running, mine, owner>>

LinkStates   == {"unused", "up", "left", "cut"}
ReaderStates == {"none", "first", "loop", "drop", "done"}

Open(c) == link[c] \in {"up", "left"}

Read(c, from, to) ==
  /\ reader[c] = from
  /\ reader' = [reader EXCEPT ![c] = to]

-----------------------------------------------------------------------------
(* The worker: connect to the server, which starts to read ...             *)
Dial(w, c) ==
  /\ running[w]
  /\ mine[w] = NoConn
  /\ link[c] = "unused"
  /\ mine' = [mine EXCEPT ![w] = c]
  /\ owner' = [owner EXCEPT ![c] = w]
  /\ link' = [link EXCEPT ![c] = "up"]
  /\ Read(c, "none", "first")
  /\ UNCHANGED <<running, mail, registered>>

(* ... and send a report every five seconds, until a write fails.  (A      *)
(* write to a broken connection may also seem to succeed: that is no step.)*)
(* Mutant: report once per connection.                                     *)
SendReportOnce(w) ==
  LET c == mine[w]
  IN  /\ c # NoConn
      /\ link[c] = "up"
      /\ mail[c] = 0 /\ reader[c] = "first"
      /\ mail' = [mail EXCEPT ![c] = @ + 1]
      /\ UNCHANGED <<worker, link, reader, registered>>

SendReport(w) ==
  LET c == mine[w]
  IN  /\ c # NoConn
      /\ link[c] = "up"
      /\ mail[c] < MaxMail
      /\ mail' = [mail EXCEPT ![c] = @ + 1]
      /\ UNCHANGED <<worker, link, reader, registered>>

SendFails(w) ==
  /\ mine[w] # NoConn
  /\ link[mine[w]] = "cut"
  /\ mine' = [mine EXCEPT ![w] = NoConn]
  /\ UNCHANGED <<running, owner, link, mail, reader, registered>>

(* The write deadline: nobody has taken what is on its way (the goroutine  *)
(* at the other end waits for the scheduler).  The worker gives up a       *)
(* connection that is good; the server may still read what it holds.       *)
WriteTimesOut(w) ==
  LET c == mine[w]
  IN  /\ c # NoConn
      /\ link[c] = "up"
      /\ mail[c] = MaxMail
      /\ mine' = [mine EXCEPT ![w] = NoConn]
      /\ link' = [link EXCEPT ![c] = "left"]
      /\ UNCHANGED <<running, owner, mail, reader, registered>>

-----------------------------------------------------------------------------
(* The server: the first message and the later ones go to updateWorker.    *)
(* Mutant: carry on with the empty message of a failed read.               *)
ReadReportUnchecked(c) ==
  /\ Read(c, "first", "loop") \/ Read(c, "loop", "loop")
  /\ mail' = [mail EXCEPT ![c] = IF @ > 0 THEN @ - 1 ELSE @]
  /\ registered' = registered \cup {IF mail[c] > 0 THEN owner[c] ELSE NoWorker}
  /\ UNCHANGED <<worker, link>>

ReadReport(c) ==
  /\ mail[c] > 0
  /\ Read(c, "first", "loop") \/ Read(c, "loop", "loop")
  /\ mail' = [mail EXCEPT ![c] = @ - 1]
  /\ registered' = registered \cup {owner[c]}
  /\ UNCHANGED <<worker, link>>

(* A read fails on a broken connection; on an open one it fails when the   *)
(* next report is late.  An error on the first message only ends the       *)
(* goroutine.                                                              *)
(* Mutant: end the goroutine without dropping the worker.                  *)
EndWithoutDrop(c) ==
  /\ mail[c] = 0
  /\ Read(c, "first", "done") \/ Read(c, "loop", "done")
  /\ UNCHANGED <<worker, link, mail, registered>>

EndOfReading(c) ==
  /\ mail[c] = 0
  /\ Read(c, "first", "done") \/ Read(c, "loop", "drop")
  /\ UNCHANGED <<worker, link, mail, registered>>

ReadError(c)   == link[c] = "cut" /\ EndOfReading(c)
ReadTimeout(c) == Open(c) /\ EndOfReading(c)

(* Mutant: remove the wrong key.                                           *)
RemoveNothing(c) ==
  /\ Read(c, "drop", "done")
  /\ UNCHANGED <<worker, link, mail, registered>>

RemoveWorker(c) ==
  /\ Read(c, "drop", "done")
  /\ registered' = registered \ {owner[c]}
  /\ UNCHANGED <<worker, link, mail>>

(* Nobody calls Close: a connection without a goroutine at one of its ends *)
(* stays open until the garbage collector there finalises it.              *)
Finalize(c) ==
  /\ \/ link[c] = "up" /\ reader[c] = "done"
     \/ link[c] = "left"
  /\ link' = [link EXCEPT ![c] = "cut"]
  /\ UNCHANGED <<worker, mail, reader, registered>>

-----------------------------------------------------------------------------
(* Failures.  What was on its way when a connection breaks may be lost.    *)
Cut(c) ==
  /\ Open(c)
  /\ link' = [link EXCEPT ![c] = "cut"]
  /\ \E n \in 0 .. mail[c] : mail' = [mail EXCEPT ![c] = n]
  /\ UNCHANGED <<worker, reader, registered>>

(* A machine that crashes keeps its ID, which comes from its hardware.     *)
Crash(w) ==
  /\ running[w]
  /\ running' = [running EXCEPT ![w] = FALSE]
  /\ mine' = [mine EXCEPT ![w] = NoConn]
  /\ link' = [c \in Conn |-> IF owner[c] = w THEN "cut" ELSE link[c]]
  /\ UNCHANGED <<owner, mail, reader, registered>>

Restart(w) ==
  /\ ~ running[w]
  /\ running' = [running EXCEPT ![w] = TRUE]
  /\ UNCHANGED <<mine, owner, link, mail, reader, registered>>

(* The server keeps its table in memory only.                              *)
ServerRestart ==
  /\ registered' = {}
  /\ link' = [c \in Conn |-> IF Open(c) THEN "cut" ELSE link[c]]
  /\ mail' = [c \in Conn |-> 0]
  /\ reader' = [c \in Conn |-> IF reader[c] = "none" THEN "none" ELSE "done"]
  /\ UNCHANGED worker

-----------------------------------------------------------------------------
Init ==
  /\ running = [w \in Worker |-> TRUE]
  /\ mine = [w \in Worker |-> NoConn]
  /\ owner = [c \in Conn |-> NoWorker]
  /\ link = [c \in Conn |-> "unused"]
  /\ mail = [c \in Conn |-> 0]
  /\ reader = [c \in Conn |-> "none"]
  /\ registered = {}

Next ==
  \/ \E w \in Worker, c \in Conn : Dial(w, c)
  \/ \E w \in Worker : \/ SendReport(w) \/ SendFails(w) \/ WriteTimesOut(w)
                       \/ Crash(w) \/ Restart(w)
  \/ \E c \in Conn : \/ ReadReport(c) \/ ReadError(c) \/ ReadTimeout(c)
                     \/ RemoveWorker(c) \/ Finalize(c) \/ Cut(c)
  \/ ServerRestart

(* Goroutines keep running and reads have a deadline; the garbage          *)
(* collector runs now and then.  Reports need not be in time, and nothing  *)
(* obliges machines or the network to fail or to recover.  ReadReport and  *)
(* RemoveWorker call the scheduler: their fairness assumes that its mutex  *)
(* is free again and again, which the deadlock of CancelLeavesLoop (module *)
(* Server) refutes.                                                        *)
Fairness ==
  /\ \A w \in Worker : WF_vars(SendReport(w)) /\ WF_vars(SendFails(w))
  /\ \A c \in Conn : /\ WF_vars(ReadReport(c)) /\ WF_vars(ReadError(c))
                     /\ WF_vars(RemoveWorker(c)) /\ WF_vars(Finalize(c))

Spec == Init /\ [][Next]_vars
FairSpec == Spec /\ Fairness

-----------------------------------------------------------------------------
TypeOK ==
  /\ running \in [Worker -> BOOLEAN]
  /\ mine \in [Worker -> Conn \cup {NoConn}]
  /\ owner \in [Conn -> Worker \cup {NoWorker}]
  /\ link \in [Conn -> LinkStates]
  /\ mail \in [Conn -> 0 .. MaxMail]
  /\ reader \in [Conn -> ReaderStates]
  /\ registered \subseteq Worker

(* No ghosts: for every worker in the table some goroutine still reads a   *)
(* connection of that machine, and will remove the worker when it stops.   *)
EveryEntryIsWatched ==
  \A w \in registered :
    \E c \in Conn : owner[c] = w /\ reader[c] \in {"loop", "drop"}

(* A worker that stays without a good connection is forgotten for good     *)
(* (server_test.go, TestWorkerDrop).                                       *)
LostWorkerForgotten ==
  \A w \in Worker :
    <>[](\A c \in Conn : owner[c] = w => link[c] # "up")
      => <>[](w \notin registered)

(* A worker whose connection stays up ends up in the table for good,       *)
(* whatever goroutines of its earlier connections still do.                *)
StableWorkerRegistered ==
  \A w \in Worker :
    <>[](\E c \in Conn : mine[w] = c /\ link[c] = "up")
      => <>[](w \in registered)

(* server.go:193, "Drop missing worker": a worker that is dropped is       *)
(* missing, that is, the server does not read a good connection of it.     *)
(* (A restart of the server drops no worker: it breaks the connections.)   *)
OnlyMissingAreDropped ==
  [][\A w \in Worker, c \in Conn :
       /\ w \in registered \ registered'
       /\ mine[w] = c /\ link'[c] = "up"
       => reader[c] # "loop"]_vars
=============================================================================
