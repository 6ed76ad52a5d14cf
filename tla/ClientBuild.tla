---------------------------- MODULE ClientBuild ----------------------------
(***************************************************************************)
(* One call of the compiler from end to end: the client process of         *)
(* cmds/cbd.go and client.go, the goroutine that serves its job in a       *)
(* worker process (worker.go), and the compiles and temporary files of     *)
(* core.go.  Clients share the workers; a panic in one goroutine of a      *)
(* worker ends the process and all its goroutines.                         *)
(*                                                                         *)
(* The server is an address that answers what Server lets it answer, at    *)
(* any time or never.  Each client has an environment: a fixed worker to   *)
(* use, a server to ask, and whether it may compile itself; an address may *)
(* belong to a program of the other kind.                                  *)
(***************************************************************************)
EXTENDS CompileJob, Sequences

CONSTANTS
  Client,    \* calls of the compiler; also stands for the machine of each
  Worker,    \* machines that run a worker
  Server,    \* the address of the server
  None,      \* no address, no machine
  Setup      \* what each client may be started with

Address == Worker \cup {Server, None}

ASSUME BuildAssumption ==
  /\ Setup \in [Client -> SUBSET [args : Seq(Argument), potentialHost : Address,
                                  server : Address, noLocal : BOOLEAN]]
  /\ None \notin Worker \cup {Server} /\ Server \notin Worker
  /\ Client \cap Address = {}

M == INSTANCE Messaging

VARIABLES
  setup,      \* arguments and environment of each client
  pc,         \* where its process is
  next,       \* how many arguments ParseArgs has read ...
  build,      \* ... and the Build so far
  input,      \* the preprocessed source in the job, "none" before that
  late,       \* quittime has passed
  answer,     \* a response of the server on its way to the client
  host,       \* the address to build at
  worker,     \* the machine that the report will name
  result,     \* the CompileResult of the client
  status,     \* "running", or how the process ended
  output,     \* what it wrote to the output file
  completed,  \* the CompletedJob that reached the server
  serving,    \* the goroutine that serves this client in a worker
  reply,      \* a CompileResult on its way to the client
  live,       \* the worker process is up
  files,      \* temporary files, by purpose and client
  runs        \* history: compiler runs that ended, by whom and how

parse   == <<next, build, input>>
asking  == <<late, answer, host>>
ending  == <<output, completed>>
remote  == <<serving, reply, live>>
vars == <<setup, pc, parse, asking, worker, result, status, ending, remote,
          files, runs>>

Args(c) == setup[c].args
Job(c)  == [build |-> build[c], len |-> Len(Args(c)), input |-> input[c]]

Failed  == [ret |-> "nonzero", code |-> "none"]
Object  == [ret |-> "zero", code |-> "object"]
Unread  == [ret |-> "zero", code |-> "lost"]    \* ReadFile failed
Result  == {Failed, Object, Unread}

NoResult == [ret |-> "zero", code |-> "none"]   \* the zero value of the type
Taken    == [ret |-> "zero", code |-> "taken"]  \* a reply that was read

Run(c, m, r) == [client |-> c, by |-> m, ret |-> r.ret, code |-> r.code]

Goto(c, from, to) == pc[c] = from /\ pc' = [pc EXCEPT ![c] = to]
Exit(c, from, s)  == Goto(c, from, "exited") /\ status' = [status EXCEPT ![c] = s]
Continue(c, from, to) == Goto(c, from, to) /\ UNCHANGED status

-----------------------------------------------------------------------------
(* runCompiler: ParseArgs reads an argument a step.  It looks at the first *)
(* byte of arguments other than -o, empty ones included.                   *)
ReadArgument(c) ==
  /\ next[c] < Len(Args(c))
  /\ LET arg == Args(c)[next[c] + 1] IN
       \/ /\ arg = ""
          /\ Exit(c, "parse", "panic")
          /\ UNCHANGED <<next, build>>
       \/ /\ arg # ""
          /\ pc[c] = "parse"
          /\ build' = [build EXCEPT ![c] = ParseArg(@, next[c], arg)]
          /\ next' = [next EXCEPT ![c] = @ + 1]
          /\ UNCHANGED <<pc, status>>
  /\ UNCHANGED <<setup, input, asking, worker, result, ending, remote, files, runs>>

EndOfArguments(c) ==
  /\ next[c] = Len(Args(c))
  /\ \/ build[c].distributable /\ Continue(c, "parse", "make")
     \/ /\ ~ build[c].distributable        \* RunCmd with all arguments
        /\ \E s \in {"zero", "nonzero"} : Exit(c, "parse", s)
  /\ UNCHANGED <<setup, parse, asking, worker, result, ending, remote, files, runs>>

(* MakeCompileJob with Preprocess.  A temporary file that cannot be made   *)
(* is a nil pointer that is used; the file is left behind when an index is *)
(* out of range, and when the preprocessor fails and does not remove it;   *)
(* other errors come with a return code of zero.                           *)
MakeJob(c) ==
  /\ LET inRange == PreprocessIndexesOK(build[c], Len(Args(c))) IN
       \/ /\ Exit(c, "make", "zero")       \* no host name, file not read back
          /\ UNCHANGED <<files, input>>
       \/ /\ Exit(c, "make", "panic")      \* no temporary file
          /\ UNCHANGED <<files, input>>
       \/ /\ ~ inRange
          /\ Exit(c, "make", "panic")
          /\ files' = files \cup {<<"pre", c>>}
          /\ UNCHANGED input
       \/ /\ inRange
          /\ Exit(c, "make", "nonzero")
          /\ files' \in {files, files \cup {<<"pre", c>>}}
          /\ UNCHANGED input
       \/ /\ inRange
          /\ Continue(c, "make", "choose")
          /\ \E text \in {"text", "empty"} :
               input' = [input EXCEPT ![c] = text]
          /\ UNCHANGED files
  /\ UNCHANGED <<setup, next, build, asking, worker, result, ending, remote, runs>>

-----------------------------------------------------------------------------
(* ClientBuildJob: a fixed worker, or one from the server, or here.        *)
ChooseHost(c) ==
  /\ host' = [host EXCEPT ![c] = setup[c].potentialHost]
  /\ \/ setup[c].potentialHost # None /\ Continue(c, "choose", "dial")
     \/ /\ setup[c].potentialHost = None
        /\ setup[c].server # None
        /\ Continue(c, "choose", "find")
     \/ /\ setup[c].potentialHost = None
        /\ setup[c].server = None
        /\ Continue(c, "choose", "fallback")
  /\ UNCHANGED <<setup, parse, late, answer, worker, result, ending, remote, files, runs>>

(* findWorker: connect and ask, with ten seconds for the whole and ten     *)
(* more for each read.                                                     *)
AskServer(c) ==
  /\ Continue(c, "find", "queued") \/ Continue(c, "find", "fallback")
  /\ UNCHANGED <<setup, parse, asking, worker, result, ending, remote, files, runs>>

QuitTime(c) ==
  /\ pc[c] = "queued"
  /\ late' = [late EXCEPT ![c] = TRUE]
  /\ UNCHANGED <<setup, pc, parse, answer, host, worker, result, status, ending,
                 remote, files, runs>>

(* External: the server answers, if it is one.                             *)
ServerAnswers(c, a) ==
  /\ pc[c] = "queued"
  /\ setup[c].server = Server
  /\ M!ServerHandles(M!Send("WorkerRequest"))
  /\ answer[c] = "none"
  /\ answer' = [answer EXCEPT ![c] = a]
  /\ UNCHANGED <<setup, pc, parse, late, host, worker, result, status, ending,
                 remote, files, runs>>

(* Mutant: wait in the queue for ever.                                     *)
ReadQueuedForever(c) ==
  /\ answer[c] = "queued"
  /\ answer' = [answer EXCEPT ![c] = "none"]
  /\ Continue(c, "queued", "queued")
  /\ UNCHANGED <<setup, parse, late, host, worker, result, ending, remote, files, runs>>

ReadQueued(c) ==
  /\ answer[c] = "queued"
  /\ answer' = [answer EXCEPT ![c] = "none"]
  /\ \/ late[c] /\ Continue(c, "queued", "fallback")
     \/ ~ late[c] /\ Continue(c, "queued", "queued")
  /\ UNCHANGED <<setup, parse, late, host, worker, result, ending, remote, files, runs>>

ReadWorker(c) ==
  /\ answer[c] \in Worker
  /\ Continue(c, "queued", "dial")
  /\ host' = [host EXCEPT ![c] = answer[c]]
  /\ worker' = [worker EXCEPT ![c] = answer[c]]
  /\ answer' = [answer EXCEPT ![c] = "none"]
  /\ UNCHANGED <<setup, parse, late, result, ending, remote, files, runs>>

(* Mutant: wait for an answer, with no deadline.                           *)
FindFailsWhenTold(c) ==
  /\ answer[c] = "no workers"
  /\ Continue(c, "queued", "fallback")
  /\ UNCHANGED <<setup, parse, asking, worker, result, ending, remote, files, runs>>

(* No workers, or no answer within the read timeout, or no connection.     *)
FindFails(c) ==
  /\ answer[c] \in {"no workers", "none"}
  /\ Continue(c, "queued", "fallback")
  /\ UNCHANGED <<setup, parse, asking, worker, result, ending, remote, files, runs>>

-----------------------------------------------------------------------------
(* buildRemote: connect, send the job and wait for its result.  A server   *)
(* takes the connection too, and keeps silent.                             *)
(* Mutant: whoever takes the connection compiles.                          *)
DialAnyone(c) ==
  /\ \/ /\ Continue(c, "dial", "await")
        /\ serving' = [serving EXCEPT ![c] = "reading"]
     \/ /\ Continue(c, "dial", "fallback")
        /\ UNCHANGED serving
  /\ UNCHANGED <<setup, parse, asking, worker, result, ending, reply, live, files, runs>>

Dial(c) ==
  /\ \/ /\ host[c] \in Worker /\ live[host[c]]
        /\ Continue(c, "dial", "await")
        /\ serving' = [serving EXCEPT ![c] = "reading"]
     \/ /\ host[c] \notin Worker
        /\ ~ M!ServerHandles(M!Send("CompileJob"))
        /\ Continue(c, "dial", "await")
        /\ UNCHANGED serving
     \/ /\ Continue(c, "dial", "fallback")
        /\ UNCHANGED serving
  /\ UNCHANGED <<setup, parse, asking, worker, result, ending, reply, live, files, runs>>

(* Mutant: a failed remote build is the result of the job.                 *)
AwaitFailsForGood(c) ==
  /\ Continue(c, "await", "report")
  /\ UNCHANGED <<setup, parse, asking, worker, result, ending, remote, files, runs>>

(* The read takes more than ten seconds, or the connection is lost.        *)
AwaitFails(c) ==
  /\ Continue(c, "await", "fallback")
  /\ UNCHANGED <<setup, parse, asking, worker, result, ending, remote, files, runs>>

ReadReply(c) ==
  /\ reply[c] \in Result
  /\ reply' = [reply EXCEPT ![c] = Taken]
  /\ \/ /\ M!Accepts("ReadCompileResult", M!Send("CompileResult"))
        /\ result' = [result EXCEPT ![c] = reply[c]]
        /\ Continue(c, "await", "report")
     \/ /\ ~ M!Accepts("ReadCompileResult", M!Send("CompileResult"))
        /\ UNCHANGED result
        /\ Continue(c, "await", "fallback")
  /\ UNCHANGED <<setup, parse, asking, worker, ending, serving, live, files, runs>>

-----------------------------------------------------------------------------
(* handleRequest of the worker: read the job, validate it, compile it, and *)
(* send back whatever came out.  It never closes the connection itself.    *)
Active == {"reading", "accepted", "running"}

Serve(c, from, to) ==
  /\ serving[c] = from
  /\ serving' = [serving EXCEPT ![c] = to]

ReceiveJob(c) ==
  /\ \/ /\ M!Accepts("ReadCompileJob", M!Send("CompileJob"))
        /\ Validate(Job(c))
        /\ Serve(c, "reading", "accepted")
     \/ Serve(c, "reading", "done")     \* not valid, or not read in time
  /\ UNCHANGED <<setup, pc, parse, asking, worker, result, status, ending,
                 reply, live, files, runs>>

(* CompileJob.Compile up to the start of the compiler.                     *)
StartCompile(c) ==
  /\ CompileIndexesOK(build[c], Len(Args(c)))
  /\ Serve(c, "accepted", "running")
  /\ files' = files \cup {<<"in", c>>, <<"out", c>>}
  /\ UNCHANGED <<setup, pc, parse, asking, worker, result, status, ending,
                 reply, live, runs>>

Down(w) ==
  /\ live[w]
  /\ live' = [live EXCEPT ![w] = FALSE]
  /\ serving' = [c \in Client |->
                   IF host[c] = w /\ serving[c] \in Active THEN "killed"
                                                          ELSE serving[c]]

(* No temporary file, or an index out of range: the deferred removal of    *)
(* the input still runs, the output stays, and the process is gone.        *)
WorkerPanics(c) ==
  /\ serving[c] = "accepted"
  /\ Down(host[c])
  /\ \/ UNCHANGED files
     \/ /\ ~ CompileIndexesOK(build[c], Len(Args(c)))
        /\ files' = files \cup {<<"out", c>>}
  /\ UNCHANGED <<setup, pc, parse, asking, worker, result, status, ending,
                 reply, runs>>

Deliver(c, r) == pc[c] = "await" /\ reply' = [reply EXCEPT ![c] = r]

(* Mutant: leave the output file behind.                                   *)
EndCompileKeepsOutput(c, r) ==
  /\ Serve(c, "running", "done")
  /\ runs' = runs \cup {Run(c, host[c], r)}
  /\ Deliver(c, r) \/ UNCHANGED reply
  /\ files' = files \ {<<"in", c>>}
  /\ UNCHANGED <<setup, pc, parse, asking, worker, result, status, ending, live>>

(* The compiler ends, both files are removed, and the result is sent, with *)
(* its error dropped; the client may have gone.                            *)
EndCompile(c, r) ==
  /\ Serve(c, "running", "done")
  /\ runs' = runs \cup {Run(c, host[c], r)}
  /\ Deliver(c, r) \/ UNCHANGED reply
  /\ files' = files \ {<<"in", c>>, <<"out", c>>}
  /\ UNCHANGED <<setup, pc, parse, asking, worker, result, status, ending, live>>

(* External: a machine fails, with all its goroutines, and starts again.   *)
WorkerFails(w) ==
  /\ Down(w)
  /\ UNCHANGED <<setup, pc, parse, asking, worker, result, status, ending,
                 reply, files, runs>>

WorkerStarts(w) ==
  /\ ~ live[w]
  /\ live' = [live EXCEPT ![w] = TRUE]
  /\ UNCHANGED <<setup, pc, parse, asking, worker, result, status, ending,
                 reply, serving, files, runs>>

-----------------------------------------------------------------------------
(* No build here either: the zero result, and its return code, is all      *)
(* there is.                                                               *)
GiveUp(c) ==
  /\ setup[c].noLocal
  /\ Exit(c, "fallback", NoResult.ret)
  /\ UNCHANGED <<setup, parse, asking, worker, result, ending, remote, files, runs>>

(* Mutant: do not name the machine that compiled in place of the other.    *)
CompileHereUnnamed(c, r) ==
  /\ ~ setup[c].noLocal
  /\ CompileIndexesOK(build[c], Len(Args(c)))
  /\ Continue(c, "fallback", "report")
  /\ result' = [result EXCEPT ![c] = r]
  /\ runs' = runs \cup {Run(c, c, r)}
  /\ UNCHANGED <<setup, parse, asking, worker, ending, remote, files>>

(* CompileJob.Compile in the client itself, which removes its files.       *)
CompileHere(c, r) ==
  /\ ~ setup[c].noLocal
  /\ CompileIndexesOK(build[c], Len(Args(c)))
  /\ Continue(c, "fallback", "report")
  /\ result' = [result EXCEPT ![c] = r]
  /\ runs' = runs \cup {Run(c, c, r)}
  /\ worker' = [worker EXCEPT ![c] = c]
  /\ UNCHANGED <<setup, parse, asking, ending, remote, files>>

(* As in WorkerPanics.                                                     *)
PanicHere(c) ==
  /\ ~ setup[c].noLocal
  /\ Exit(c, "fallback", "panic")
  /\ \/ UNCHANGED files
     \/ /\ ~ CompileIndexesOK(build[c], Len(Args(c)))
        /\ files' = files \cup {<<"localout", c>>}
  /\ UNCHANGED <<setup, parse, asking, worker, result, ending, remote, runs>>

(* reportCompletion, when a server is set and can be reached.              *)
ReportCompletion(c) ==
  /\ Continue(c, "report", "finish")
  /\ \/ /\ setup[c].server = Server
        /\ M!ServerHandles(M!Send("CompletedJob"))
        /\ completed' = [completed EXCEPT
                           ![c] = [worker |-> worker[c], code |-> result[c].code]]
     \/ UNCHANGED completed
  /\ UNCHANGED <<setup, parse, asking, worker, result, output, remote, files, runs>>

(* The end of runCompiler: an error of the local build, or a return code,  *)
(* or the output file.                                                     *)
Erroneous(c) ==
  result[c].ret = "nonzero" \/ (worker[c] = c /\ result[c].code = "lost")

FinishInError(c) ==
  /\ Erroneous(c)
  /\ Exit(c, "finish", result[c].ret)
  /\ UNCHANGED <<setup, parse, asking, worker, result, ending, remote, files, runs>>

CannotWrite(c) ==                          \* no file, or not all of it
  /\ ~ Erroneous(c)
  /\ Exit(c, "finish", "fatal")
  /\ output' \in {output, [output EXCEPT ![c] = "partial"]}
  /\ UNCHANGED <<setup, parse, asking, worker, result, completed, remote, files, runs>>

WriteOutput(c) ==
  /\ ~ Erroneous(c)
  /\ Exit(c, "finish", "zero")
  /\ output' = [output EXCEPT ![c] = result[c].code]
  /\ UNCHANGED <<setup, parse, asking, worker, result, completed, remote, files, runs>>

-----------------------------------------------------------------------------
Init ==
  /\ setup \in {s \in [Client -> UNION {Setup[c] : c \in Client}] :
                  \A c \in Client : s[c] \in Setup[c]}
  /\ pc = [c \in Client |-> "parse"]
  /\ next = [c \in Client |-> 0]
  /\ build = [c \in Client |-> EmptyBuild]
  /\ input = [c \in Client |-> "none"]
  /\ late = [c \in Client |-> FALSE]
  /\ answer = [c \in Client |-> "none"]
  /\ host = [c \in Client |-> None]
  /\ worker = [c \in Client |-> None]
  /\ result = [c \in Client |-> NoResult]
  /\ status = [c \in Client |-> "running"]
  /\ output = [c \in Client |-> "untouched"]
  /\ completed = [c \in Client |-> [worker |-> None, code |-> "none"]]
  /\ serving = [c \in Client |-> "none"]
  /\ reply = [c \in Client |-> NoResult]
  /\ live = [w \in Worker |-> TRUE]
  /\ files = {}
  /\ runs = {}

Step(c) ==
  \/ ReadArgument(c) \/ EndOfArguments(c) \/ MakeJob(c) \/ ChooseHost(c)
  \/ AskServer(c) \/ ReadQueued(c) \/ ReadWorker(c) \/ FindFails(c)
  \/ Dial(c) \/ ReadReply(c) \/ AwaitFails(c)
  \/ GiveUp(c) \/ (\E r \in Result : CompileHere(c, r)) \/ PanicHere(c)
  \/ ReportCompletion(c)
  \/ FinishInError(c) \/ CannotWrite(c) \/ WriteOutput(c)

Handle(c) ==
  \/ ReceiveJob(c) \/ StartCompile(c) \/ WorkerPanics(c)
  \/ \E r \in Result : EndCompile(c, r)

Next ==
  \/ \E c \in Client : Step(c) \/ QuitTime(c) \/ Handle(c)
  \/ \E c \in Client, a \in {"queued", "no workers"} \cup Worker :
       ServerAnswers(c, a)
  \/ \E w \in Worker : WorkerFails(w) \/ WorkerStarts(w)

(* A process that can run does, compilers end, and timers fire.  Nothing   *)
(* obliges servers to answer and workers to run.                           *)
RunsOn(c) == WF_vars(Step(c)) /\ WF_vars(QuitTime(c))
Fairness  == \A c \in Client : RunsOn(c)

Spec == Init /\ [][Next]_vars
FairSpec == Spec /\ Fairness

-----------------------------------------------------------------------------
Status == {"running", "zero", "nonzero", "panic", "fatal"}

Position == {"parse", "make", "choose", "find", "queued", "dial", "await",
             "fallback", "report", "finish", "exited"}

Purpose == {"pre", "in", "out", "localout"}

Completion == [worker : Worker \cup Client \cup {None},
               code : {"none", "object", "lost"}]

RunRecord == [client : Client, by : Worker \cup Client,
              ret : {"zero", "nonzero"}, code : {"none", "object", "lost"}]

(* All values have their types, and a goroutine serves a client in the     *)
(* worker that the client chose.                                           *)
TypeOK ==
  /\ setup \in [Client -> UNION {Setup[c] : c \in Client}]
  /\ \A c \in Client : setup[c] \in Setup[c]
  /\ pc \in [Client -> Position]
  /\ next \in [Client -> Nat]
  /\ build \in [Client -> Build]
  /\ input \in [Client -> {"none", "text", "empty"}]
  /\ late \in [Client -> BOOLEAN]
  /\ answer \in [Client -> {"none", "queued", "no workers"} \cup Worker]
  /\ host \in [Client -> Address]
  /\ worker \in [Client -> Worker \cup Client \cup {None}]
  /\ result \in [Client -> Result \cup {NoResult}]
  /\ status \in [Client -> Status]
  /\ output \in [Client -> {"untouched", "partial", "object", "lost", "none"}]
  /\ completed \in [Client -> Completion]
  /\ serving \in [Client -> Active \cup {"none", "done", "killed"}]
  /\ \A c \in Client : serving[c] # "none" => host[c] \in Worker
  /\ reply \in [Client -> Result \cup {NoResult, Taken}]
  /\ live \in [Worker -> BOOLEAN]
  /\ files \subseteq Purpose \X Client
  /\ runs \subseteq RunRecord

(* What ParseArgs has found in the arguments it has read is what they say: *)
(* the place after the last -o, the last -c, and the last name that is not *)
(* the target of any -o, also when there are several of each.              *)
LastIn(set) == IF set = {} THEN -1 ELSE CHOOSE i \in set : \A j \in set : j <= i

Places(c, kind) == {i \in 0 .. next[c] - 1 : Args(c)[i + 1] \in kind}

ParseCorrect ==
  \A c \in Client :
    LET o == Places(c, {"-o"})
        f == Places(c, {"file"})
        d == Places(c, {"-c"})
    IN build[c] = [oindex |-> LastIn({i + 1 : i \in o}),
                   iindex |-> LastIn({i \in f : i - 1 \notin o}),
                   cindex |-> LastIn(d),
                   distributable |-> d # {}]

(* Validate looks at upper bounds only, yet of the indices in a job that a *)
(* worker has accepted only the one of the input can be missing: what else *)
(* is missing has stopped the client when it made the job.                 *)
OnlyInputMayBeMissing ==
  \A c \in Client : serving[c] \in {"accepted", "running"} =>
    /\ InRange(build[c].oindex, Len(Args(c)))
    /\ InRange(build[c].cindex, Len(Args(c)))
    /\ build[c].iindex = -1 \/ InRange(build[c].iindex, Len(Args(c)))

(* A client that has made a job, and may compile it, reports success or    *)
(* failure only when a compiler somewhere has ended that way for it: none  *)
(* of the ways in which the server or the worker can fail shows.  With a   *)
(* success the object code of that run is in the output file, if the       *)
(* machine that ran it could read it back.                                 *)
StatusIsEarned ==
  \A c \in Client :
    /\ input[c] # "none" /\ ~ setup[c].noLocal
    /\ status[c] \in {"zero", "nonzero"}
    => \E run \in runs :
         /\ run.client = c /\ run.ret = status[c]
         /\ status[c] = "zero" => (output[c] = "object" <=> run.code = "object")

(* The machine that a CompletedJob names has run the compiler for this     *)
(* client and made the object code whose size it gives, whichever machine  *)
(* the server had proposed.                                                *)
ReportNamesBuilder ==
  \A c \in Client : completed[c].worker # None =>
    \E run \in runs :
      /\ run.client = c /\ run.by = completed[c].worker
      /\ run.code = completed[c].code

(* A client whose worker has answered does not compile the file again,     *)
(* although the reader of the answer expects another identifier.           *)
NoRepeat ==
  \A c \in Client : reply[c] = Taken =>
    ~ \E run \in runs : run.client = c /\ run.by = c

(* A temporary file belongs to a compile that is going on, or has been     *)
(* left by a process that ended in a panic, or by a failed preprocessor.   *)
FileExcuse(purpose, c) ==
  CASE purpose = "pre"             -> status[c] \in {"panic", "nonzero"}
    [] purpose = "localout"        -> status[c] = "panic"
    [] purpose \in {"in", "out"}   -> serving[c] \in {"running", "killed"}

FilesAccounted == \A f \in files : FileExcuse(f[1], f[2])

(* Every call of the compiler ends, whatever the server and the workers    *)
(* do.                                                                     *)
ClientEnds == \A c \in Client : <>(pc[c] = "exited")

(* Nothing that servers, workers and the network do, or fail to do, leaves *)
(* a client without a step to take, and its ten seconds in the queue pass. *)
NotStuck(c) ==
  /\ pc[c] # "exited" => ENABLED <<Step(c)>>_vars
  /\ pc[c] = "queued" /\ ~ late[c] => ENABLED <<QuitTime(c)>>_vars

NobodyStuck == \A c \in Client : NotStuck(c)

(* README.md: with CBD_NO_LOCAL the client errors out when it cannot build *)
(* on a remote host.                                                       *)
NoLocalFails ==
  \A c \in Client :
    setup[c].noLocal /\ status[c] = "zero" /\ input[c] # "none"
      => \E run \in runs : run.client = c
=============================================================================
