------------------------ MODULE ClientBuild_proofs ------------------------
(***************************************************************************)
(* Proofs about ClientBuild, for any number of calls of the compiler, any  *)
(* workers, and any command lines and environments.                        *)
(*                                                                         *)
(* The invariants say what is known at each position of the client:        *)
(* whether its job exists and has been preprocessed (Phases), which name   *)
(* it will report (Names), which compiler run stands behind its result     *)
(* (Results), and which process a temporary file belongs to (Files).       *)
(* ParseInv does the same for the arguments read so far.                   *)
(***************************************************************************)
EXTENDS ClientBuild, TLAPS

Ended == {"report", "finish", "exited"}
Past  == {"await", "fallback"} \cup Ended
JobMade == {"choose", "find", "queued", "dial", "await", "fallback", "report",
            "finish"}

Phases ==
  \A c \in Client :
    /\ pc[c] \in {"parse", "make"} => input[c] = "none"
    /\ pc[c] \in JobMade => input[c] # "none"
    /\ input[c] # "none" => PreprocessIndexesOK(build[c], Len(Args(c)))
    /\ serving[c] # "none" => pc[c] \in Past /\ input[c] # "none"
    /\ serving[c] \in {"accepted", "running"} => build[c].iindex < Len(Args(c))
    /\ status[c] = "running" <=> pc[c] # "exited"
    /\ pc[c] # "exited" => output[c] = "untouched"

Names ==
  \A c \in Client :
    /\ pc[c] \in {"parse", "make", "choose", "find", "queued"} => worker[c] = None
    /\ pc[c] \in {"dial", "await"} => worker[c] \in {None, host[c]}

Results ==
  \A c \in Client :
    /\ reply[c] \in Result =>
         /\ pc[c] \in Past
         /\ Run(c, host[c], reply[c]) \in runs
    /\ pc[c] \in {"report", "finish"} =>
         /\ result[c] \in Result
         /\ \E m \in Worker \cup Client :
              /\ Run(c, m, result[c]) \in runs
              /\ worker[c] \in {None, m}
    /\ reply[c] = Taken => pc[c] \in Ended
    /\ (\E run \in runs : run.client = c /\ run.by = c) =>
         pc[c] \in Ended /\ reply[c] # Taken

Files ==
  \A c \in Client :
    /\ <<"pre", c>> \in files => status[c] \in {"panic", "nonzero"}
    /\ <<"localout", c>> \in files => status[c] = "panic"
    /\ <<"in", c>> \in files => serving[c] \in {"running", "killed"}
    /\ <<"out", c>> \in files => serving[c] \in {"running", "killed"}

IInv == /\ TypeOK /\ Phases /\ Names /\ Results /\ Files
        /\ StatusIsEarned /\ ReportNamesBuilder

-----------------------------------------------------------------------------
(* Results have return codes and code, and are told from the other values. *)
LEMMA ResultTyped ==
  /\ \A r \in Result \cup {NoResult} :
       /\ r.ret \in {"zero", "nonzero"}
       /\ r.code \in {"none", "object", "lost"}
       /\ r.code = "object" => r.ret = "zero"
  /\ NoResult \notin Result /\ Taken \notin Result /\ Taken # NoResult
  BY DEF Result, Failed, Object, Unread, NoResult, Taken

(* What a record of a run says. *)
LEMMA RunFields ==
  ASSUME NEW c, NEW m, NEW r
  PROVE  /\ Run(c, m, r).client = c
         /\ Run(c, m, r).by = m
         /\ Run(c, m, r).ret = r.ret
         /\ Run(c, m, r).code = r.code
  BY DEF Run

(* The record of a run has its type. *)
LEMMA RunTyped ==
  ASSUME NEW c \in Client, NEW m \in Worker \cup Client, NEW r \in Result
  PROVE  Run(c, m, r) \in RunRecord
  BY ResultTyped DEF Run, RunRecord

(* ParseArg makes a Build of a Build. *)
LEMMA ParseTyped ==
  ASSUME NEW b \in Build, NEW i \in Nat, NEW arg
  PROVE  ParseArg(b, i, arg) \in Build
<1>1. CASE arg = "-c"
  BY <1>1 DEF ParseArg, Build, Index
<1>2. CASE arg = "-o"
  BY <1>2 DEF ParseArg, Build, Index
<1>3. CASE arg \notin Flag /\ b.oindex # i
  BY <1>3 DEF ParseArg, Build, Index, Flag
<1>4. CASE arg \notin {"-c", "-o"} /\ ~ (arg \notin Flag /\ b.oindex # i)
  BY <1>4 DEF ParseArg
<1> QED
  BY <1>1, <1>2, <1>3, <1>4

(* The client accepts the answer of the worker, with the identifier that it *)
(* has.                                                                     *)
LEMMA ReplyAccepted == M!Accepts("ReadCompileResult", M!Send("CompileResult"))
<1>1. M!Send("CompileResult") = [ID |-> "CompileResult", body |-> "CompileResult"]
  BY DEF M!Send
<1>2. "CompileResult" \in M!MessageType
  BY DEF M!MessageType
<1>3. M!Reader["ReadCompileResult"].wants = "CompileResult"
  BY DEF M!Reader
<1>4. M!Decodes("CompileResult", "CompileResult")
  <2>1. DOMAIN M!JobFields = {"CompileJob", "CompileResult"}
    BY DEF M!JobFields
  <2>2. "CompileResult" \notin DOMAIN M!ServerFields
    BY DEF M!ServerFields
  <2>3. "CompileResult" \notin DOMAIN M!MonitorFields
    BY DEF M!MonitorFields
  <2>4. M!Fields("CompileResult") = M!JobFields["CompileResult"]
    BY <2>1, <2>2, <2>3 DEF M!Fields
  <2>5. M!JobFields["CompileResult"] = {"ExecResult", "ObjectCode"}
    BY DEF M!JobFields
  <2> QED
    BY <2>4, <2>5 DEF M!Decodes
<1> QED
  BY <1>1, <1>2, <1>3, <1>4 DEF M!Accepts, M!HeaderAccepted

(* Types are kept; that a host is set before a worker serves needs Phases. *)
LEMMA TypeStep ==
  ASSUME TypeOK, Phases, [Next]_vars
  PROVE  TypeOK'
<1> USE DEF parse, asking, ending, remote, Goto, Exit, Continue
<1>a. pc \in [Client -> Position] /\ status \in [Client -> Status]
  BY DEF TypeOK
<1>b. /\ build \in [Client -> Build] /\ next \in [Client -> Nat]
      /\ input \in [Client -> {"none", "text", "empty"}]
  BY DEF TypeOK
<1>c. /\ host \in [Client -> Address]
      /\ answer \in [Client -> {"none", "queued", "no workers"} \cup Worker]
      /\ worker \in [Client -> Worker \cup Client \cup {None}]
  BY DEF TypeOK
<1>d. /\ result \in [Client -> Result \cup {NoResult}]
      /\ reply \in [Client -> Result \cup {NoResult, Taken}]
  BY DEF TypeOK
<1>e. /\ output \in [Client -> {"untouched", "partial", "object", "lost", "none"}]
      /\ completed \in [Client -> Completion]
  BY DEF TypeOK
<1>f. /\ serving \in [Client -> Active \cup {"none", "done", "killed"}]
      /\ \A d \in Client : serving[d] # "none" => host[d] \in Worker
      /\ live \in [Worker -> BOOLEAN]
  BY DEF TypeOK
<1>g. files \subseteq Purpose \X Client /\ runs \subseteq RunRecord
  BY DEF TypeOK
<1>1. ASSUME NEW c \in Client, ReadArgument(c)
      PROVE  TypeOK'
  <2>1. Args(c)[next[c] + 1] # "" =>
          /\ build' = [build EXCEPT
                          ![c] = ParseArg(build[c], next[c], Args(c)[next[c] + 1])]
          /\ next' = [next EXCEPT ![c] = next[c] + 1]
    BY <1>1, <1>b DEF ReadArgument
  <2>2. build[c] \in Build /\ next[c] \in Nat
    BY <1>b
  <2>3. ParseArg(build[c], next[c], Args(c)[next[c] + 1]) \in Build
    BY <2>2, ParseTyped, <1>b
  <2>4. build' \in [Client -> Build] /\ next' \in [Client -> Nat]
    <3>1. CASE Args(c)[next[c] + 1] # ""
      <4>1. \E b \in Build : build' = [build EXCEPT ![c] = b]
        BY <2>1, <2>3, <3>1, <1>b
      <4>2. build' \in [Client -> Build]
        BY <2>2, <4>1, <1>b
      <4>3. next' = [next EXCEPT ![c] = next[c] + 1]
        BY <2>1, <3>1
      <4>4. next' \in [Client -> Nat]
        BY <2>2, <4>3, <1>b
      <4> QED
        BY <4>2, <4>4
    <3>2. CASE UNCHANGED <<next, build>>
      BY <3>2, <1>b
    <3> QED
      BY <1>1, <3>1, <3>2 DEF ReadArgument
  <2>5. pc' \in [Client -> Position] /\ status' \in [Client -> Status]
    BY <1>1, <1>a DEF ReadArgument, Position, Status
  <2> QED
    BY <1>1, <2>4, <2>5 DEF ReadArgument, TypeOK
<1>2. ASSUME NEW c \in Client, EndOfArguments(c)
      PROVE  TypeOK'
  <2>1. pc' \in [Client -> Position]
    BY <1>2, <1>a DEF EndOfArguments, Position
  <2>2. status' \in [Client -> Status]
    BY <1>2, <1>a DEF EndOfArguments, Status
  <2> QED
    BY <1>2, <2>1, <2>2 DEF EndOfArguments, TypeOK
<1>3. ASSUME NEW c \in Client, MakeJob(c)
      PROVE  TypeOK'
  <2>1. pc' \in [Client -> Position]
    BY <1>3, <1>a DEF MakeJob, Position
  <2>2. status' \in [Client -> Status]
    BY <1>3, <1>a DEF MakeJob, Status
  <2>3. input' \in [Client -> {"none", "text", "empty"}]
    BY <1>3, <1>b DEF MakeJob
  <2>4. files' \subseteq files \cup {<<"pre", c>>}
    BY <1>3, <1>g DEF MakeJob
  <2>5. <<"pre", c>> \in Purpose \X Client
    BY DEF Purpose
  <2>6. files' \subseteq Purpose \X Client
    BY <2>4, <2>5, <1>g
  <2> QED
    BY <1>3, <2>1, <2>2, <2>3, <2>6 DEF MakeJob, TypeOK
<1>4. ASSUME NEW c \in Client, ChooseHost(c)
      PROVE  TypeOK'
  <2>1. setup[c].potentialHost \in Address
    <3>1. /\ setup[c] \in Setup[c]
          /\ Setup[c] \in SUBSET [args : Seq(Argument), potentialHost : Address,
                                    server : Address, noLocal : BOOLEAN]
      BY BuildAssumption DEF TypeOK, Address
    <3> QED
      BY <3>1
  <2>2. host' \in [Client -> Address]
    BY <1>4, <2>1, <1>c DEF ChooseHost
  <2>3. pc' \in [Client -> Position]
    BY <1>4, <1>a DEF ChooseHost, Position
  <2>4. serving[c] = "none"
    BY <1>4, <1>f DEF ChooseHost, Phases, Past, Ended
  <2>5. \A d \in Client : serving'[d] # "none" => host'[d] \in Worker
    BY <1>4, <2>4, <1>c, <1>f DEF ChooseHost
  <2> QED
    BY <1>4, <2>2, <2>3, <2>5 DEF ChooseHost, TypeOK
<1>5. ASSUME NEW c \in Client, AskServer(c)
      PROVE  TypeOK'
  BY <1>5 DEF AskServer, Position, TypeOK
<1>6. ASSUME NEW c \in Client, QuitTime(c)
      PROVE  TypeOK'
  BY <1>6 DEF QuitTime, TypeOK
<1>7. ASSUME NEW c \in Client, NEW a \in {"queued", "no workers"} \cup Worker,
             ServerAnswers(c, a)
      PROVE  TypeOK'
  <2>1. answer' = [answer EXCEPT ![c] = a]
    BY <1>7, <1>c DEF ServerAnswers
  <2>2. a \in {"none", "queued", "no workers"} \cup Worker
    OBVIOUS
  <2>3. answer' \in [Client -> {"none", "queued", "no workers"} \cup Worker]
    BY <2>1, <2>2, <1>c
  <2> QED
    BY <1>7, <2>3 DEF ServerAnswers, TypeOK
<1>8. ASSUME NEW c \in Client, ReadQueued(c)
      PROVE  TypeOK'
  BY <1>8 DEF ReadQueued, Position, TypeOK
<1>9. ASSUME NEW c \in Client, ReadWorker(c)
      PROVE  TypeOK'
  BY <1>9 DEF ReadWorker, Position, Address, Phases, Past, Ended, TypeOK
<1>10. ASSUME NEW c \in Client, FindFails(c)
      PROVE  TypeOK'
  BY <1>10 DEF FindFails, Position, TypeOK
<1>11. ASSUME NEW c \in Client, Dial(c)
      PROVE  TypeOK'
  <2>1. \E to \in {"await", "fallback"} : pc' = [pc EXCEPT ![c] = to]
    BY <1>11, <1>a DEF Dial
  <2>2. pc' \in [Client -> Position]
    BY <2>1, <1>a DEF Position
  <2>3. serving' \in [Client -> Active \cup {"none", "done", "killed"}]
    BY <1>11, <1>f DEF Dial, Active
  <2>4. \A d \in Client : serving'[d] # "none" => host'[d] \in Worker
    BY <1>11, <1>c, <1>f DEF Dial
  <2> QED
    BY <1>11, <2>2, <2>3, <2>4 DEF Dial, TypeOK
<1>12. ASSUME NEW c \in Client, AwaitFails(c)
      PROVE  TypeOK'
  BY <1>12 DEF AwaitFails, Position, TypeOK
<1>13. ASSUME NEW c \in Client, ReadReply(c)
      PROVE  TypeOK'
  BY <1>13 DEF ReadReply, Position, TypeOK
<1>14. ASSUME NEW c \in Client, ReceiveJob(c)
      PROVE  TypeOK'
  BY <1>14 DEF ReceiveJob, Serve, Active, TypeOK
<1>15. ASSUME NEW c \in Client, StartCompile(c)
      PROVE  TypeOK'
  <2>1. serving' \in [Client -> Active \cup {"none", "done", "killed"}]
    BY <1>15, <1>f DEF StartCompile, Serve, Active
  <2>2. \A d \in Client : serving'[d] # "none" => host'[d] \in Worker
    BY <1>15, <1>c, <1>f DEF StartCompile, Serve
  <2>3. files' \subseteq Purpose \X Client
    <3>1. <<"in", c>> \in Purpose \X Client /\ <<"out", c>> \in Purpose \X Client
      BY DEF Purpose
    <3> QED
      BY <1>15, <3>1, <1>g DEF StartCompile
  <2> QED
    BY <1>15, <2>1, <2>2, <2>3 DEF StartCompile, TypeOK
<1>16. ASSUME NEW c \in Client, WorkerPanics(c)
      PROVE  TypeOK'
  <2>1. serving' \in [Client -> Active \cup {"none", "done", "killed"}]
    BY <1>16, <1>f DEF WorkerPanics, Down, Active
  <2>2. \A d \in Client : serving'[d] # "none" => host'[d] \in Worker
    BY <1>16, <1>c, <1>f DEF WorkerPanics, Down, Active
  <2>3. live' \in [Worker -> BOOLEAN]
    BY <1>16, <1>f DEF WorkerPanics, Down
  <2>4. files' \subseteq Purpose \X Client
    <3>1. <<"out", c>> \in Purpose \X Client
      BY DEF Purpose
    <3>2. files' \subseteq files \cup {<<"out", c>>}
      BY <1>16, <1>g DEF WorkerPanics
    <3> QED
      BY <3>1, <3>2, <1>g
  <2> QED
    BY <1>16, <2>1, <2>2, <2>3, <2>4 DEF WorkerPanics, TypeOK
<1>17. ASSUME NEW c \in Client, NEW r \in Result, EndCompile(c, r)
      PROVE  TypeOK'
  <2>1. serving' \in [Client -> Active \cup {"none", "done", "killed"}]
    BY <1>17, <1>f DEF EndCompile, Serve, Active
  <2>2. \A d \in Client : serving'[d] # "none" => host'[d] \in Worker
    BY <1>17, <1>c, <1>f DEF EndCompile, Serve
  <2>3. reply' \in [Client -> Result \cup {NoResult, Taken}]
    <3>1. UNCHANGED reply \/ reply' = [reply EXCEPT ![c] = r]
      BY <1>17, <1>d DEF EndCompile, Deliver
    <3>2. r \in Result \cup {NoResult, Taken}
      OBVIOUS
    <3> QED
      BY <3>1, <3>2, <1>d
  <2>4. runs' \subseteq RunRecord
    <3>1. host[c] \in Worker
      BY <1>17, <1>f DEF EndCompile, Serve
    <3>2. Run(c, host[c], r) \in RunRecord
      BY <3>1, RunTyped, <1>c
    <3> QED
      BY <1>17, <3>2, <1>g DEF EndCompile
  <2> QED
    BY <1>17, <2>1, <2>2, <2>3, <2>4 DEF EndCompile, TypeOK
<1>18. ASSUME NEW c \in Client, GiveUp(c)
      PROVE  TypeOK'
  <2>1. NoResult.ret = "zero"
    BY DEF NoResult
  <2> QED
    BY <1>18, <2>1 DEF GiveUp, Position, Status, TypeOK
<1>19. ASSUME NEW c \in Client, NEW r \in Result, CompileHere(c, r)
      PROVE  TypeOK'
  <2>1. pc' \in [Client -> Position]
    BY <1>19, <1>a DEF CompileHere, Position
  <2>2. result' \in [Client -> Result \cup {NoResult}]
    BY <1>19, <1>d DEF CompileHere
  <2>3. worker' \in [Client -> Worker \cup Client \cup {None}]
    BY <1>19, <1>c DEF CompileHere
  <2>4. runs' \subseteq RunRecord
    <3>1. Run(c, c, r) \in RunRecord
      BY RunTyped
    <3> QED
      BY <1>19, <3>1, <1>g DEF CompileHere
  <2> QED
    BY <1>19, <2>1, <2>2, <2>3, <2>4 DEF CompileHere, TypeOK
<1>20. ASSUME NEW c \in Client, PanicHere(c)
      PROVE  TypeOK'
  <2>1. pc' \in [Client -> Position] /\ status' \in [Client -> Status]
    BY <1>20, <1>a DEF PanicHere, Position, Status
  <2>2. files' \subseteq Purpose \X Client
    <3>1. <<"localout", c>> \in Purpose \X Client
      BY DEF Purpose
    <3>2. files' \subseteq files \cup {<<"localout", c>>}
      BY <1>20, <1>g DEF PanicHere
    <3> QED
      BY <3>1, <3>2, <1>g
  <2> QED
    BY <1>20, <2>1, <2>2 DEF PanicHere, TypeOK
<1>21. ASSUME NEW c \in Client, ReportCompletion(c)
      PROVE  TypeOK'
  <2>1. [worker |-> worker[c], code |-> result[c].code] \in Completion
    BY ResultTyped, <1>c, <1>d DEF Completion
  <2>2. completed' \in [Client -> Completion]
    <3>1. \E e \in Completion : \/ UNCHANGED completed
                                \/ completed' = [completed EXCEPT ![c] = e]
      BY <1>21, <2>1, <1>e DEF ReportCompletion
    <3> QED
      BY <3>1, <1>e
  <2>3. pc' \in [Client -> Position]
    BY <1>21, <1>a DEF ReportCompletion, Position
  <2> QED
    BY <1>21, <2>2, <2>3 DEF ReportCompletion, TypeOK
<1>22. ASSUME NEW c \in Client, FinishInError(c)
      PROVE  TypeOK'
  <2>1. result[c].ret \in Status
    BY ResultTyped, <1>d DEF Status
  <2> QED
    BY <1>22, <2>1 DEF FinishInError, Position, TypeOK
<1>23. ASSUME NEW c \in Client, CannotWrite(c)
      PROVE  TypeOK'
  BY <1>23 DEF CannotWrite, Position, Status, TypeOK
<1>24. ASSUME NEW c \in Client, WriteOutput(c)
      PROVE  TypeOK'
  <2>1. result[c].code \in {"none", "object", "lost"}
    BY ResultTyped, <1>d
  <2>2. output' \in [Client -> {"untouched", "partial", "object", "lost", "none"}]
    BY <1>24, <2>1, <1>e DEF WriteOutput
  <2>3. pc' \in [Client -> Position] /\ status' \in [Client -> Status]
    BY <1>24, <1>a DEF WriteOutput, Position, Status
  <2> QED
    BY <1>24, <2>2, <2>3 DEF WriteOutput, TypeOK
<1>25. ASSUME NEW w \in Worker, WorkerFails(w)
      PROVE  TypeOK'
  BY <1>25 DEF WorkerFails, Down, Active, TypeOK
<1>26. ASSUME NEW w \in Worker, WorkerStarts(w)
      PROVE  TypeOK'
  BY <1>26 DEF WorkerStarts, TypeOK
<1>27. CASE UNCHANGED vars
  BY <1>27 DEF vars, TypeOK
<1> QED
  BY <1>1, <1>2, <1>3, <1>4, <1>5, <1>6, <1>7, <1>8, <1>9, <1>10, <1>11, <1>12, <1>13,
     <1>14, <1>15, <1>16, <1>17, <1>18, <1>19, <1>20, <1>21, <1>22, <1>23, <1>24,
     <1>25, <1>26, <1>27
  DEF Next, Step, Handle

(* Phases are kept. *)
LEMMA PhasesStep ==
  ASSUME TypeOK, Phases, [Next]_vars
  PROVE  Phases'
<1> USE DEF parse, asking, ending, remote, Goto, Exit, Continue
<1>t. /\ pc \in [Client -> Position] /\ status \in [Client -> Status]
      /\ input \in [Client -> {"none", "text", "empty"}]
      /\ build \in [Client -> Build]
      /\ serving \in [Client -> Active \cup {"none", "done", "killed"}]
      /\ output \in [Client -> {"untouched", "partial", "object", "lost", "none"}]
  BY DEF TypeOK
<1>r. \A d \in Client : result[d].ret # "running"
  BY ResultTyped DEF TypeOK
<1> USE DEF Args
<1>1. ASSUME NEW c \in Client, ReadArgument(c)
      PROVE  Phases'
  <2>1. input[c] = "none" /\ serving[c] = "none" /\ output[c] = "untouched"
    BY <1>1, <1>t DEF ReadArgument, Phases, Past, Ended, JobMade
  <2>2. \A d \in Client \ {c} :
          build'[d] = build[d] /\ pc'[d] = pc[d] /\ status'[d] = status[d]
    BY <1>1, <1>t DEF ReadArgument
  <2>3. pc'[c] \in {"parse", "exited"} /\ (status'[c] = "running" <=> pc'[c] # "exited")
    BY <1>1, <1>t DEF ReadArgument, Phases
  <2>4. UNCHANGED <<setup, input, serving, output>>
    BY <1>1 DEF ReadArgument
  <2> QED
    BY <2>1, <2>2, <2>3, <2>4 DEF Phases, Past, Ended, JobMade
<1>2. ASSUME NEW c \in Client, EndOfArguments(c)
      PROVE  Phases'
  BY <1>2, Phases, <1>t DEF EndOfArguments, Phases, Past, Ended, JobMade
<1>3. ASSUME NEW c \in Client, MakeJob(c)
      PROVE  Phases'
  BY <1>3, Phases, <1>t DEF MakeJob, Phases, Past, Ended, JobMade
<1>4. ASSUME NEW c \in Client, ChooseHost(c)
      PROVE  Phases'
  BY <1>4, Phases, <1>t DEF ChooseHost, Phases, Past, Ended, JobMade
<1>5. ASSUME NEW c \in Client, AskServer(c)
      PROVE  Phases'
  BY <1>5, Phases, <1>t DEF AskServer, Phases, Past, Ended, JobMade
<1>6. ASSUME NEW c \in Client, QuitTime(c)
      PROVE  Phases'
  BY <1>6, Phases, <1>t DEF QuitTime, Phases, Past, Ended, JobMade
<1>7. ASSUME NEW c \in Client, NEW a \in {"queued", "no workers"} \cup Worker,
             ServerAnswers(c, a)
      PROVE  Phases'
  BY <1>7, Phases, <1>t DEF ServerAnswers, Phases, Past, Ended, JobMade
<1>8. ASSUME NEW c \in Client, ReadQueued(c)
      PROVE  Phases'
  BY <1>8, Phases, <1>t DEF ReadQueued, Phases, Past, Ended, JobMade
<1>9. ASSUME NEW c \in Client, ReadWorker(c)
      PROVE  Phases'
  BY <1>9, Phases, <1>t DEF ReadWorker, Phases, Past, Ended, JobMade
<1>10. ASSUME NEW c \in Client, FindFails(c)
      PROVE  Phases'
  BY <1>10, Phases, <1>t DEF FindFails, Phases, Past, Ended, JobMade
<1>11. ASSUME NEW c \in Client, Dial(c)
      PROVE  Phases'
  BY <1>11, Phases, <1>t DEF Dial, Phases, Past, Ended, JobMade
<1>12. ASSUME NEW c \in Client, AwaitFails(c)
      PROVE  Phases'
  BY <1>12, Phases, <1>t DEF AwaitFails, Phases, Past, Ended, JobMade
<1>13. ASSUME NEW c \in Client, ReadReply(c)
      PROVE  Phases'
  BY <1>13, Phases, <1>t DEF ReadReply, Phases, Past, Ended, JobMade
<1>14. ASSUME NEW c \in Client, ReceiveJob(c)
      PROVE  Phases'
  BY <1>14, Phases, <1>t DEF ReceiveJob, Serve, Validate, Job, Phases, Past, Ended,
     JobMade
<1>15. ASSUME NEW c \in Client, StartCompile(c)
      PROVE  Phases'
  BY <1>15, Phases, <1>t DEF StartCompile, Serve, Phases, Past, Ended, JobMade
<1>16. ASSUME NEW c \in Client, WorkerPanics(c)
      PROVE  Phases'
  BY <1>16, Phases, <1>t DEF WorkerPanics, Down, Active, Phases, Past, Ended, JobMade
<1>17. ASSUME NEW c \in Client, NEW r \in Result, EndCompile(c, r)
      PROVE  Phases'
  BY <1>17, Phases, <1>t DEF EndCompile, Serve, Deliver, Phases, Past, Ended, JobMade
<1>18. ASSUME NEW c \in Client, GiveUp(c)
      PROVE  Phases'
  BY <1>18, Phases, <1>t DEF GiveUp, NoResult, Phases, Past, Ended, JobMade
<1>19. ASSUME NEW c \in Client, NEW r \in Result, CompileHere(c, r)
      PROVE  Phases'
  BY <1>19, Phases, <1>t DEF CompileHere, Phases, Past, Ended, JobMade
<1>20. ASSUME NEW c \in Client, PanicHere(c)
      PROVE  Phases'
  BY <1>20, Phases, <1>t DEF PanicHere, Phases, Past, Ended, JobMade
<1>21. ASSUME NEW c \in Client, ReportCompletion(c)
      PROVE  Phases'
  BY <1>21, Phases, <1>t DEF ReportCompletion, Phases, Past, Ended, JobMade
<1>22. ASSUME NEW c \in Client, FinishInError(c)
      PROVE  Phases'
  BY <1>22, Phases, <1>t, <1>r DEF FinishInError, Phases, Past, Ended, JobMade
<1>23. ASSUME NEW c \in Client, CannotWrite(c)
      PROVE  Phases'
  BY <1>23, Phases, <1>t DEF CannotWrite, Phases, Past, Ended, JobMade
<1>24. ASSUME NEW c \in Client, WriteOutput(c)
      PROVE  Phases'
  BY <1>24, Phases, <1>t DEF WriteOutput, Phases, Past, Ended, JobMade
<1>25. ASSUME NEW w \in Worker, WorkerFails(w)
      PROVE  Phases'
  BY <1>25, Phases, <1>t DEF WorkerFails, Down, Active, Phases, Past, Ended, JobMade
<1>26. ASSUME NEW w \in Worker, WorkerStarts(w)
      PROVE  Phases'
  BY <1>26, Phases, <1>t DEF WorkerStarts, Phases, Past, Ended, JobMade
<1>27. CASE UNCHANGED vars
  BY <1>27, Phases, <1>t DEF vars, Phases, Past, Ended, JobMade
<1> QED
  BY <1>1, <1>2, <1>3, <1>4, <1>5, <1>6, <1>7, <1>8, <1>9, <1>10, <1>11, <1>12,
     <1>13, <1>14, <1>15, <1>16, <1>17, <1>18, <1>19, <1>20, <1>21, <1>22, <1>23, <1>24,
     <1>25, <1>26, <1>27
  DEF Next, Step, Handle

(* Names are kept. *)
LEMMA NamesStep ==
  ASSUME TypeOK, Phases, Names, [Next]_vars
  PROVE  Names'
<1> USE DEF parse, asking, ending, remote, Goto, Exit, Continue
<1>t. /\ pc \in [Client -> Position]
      /\ worker \in [Client -> Worker \cup Client \cup {None}]
      /\ host \in [Client -> Address]
  BY DEF TypeOK
<1>1. ASSUME NEW c \in Client, ReadArgument(c)
      PROVE  Names'
  BY <1>1, Names, <1>t DEF ReadArgument, Names
<1>2. ASSUME NEW c \in Client, EndOfArguments(c)
      PROVE  Names'
  BY <1>2, Names, <1>t DEF EndOfArguments, Names
<1>3. ASSUME NEW c \in Client, MakeJob(c)
      PROVE  Names'
  BY <1>3, Names, <1>t DEF MakeJob, Names
<1>4. ASSUME NEW c \in Client, ChooseHost(c)
      PROVE  Names'
  BY <1>4, Names, <1>t DEF ChooseHost, Names
<1>5. ASSUME NEW c \in Client, AskServer(c)
      PROVE  Names'
  BY <1>5, Names, <1>t DEF AskServer, Names
<1>6. ASSUME NEW c \in Client, QuitTime(c)
      PROVE  Names'
  BY <1>6, Names, <1>t DEF QuitTime, Names
<1>7. ASSUME NEW c \in Client, NEW a \in {"queued", "no workers"} \cup Worker,
             ServerAnswers(c, a)
      PROVE  Names'
  BY <1>7, Names, <1>t DEF ServerAnswers, Names
<1>8. ASSUME NEW c \in Client, ReadQueued(c)
      PROVE  Names'
  BY <1>8, Names, <1>t DEF ReadQueued, Names
<1>9. ASSUME NEW c \in Client, ReadWorker(c)
      PROVE  Names'
  BY <1>9, Names, <1>t DEF ReadWorker, Names
<1>10. ASSUME NEW c \in Client, FindFails(c)
      PROVE  Names'
  BY <1>10, Names, <1>t DEF FindFails, Names
<1>11. ASSUME NEW c \in Client, Dial(c)
      PROVE  Names'
  BY <1>11, Names, <1>t DEF Dial, Names
<1>12. ASSUME NEW c \in Client, AwaitFails(c)
      PROVE  Names'
  BY <1>12, Names, <1>t DEF AwaitFails, Names
<1>13. ASSUME NEW c \in Client, ReadReply(c)
      PROVE  Names'
  BY <1>13, Names, <1>t DEF ReadReply, Names
<1>14. ASSUME NEW c \in Client, ReceiveJob(c)
      PROVE  Names'
  BY <1>14, Names, <1>t DEF ReceiveJob, Serve, Names
<1>15. ASSUME NEW c \in Client, StartCompile(c)
      PROVE  Names'
  BY <1>15, Names, <1>t DEF StartCompile, Serve, Names
<1>16. ASSUME NEW c \in Client, WorkerPanics(c)
      PROVE  Names'
  BY <1>16, Names, <1>t DEF WorkerPanics, Down, Active, Names
<1>17. ASSUME NEW c \in Client, NEW r \in Result, EndCompile(c, r)
      PROVE  Names'
  BY <1>17, Names, <1>t DEF EndCompile, Serve, Deliver, Names
<1>18. ASSUME NEW c \in Client, GiveUp(c)
      PROVE  Names'
  BY <1>18, Names, <1>t DEF GiveUp, Names
<1>19. ASSUME NEW c \in Client, NEW r \in Result, CompileHere(c, r)
      PROVE  Names'
  BY <1>19, Names, <1>t DEF CompileHere, Names
<1>20. ASSUME NEW c \in Client, PanicHere(c)
      PROVE  Names'
  BY <1>20, Names, <1>t DEF PanicHere, Names
<1>21. ASSUME NEW c \in Client, ReportCompletion(c)
      PROVE  Names'
  BY <1>21, Names, <1>t DEF ReportCompletion, Names
<1>22. ASSUME NEW c \in Client, FinishInError(c)
      PROVE  Names'
  BY <1>22, Names, <1>t DEF FinishInError, Names
<1>23. ASSUME NEW c \in Client, CannotWrite(c)
      PROVE  Names'
  BY <1>23, Names, <1>t DEF CannotWrite, Names
<1>24. ASSUME NEW c \in Client, WriteOutput(c)
      PROVE  Names'
  BY <1>24, Names, <1>t DEF WriteOutput, Names
<1>25. ASSUME NEW w \in Worker, WorkerFails(w)
      PROVE  Names'
  BY <1>25, Names, <1>t DEF WorkerFails, Down, Active, Names
<1>26. ASSUME NEW w \in Worker, WorkerStarts(w)
      PROVE  Names'
  BY <1>26, Names, <1>t DEF WorkerStarts, Names
<1>27. CASE UNCHANGED vars
  BY <1>27, Names, <1>t DEF vars, Names
<1> QED
  BY <1>1, <1>2, <1>3, <1>4, <1>5, <1>6, <1>7, <1>8, <1>9, <1>10, <1>11, <1>12,
     <1>13, <1>14, <1>15, <1>16, <1>17, <1>18, <1>19, <1>20, <1>21, <1>22, <1>23, <1>24,
     <1>25, <1>26, <1>27
  DEF Next, Step, Handle

(* Files are kept. *)
LEMMA FilesStep ==
  ASSUME TypeOK, Phases, Files, [Next]_vars
  PROVE  Files'
<1> USE DEF parse, asking, ending, remote, Goto, Exit, Continue
<1>t. /\ pc \in [Client -> Position] /\ status \in [Client -> Status]
      /\ serving \in [Client -> Active \cup {"none", "done", "killed"}]
      /\ \A c \in Client :
           /\ status[c] = "running" <=> pc[c] # "exited"
           /\ pc[c] = "dial" => serving[c] = "none"
  BY DEF TypeOK, Phases, Past, Ended
<1>1. ASSUME NEW c \in Client, ReadArgument(c)
      PROVE  Files'
  BY <1>1, Files, <1>t DEF ReadArgument, Files
<1>2. ASSUME NEW c \in Client, EndOfArguments(c)
      PROVE  Files'
  BY <1>2, Files, <1>t DEF EndOfArguments, Files
<1>3. ASSUME NEW c \in Client, MakeJob(c)
      PROVE  Files'
  <2>1. \A p \in Purpose, d \in Client :
          <<p, d>> \in files' => <<p, d>> \in files \/ (p = "pre" /\ d = c)
    BY <1>3 DEF MakeJob
  <2>2. files' # files => status'[c] \in {"panic", "nonzero"}
    BY <1>3, <1>t DEF MakeJob
  <2>3. /\ UNCHANGED serving /\ status[c] = "running"
        /\ \A d \in Client \ {c} : status'[d] = status[d]
    BY <1>3, <1>t DEF MakeJob
  <2> QED
    BY <2>1, <2>2, <2>3 DEF Files, Purpose
<1>4. ASSUME NEW c \in Client, ChooseHost(c)
      PROVE  Files'
  BY <1>4, Files, <1>t DEF ChooseHost, Files
<1>5. ASSUME NEW c \in Client, AskServer(c)
      PROVE  Files'
  BY <1>5, Files, <1>t DEF AskServer, Files
<1>6. ASSUME NEW c \in Client, QuitTime(c)
      PROVE  Files'
  BY <1>6, Files, <1>t DEF QuitTime, Files
<1>7. ASSUME NEW c \in Client, NEW a \in {"queued", "no workers"} \cup Worker,
             ServerAnswers(c, a)
      PROVE  Files'
  BY <1>7, Files, <1>t DEF ServerAnswers, Files
<1>8. ASSUME NEW c \in Client, ReadQueued(c)
      PROVE  Files'
  BY <1>8, Files, <1>t DEF ReadQueued, Files
<1>9. ASSUME NEW c \in Client, ReadWorker(c)
      PROVE  Files'
  BY <1>9, Files, <1>t DEF ReadWorker, Files
<1>10. ASSUME NEW c \in Client, FindFails(c)
      PROVE  Files'
  BY <1>10, Files, <1>t DEF FindFails, Files
<1>11. ASSUME NEW c \in Client, Dial(c)
      PROVE  Files'
  BY <1>11, Files, <1>t DEF Dial, Files
<1>12. ASSUME NEW c \in Client, AwaitFails(c)
      PROVE  Files'
  BY <1>12, Files, <1>t DEF AwaitFails, Files
<1>13. ASSUME NEW c \in Client, ReadReply(c)
      PROVE  Files'
  BY <1>13, Files, <1>t DEF ReadReply, Files
<1>14. ASSUME NEW c \in Client, ReceiveJob(c)
      PROVE  Files'
  BY <1>14, Files, <1>t DEF ReceiveJob, Serve, Files
<1>15. ASSUME NEW c \in Client, StartCompile(c)
      PROVE  Files'
  BY <1>15, Files, <1>t DEF StartCompile, Serve, Files
<1>16. ASSUME NEW c \in Client, WorkerPanics(c)
      PROVE  Files'
  <2>1. \A p \in Purpose, d \in Client :
          <<p, d>> \in files' => <<p, d>> \in files \/ (p = "out" /\ d = c)
    BY <1>16 DEF WorkerPanics
  <2>2. /\ UNCHANGED status /\ serving'[c] = "killed"
        /\ \A d \in Client : serving[d] \in {"running", "killed"} =>
                              serving'[d] \in {"running", "killed"}
    BY <1>16, <1>t DEF WorkerPanics, Down, Active
  <2> QED
    BY <2>1, <2>2 DEF Files, Purpose
<1>17. ASSUME NEW c \in Client, NEW r \in Result, EndCompile(c, r)
      PROVE  Files'
  BY <1>17, Files, <1>t DEF EndCompile, Serve, Deliver, Files
<1>18. ASSUME NEW c \in Client, GiveUp(c)
      PROVE  Files'
  BY <1>18, Files, <1>t DEF GiveUp, Files
<1>19. ASSUME NEW c \in Client, NEW r \in Result, CompileHere(c, r)
      PROVE  Files'
  BY <1>19, Files, <1>t DEF CompileHere, Files
<1>20. ASSUME NEW c \in Client, PanicHere(c)
      PROVE  Files'
  <2>1. \A p \in Purpose, d \in Client :
          <<p, d>> \in files' => <<p, d>> \in files \/ (p = "localout" /\ d = c)
    BY <1>20 DEF PanicHere
  <2>2. /\ UNCHANGED serving /\ status[c] = "running" /\ status'[c] = "panic"
        /\ \A d \in Client \ {c} : status'[d] = status[d]
    BY <1>20, <1>t DEF PanicHere
  <2> QED
    BY <2>1, <2>2 DEF Files, Purpose
<1>21. ASSUME NEW c \in Client, ReportCompletion(c)
      PROVE  Files'
  BY <1>21, Files, <1>t DEF ReportCompletion, Files
<1>22. ASSUME NEW c \in Client, FinishInError(c)
      PROVE  Files'
  BY <1>22, Files, <1>t DEF FinishInError, Files
<1>23. ASSUME NEW c \in Client, CannotWrite(c)
      PROVE  Files'
  BY <1>23, Files, <1>t DEF CannotWrite, Files
<1>24. ASSUME NEW c \in Client, WriteOutput(c)
      PROVE  Files'
  BY <1>24, Files, <1>t DEF WriteOutput, Files
<1>25. ASSUME NEW w \in Worker, WorkerFails(w)
      PROVE  Files'
  BY <1>25, Files, <1>t DEF WorkerFails, Down, Active, Files
<1>26. ASSUME NEW w \in Worker, WorkerStarts(w)
      PROVE  Files'
  BY <1>26, Files, <1>t DEF WorkerStarts, Files
<1>27. CASE UNCHANGED vars
  BY <1>27, Files, <1>t DEF vars, Files
<1> QED
  BY <1>1, <1>2, <1>3, <1>4, <1>5, <1>6, <1>7, <1>8, <1>9, <1>10, <1>11, <1>12,
     <1>13, <1>14, <1>15, <1>16, <1>17, <1>18, <1>19, <1>20, <1>21, <1>22, <1>23, <1>24,
     <1>25, <1>26, <1>27
  DEF Next, Step, Handle

(* Results are kept; a worker is never a client, so its runs are not local. *)
LEMMA ResultsStep ==
  ASSUME TypeOK, Phases, Names, Results, [Next]_vars
  PROVE  Results'
<1> USE DEF parse, asking, ending, remote, Goto, Exit, Continue
<1>t. /\ pc \in [Client -> Position]
      /\ result \in [Client -> Result \cup {NoResult}]
      /\ reply \in [Client -> Result \cup {NoResult, Taken}]
      /\ worker \in [Client -> Worker \cup Client \cup {None}]
      /\ host \in [Client -> Address]
      /\ serving \in [Client -> Active \cup {"none", "done", "killed"}]
      /\ \A d \in Client : serving[d] # "none" => host[d] \in Worker
      /\ runs \subseteq RunRecord
  BY DEF TypeOK
<1>c. Client \cap Worker = {}
  BY BuildAssumption DEF Address
<1>1. ASSUME NEW c \in Client, ReadArgument(c)
      PROVE  Results'
  <2>1. /\ pc[c] = "parse" /\ pc'[c] \in {"parse", "exited"}
        /\ \A d \in Client \ {c} : pc'[d] = pc[d]
    BY <1>1, <1>t DEF ReadArgument
  <2>2. UNCHANGED <<host, reply, result, worker, runs>>
    BY <1>1 DEF ReadArgument
  <2> QED
    BY <2>1, <2>2 DEF Results, Past, Ended
<1>2. ASSUME NEW c \in Client, EndOfArguments(c)
      PROVE  Results'
  BY <1>2, Results, RunFields, <1>t DEF EndOfArguments, Results, Past, Ended
<1>3. ASSUME NEW c \in Client, MakeJob(c)
      PROVE  Results'
  BY <1>3, Results, RunFields, <1>t DEF MakeJob, Results, Past, Ended
<1>4. ASSUME NEW c \in Client, ChooseHost(c)
      PROVE  Results'
  BY <1>4, Results, RunFields, <1>t DEF ChooseHost, Results, Past, Ended
<1>5. ASSUME NEW c \in Client, AskServer(c)
      PROVE  Results'
  BY <1>5, Results, RunFields, <1>t DEF AskServer, Results, Past, Ended
<1>6. ASSUME NEW c \in Client, QuitTime(c)
      PROVE  Results'
  BY <1>6, Results, RunFields, <1>t DEF QuitTime, Results, Past, Ended
<1>7. ASSUME NEW c \in Client, NEW a \in {"queued", "no workers"} \cup Worker,
             ServerAnswers(c, a)
      PROVE  Results'
  BY <1>7, Results, RunFields, <1>t DEF ServerAnswers, Results, Past, Ended
<1>8. ASSUME NEW c \in Client, ReadQueued(c)
      PROVE  Results'
  BY <1>8, Results, RunFields, <1>t DEF ReadQueued, Results, Past, Ended
<1>9. ASSUME NEW c \in Client, ReadWorker(c)
      PROVE  Results'
  BY <1>9, Results, RunFields, <1>t DEF ReadWorker, Results, Past, Ended
<1>10. ASSUME NEW c \in Client, FindFails(c)
      PROVE  Results'
  <2>1. /\ pc[c] = "queued" /\ pc' = [pc EXCEPT ![c] = "fallback"]
        /\ UNCHANGED <<host, reply, result, worker, runs>>
    BY <1>10 DEF FindFails
  <2> QED
    BY <2>1, <1>t DEF Results, Past, Ended
<1>11. ASSUME NEW c \in Client, Dial(c)
      PROVE  Results'
  BY <1>11, Results, RunFields, <1>t DEF Dial, Results, Past, Ended
<1>12. ASSUME NEW c \in Client, AwaitFails(c)
      PROVE  Results'
  BY <1>12, Results, RunFields, <1>t DEF AwaitFails, Results, Past, Ended
<1>13. ASSUME NEW c \in Client, ReadReply(c)
      PROVE  Results'
  <2>1. /\ reply' = [reply EXCEPT ![c] = Taken]
        /\ result' = [result EXCEPT ![c] = reply[c]]
        /\ pc[c] = "await" /\ pc' = [pc EXCEPT ![c] = "report"]
        /\ UNCHANGED <<host, worker, runs>>
    BY <1>13, ReplyAccepted DEF ReadReply
  <2>2. /\ Run(c, host[c], reply[c]) \in runs
        /\ reply[c] # Taken
    BY <1>13, ResultTyped DEF ReadReply, Results
  <2>3. host[c] \in Worker \cup Client
    BY <2>2, RunFields, <1>t DEF RunRecord
  <2>4. worker[c] \in {None, host[c]}
    BY <2>1 DEF Names
  <2>5. ~ \E run \in runs : run.client = c /\ run.by = c
    BY <2>1 DEF Results, Ended
  <2>6. /\ result'[c] \in Result
        /\ \E m \in Worker \cup Client :
             Run(c, m, result'[c]) \in runs' /\ worker'[c] \in {None, m}
    BY <2>1, <2>2, <2>3, <2>4, <1>13, <1>t DEF ReadReply
  <2> QED
    BY <2>1, <2>5, <2>6, <1>t, ResultTyped DEF Results, Past, Ended
<1>14. ASSUME NEW c \in Client, ReceiveJob(c)
      PROVE  Results'
  BY <1>14, Results, RunFields, <1>t DEF ReceiveJob, Serve, Results, Past, Ended
<1>15. ASSUME NEW c \in Client, StartCompile(c)
      PROVE  Results'
  BY <1>15, Results, RunFields, <1>t DEF StartCompile, Serve, Results, Past, Ended
<1>16. ASSUME NEW c \in Client, WorkerPanics(c)
      PROVE  Results'
  BY <1>16, Results, RunFields, <1>t DEF WorkerPanics, Down, Active, Results, Past,
     Ended
<1>17. ASSUME NEW c \in Client, NEW r \in Result, EndCompile(c, r)
      PROVE  Results'
  <2>1. /\ host[c] \in Worker
        /\ runs' = runs \cup {Run(c, host[c], r)}
        /\ UNCHANGED <<pc, result, host, worker>>
    BY <1>17, <1>t DEF EndCompile, Serve
  <2>2. \/ UNCHANGED reply
        \/ pc[c] = "await" /\ reply' = [reply EXCEPT ![c] = r]
    BY <1>17 DEF EndCompile, Deliver
  <2>3. \A run \in runs' \ runs : run.by \notin Client
    BY <2>1, RunFields, <1>c
  <2>4. \A d \in Client : reply'[d] = Taken => reply[d] = Taken
    BY <2>2, ResultTyped, <1>t
  <2>5. \A d \in Client : reply'[d] # reply[d] =>
          d = c /\ reply'[d] = r /\ r # Taken /\ pc[d] = "await"
    BY <2>2, ResultTyped, <1>t
  <2>6. Run(c, host[c], r) \in runs' /\ runs \subseteq runs'
    BY <2>1
  <2> SUFFICES ASSUME NEW d \in Client
               PROVE  /\ reply'[d] \in Result =>
                           /\ pc[d] \in Past
                           /\ Run(d, host[d], reply'[d]) \in runs'
                      /\ pc[d] \in {"report", "finish"} =>
                           \E m \in Worker \cup Client :
                             /\ Run(d, m, result[d]) \in runs'
                             /\ worker[d] \in {None, m}
                      /\ reply'[d] = Taken => pc[d] \in Ended
                      /\ (\E run \in runs' : run.client = d /\ run.by = d) =>
                           pc[d] \in Ended /\ reply'[d] # Taken
    BY <2>1 DEF Results
  <2> QED
    BY <2>3, <2>4, <2>5, <2>6 DEF Results, Past, Ended
<1>18. ASSUME NEW c \in Client, GiveUp(c)
      PROVE  Results'
  BY <1>18, Results, RunFields, <1>t DEF GiveUp, Results, Past, Ended
<1>19. ASSUME NEW c \in Client, NEW r \in Result, CompileHere(c, r)
      PROVE  Results'
  BY <1>19, Results, RunFields, <1>t DEF CompileHere, Results, Past, Ended
<1>20. ASSUME NEW c \in Client, PanicHere(c)
      PROVE  Results'
  BY <1>20, Results, RunFields, <1>t DEF PanicHere, Results, Past, Ended
<1>21. ASSUME NEW c \in Client, ReportCompletion(c)
      PROVE  Results'
  BY <1>21, Results, RunFields, <1>t DEF ReportCompletion, Results, Past, Ended
<1>22. ASSUME NEW c \in Client, FinishInError(c)
      PROVE  Results'
  BY <1>22, Results, RunFields, <1>t DEF FinishInError, Results, Past, Ended
<1>23. ASSUME NEW c \in Client, CannotWrite(c)
      PROVE  Results'
  BY <1>23, Results, RunFields, <1>t DEF CannotWrite, Results, Past, Ended
<1>24. ASSUME NEW c \in Client, WriteOutput(c)
      PROVE  Results'
  BY <1>24, Results, RunFields, <1>t DEF WriteOutput, Results, Past, Ended
<1>25. ASSUME NEW w \in Worker, WorkerFails(w)
      PROVE  Results'
  BY <1>25, Results, RunFields, <1>t DEF WorkerFails, Down, Active, Results, Past, Ended
<1>26. ASSUME NEW w \in Worker, WorkerStarts(w)
      PROVE  Results'
  BY <1>26, Results, RunFields, <1>t DEF WorkerStarts, Results, Past, Ended
<1>27. CASE UNCHANGED vars
  BY <1>27, Results, RunFields, <1>t DEF vars, Results, Past, Ended
<1> QED
  BY <1>1, <1>2, <1>3, <1>4, <1>5, <1>6, <1>7, <1>8, <1>9, <1>10, <1>11, <1>12,
     <1>13, <1>14, <1>15, <1>16, <1>17, <1>18, <1>19, <1>20, <1>21, <1>22, <1>23, <1>24,
     <1>25, <1>26, <1>27
  DEF Next, Step, Handle

(* A status is earned: FinishInError and WriteOutput take that of a run. *)
LEMMA StatusStep ==
  ASSUME TypeOK, Phases, Results, StatusIsEarned, [Next]_vars
  PROVE  StatusIsEarned'
<1> USE DEF parse, asking, ending, remote, Goto, Exit, Continue
<1>t. /\ pc \in [Client -> Position] /\ status \in [Client -> Status]
      /\ input \in [Client -> {"none", "text", "empty"}]
      /\ result \in [Client -> Result \cup {NoResult}]
      /\ \A d \in Client :
           /\ pc[d] \in {"parse", "make"} => input[d] = "none"
           /\ status[d] = "running" <=> pc[d] # "exited"
           /\ pc[d] # "exited" => output[d] = "untouched"
      /\ output \in [Client -> {"untouched", "partial", "object", "lost", "none"}]
  BY DEF TypeOK, Phases
<1>1. ASSUME NEW c \in Client, ReadArgument(c)
      PROVE  StatusIsEarned'
  <2>1. /\ \A d \in Client \ {c} : status'[d] = status[d]
        /\ pc[c] = "parse"
        /\ UNCHANGED <<input, setup, runs, output>>
    BY <1>1, <1>t DEF ReadArgument
  <2> QED
    BY <2>1, <1>t DEF StatusIsEarned
<1>2. ASSUME NEW c \in Client, EndOfArguments(c)
      PROVE  StatusIsEarned'
  BY <1>2, StatusIsEarned, <1>t DEF EndOfArguments, StatusIsEarned
<1>3. ASSUME NEW c \in Client, MakeJob(c)
      PROVE  StatusIsEarned'
  BY <1>3, StatusIsEarned, <1>t DEF MakeJob, StatusIsEarned
<1>4. ASSUME NEW c \in Client, ChooseHost(c)
      PROVE  StatusIsEarned'
  BY <1>4, StatusIsEarned, <1>t DEF ChooseHost, StatusIsEarned
<1>5. ASSUME NEW c \in Client, AskServer(c)
      PROVE  StatusIsEarned'
  BY <1>5, StatusIsEarned, <1>t DEF AskServer, StatusIsEarned
<1>6. ASSUME NEW c \in Client, QuitTime(c)
      PROVE  StatusIsEarned'
  BY <1>6, StatusIsEarned, <1>t DEF QuitTime, StatusIsEarned
<1>7. ASSUME NEW c \in Client, NEW a \in {"queued", "no workers"} \cup Worker,
             ServerAnswers(c, a)
      PROVE  StatusIsEarned'
  <2>1. UNCHANGED <<setup, input, status, output, runs>>
    BY <1>7 DEF ServerAnswers
  <2> QED
    BY <2>1 DEF StatusIsEarned
<1>8. ASSUME NEW c \in Client, ReadQueued(c)
      PROVE  StatusIsEarned'
  BY <1>8, StatusIsEarned, <1>t DEF ReadQueued, StatusIsEarned
<1>9. ASSUME NEW c \in Client, ReadWorker(c)
      PROVE  StatusIsEarned'
  BY <1>9, StatusIsEarned, <1>t DEF ReadWorker, StatusIsEarned
<1>10. ASSUME NEW c \in Client, FindFails(c)
      PROVE  StatusIsEarned'
  <2>1. UNCHANGED <<setup, input, status, output, runs>>
    BY <1>10 DEF FindFails
  <2> QED
    BY <2>1 DEF StatusIsEarned
<1>11. ASSUME NEW c \in Client, Dial(c)
      PROVE  StatusIsEarned'
  BY <1>11, StatusIsEarned, <1>t DEF Dial, StatusIsEarned
<1>12. ASSUME NEW c \in Client, AwaitFails(c)
      PROVE  StatusIsEarned'
  BY <1>12, StatusIsEarned, <1>t DEF AwaitFails, StatusIsEarned
<1>13. ASSUME NEW c \in Client, ReadReply(c)
      PROVE  StatusIsEarned'
  BY <1>13, StatusIsEarned, <1>t DEF ReadReply, StatusIsEarned
<1>14. ASSUME NEW c \in Client, ReceiveJob(c)
      PROVE  StatusIsEarned'
  BY <1>14, StatusIsEarned, <1>t DEF ReceiveJob, Serve, StatusIsEarned
<1>15. ASSUME NEW c \in Client, StartCompile(c)
      PROVE  StatusIsEarned'
  BY <1>15, StatusIsEarned, <1>t DEF StartCompile, Serve, StatusIsEarned
<1>16. ASSUME NEW c \in Client, WorkerPanics(c)
      PROVE  StatusIsEarned'
  BY <1>16, StatusIsEarned, <1>t DEF WorkerPanics, Down, Active, StatusIsEarned
<1>17. ASSUME NEW c \in Client, NEW r \in Result, EndCompile(c, r)
      PROVE  StatusIsEarned'
  BY <1>17, StatusIsEarned, <1>t DEF EndCompile, Serve, Deliver, StatusIsEarned
<1>18. ASSUME NEW c \in Client, GiveUp(c)
      PROVE  StatusIsEarned'
  BY <1>18, StatusIsEarned, <1>t DEF GiveUp, StatusIsEarned
<1>19. ASSUME NEW c \in Client, NEW r \in Result, CompileHere(c, r)
      PROVE  StatusIsEarned'
  BY <1>19, StatusIsEarned, <1>t DEF CompileHere, StatusIsEarned
<1>20. ASSUME NEW c \in Client, PanicHere(c)
      PROVE  StatusIsEarned'
  BY <1>20, StatusIsEarned, <1>t DEF PanicHere, StatusIsEarned
<1>21. ASSUME NEW c \in Client, ReportCompletion(c)
      PROVE  StatusIsEarned'
  BY <1>21, StatusIsEarned, <1>t DEF ReportCompletion, StatusIsEarned
<1>22. ASSUME NEW c \in Client, FinishInError(c)
      PROVE  StatusIsEarned'
  <2>1. PICK m \in Worker \cup Client : Run(c, m, result[c]) \in runs
    BY <1>22 DEF FinishInError, Results
  <2>2. status' = [status EXCEPT ![c] = result[c].ret] /\ pc[c] = "finish"
    BY <1>22 DEF FinishInError
  <2>3. UNCHANGED <<input, setup, runs, output>>
    BY <1>22 DEF FinishInError
  <2>4. result[c].ret = "zero" => result[c].code = "lost"
    BY <1>22, ResultTyped, <1>t DEF FinishInError, Erroneous
  <2> QED
    BY <2>1, <2>2, <2>3, <2>4, RunFields, <1>t DEF StatusIsEarned
<1>23. ASSUME NEW c \in Client, CannotWrite(c)
      PROVE  StatusIsEarned'
  BY <1>23, StatusIsEarned, <1>t DEF CannotWrite, StatusIsEarned
<1>24. ASSUME NEW c \in Client, WriteOutput(c)
      PROVE  StatusIsEarned'
  <2>1. PICK m \in Worker \cup Client : Run(c, m, result[c]) \in runs
    BY <1>24 DEF WriteOutput, Results
  <2>2. status' = [status EXCEPT ![c] = "zero"] /\ result[c].ret = "zero"
    BY <1>24, ResultTyped, <1>t DEF WriteOutput, Erroneous
  <2>3. UNCHANGED <<input, setup, runs>>
    BY <1>24 DEF WriteOutput
  <2>4. output' = [output EXCEPT ![c] = result[c].code]
    BY <1>24 DEF WriteOutput
  <2> QED
    BY <2>1, <2>2, <2>3, <2>4, RunFields, <1>t DEF StatusIsEarned
<1>25. ASSUME NEW w \in Worker, WorkerFails(w)
      PROVE  StatusIsEarned'
  BY <1>25, StatusIsEarned, <1>t DEF WorkerFails, Down, Active, StatusIsEarned
<1>26. ASSUME NEW w \in Worker, WorkerStarts(w)
      PROVE  StatusIsEarned'
  BY <1>26, StatusIsEarned, <1>t DEF WorkerStarts, StatusIsEarned
<1>27. CASE UNCHANGED vars
  BY <1>27, StatusIsEarned, <1>t DEF vars, StatusIsEarned
<1> QED
  BY <1>1, <1>2, <1>3, <1>4, <1>5, <1>6, <1>7, <1>8, <1>9, <1>10, <1>11, <1>12,
     <1>13, <1>14, <1>15, <1>16, <1>17, <1>18, <1>19, <1>20, <1>21, <1>22, <1>23, <1>24,
     <1>25, <1>26, <1>27
  DEF Next, Step, Handle

(* The report takes the name that Results knows of. *)
LEMMA ReportStep ==
  ASSUME TypeOK, Results, ReportNamesBuilder, [Next]_vars
  PROVE  ReportNamesBuilder'
<1> USE DEF parse, asking, ending, remote, Goto, Exit, Continue
<1>t. /\ completed \in [Client -> Completion]
      /\ result \in [Client -> Result \cup {NoResult}]
  BY DEF TypeOK
<1>1. ASSUME NEW c \in Client, ReadArgument(c)
      PROVE  ReportNamesBuilder'
  BY <1>1, ReportNamesBuilder, <1>t DEF ReadArgument, ReportNamesBuilder
<1>2. ASSUME NEW c \in Client, EndOfArguments(c)
      PROVE  ReportNamesBuilder'
  BY <1>2, ReportNamesBuilder, <1>t DEF EndOfArguments, ReportNamesBuilder
<1>3. ASSUME NEW c \in Client, MakeJob(c)
      PROVE  ReportNamesBuilder'
  BY <1>3, ReportNamesBuilder, <1>t DEF MakeJob, ReportNamesBuilder
<1>4. ASSUME NEW c \in Client, ChooseHost(c)
      PROVE  ReportNamesBuilder'
  BY <1>4, ReportNamesBuilder, <1>t DEF ChooseHost, ReportNamesBuilder
<1>5. ASSUME NEW c \in Client, AskServer(c)
      PROVE  ReportNamesBuilder'
  BY <1>5, ReportNamesBuilder, <1>t DEF AskServer, ReportNamesBuilder
<1>6. ASSUME NEW c \in Client, QuitTime(c)
      PROVE  ReportNamesBuilder'
  BY <1>6, ReportNamesBuilder, <1>t DEF QuitTime, ReportNamesBuilder
<1>7. ASSUME NEW c \in Client, NEW a \in {"queued", "no workers"} \cup Worker,
             ServerAnswers(c, a)
      PROVE  ReportNamesBuilder'
  BY <1>7, ReportNamesBuilder, <1>t DEF ServerAnswers, ReportNamesBuilder
<1>8. ASSUME NEW c \in Client, ReadQueued(c)
      PROVE  ReportNamesBuilder'
  BY <1>8, ReportNamesBuilder, <1>t DEF ReadQueued, ReportNamesBuilder
<1>9. ASSUME NEW c \in Client, ReadWorker(c)
      PROVE  ReportNamesBuilder'
  BY <1>9, ReportNamesBuilder, <1>t DEF ReadWorker, ReportNamesBuilder
<1>10. ASSUME NEW c \in Client, FindFails(c)
      PROVE  ReportNamesBuilder'
  BY <1>10, ReportNamesBuilder, <1>t DEF FindFails, ReportNamesBuilder
<1>11. ASSUME NEW c \in Client, Dial(c)
      PROVE  ReportNamesBuilder'
  BY <1>11, ReportNamesBuilder, <1>t DEF Dial, ReportNamesBuilder
<1>12. ASSUME NEW c \in Client, AwaitFails(c)
      PROVE  ReportNamesBuilder'
  BY <1>12, ReportNamesBuilder, <1>t DEF AwaitFails, ReportNamesBuilder
<1>13. ASSUME NEW c \in Client, ReadReply(c)
      PROVE  ReportNamesBuilder'
  BY <1>13, ReportNamesBuilder, <1>t DEF ReadReply, ReportNamesBuilder
<1>14. ASSUME NEW c \in Client, ReceiveJob(c)
      PROVE  ReportNamesBuilder'
  BY <1>14, ReportNamesBuilder, <1>t DEF ReceiveJob, Serve, ReportNamesBuilder
<1>15. ASSUME NEW c \in Client, StartCompile(c)
      PROVE  ReportNamesBuilder'
  BY <1>15, ReportNamesBuilder, <1>t DEF StartCompile, Serve, ReportNamesBuilder
<1>16. ASSUME NEW c \in Client, WorkerPanics(c)
      PROVE  ReportNamesBuilder'
  BY <1>16, ReportNamesBuilder, <1>t DEF WorkerPanics, Down, Active, ReportNamesBuilder
<1>17. ASSUME NEW c \in Client, NEW r \in Result, EndCompile(c, r)
      PROVE  ReportNamesBuilder'
  BY <1>17, ReportNamesBuilder, <1>t DEF EndCompile, Serve, Deliver, ReportNamesBuilder
<1>18. ASSUME NEW c \in Client, GiveUp(c)
      PROVE  ReportNamesBuilder'
  BY <1>18, ReportNamesBuilder, <1>t DEF GiveUp, ReportNamesBuilder
<1>19. ASSUME NEW c \in Client, NEW r \in Result, CompileHere(c, r)
      PROVE  ReportNamesBuilder'
  BY <1>19, ReportNamesBuilder, <1>t DEF CompileHere, ReportNamesBuilder
<1>20. ASSUME NEW c \in Client, PanicHere(c)
      PROVE  ReportNamesBuilder'
  BY <1>20, ReportNamesBuilder, <1>t DEF PanicHere, ReportNamesBuilder
<1>21. ASSUME NEW c \in Client, ReportCompletion(c)
      PROVE  ReportNamesBuilder'
  <2>1. PICK m \in Worker \cup Client :
          Run(c, m, result[c]) \in runs /\ worker[c] \in {None, m}
    BY <1>21 DEF ReportCompletion, Results
  <2>2. \/ UNCHANGED completed
        \/ completed' = [completed EXCEPT
                            ![c] = [worker |-> worker[c], code |-> result[c].code]]
    BY <1>21 DEF ReportCompletion
  <2>3. UNCHANGED runs
    BY <1>21 DEF ReportCompletion
  <2> QED
    BY <2>1, <2>2, <2>3, RunFields, <1>t DEF ReportNamesBuilder
<1>22. ASSUME NEW c \in Client, FinishInError(c)
      PROVE  ReportNamesBuilder'
  BY <1>22, ReportNamesBuilder, <1>t DEF FinishInError, ReportNamesBuilder
<1>23. ASSUME NEW c \in Client, CannotWrite(c)
      PROVE  ReportNamesBuilder'
  BY <1>23, ReportNamesBuilder, <1>t DEF CannotWrite, ReportNamesBuilder
<1>24. ASSUME NEW c \in Client, WriteOutput(c)
      PROVE  ReportNamesBuilder'
  BY <1>24, ReportNamesBuilder, <1>t DEF WriteOutput, ReportNamesBuilder
<1>25. ASSUME NEW w \in Worker, WorkerFails(w)
      PROVE  ReportNamesBuilder'
  BY <1>25, ReportNamesBuilder, <1>t DEF WorkerFails, Down, Active, ReportNamesBuilder
<1>26. ASSUME NEW w \in Worker, WorkerStarts(w)
      PROVE  ReportNamesBuilder'
  BY <1>26, ReportNamesBuilder, <1>t DEF WorkerStarts, ReportNamesBuilder
<1>27. CASE UNCHANGED vars
  BY <1>27, ReportNamesBuilder, <1>t DEF vars, ReportNamesBuilder
<1> QED
  BY <1>1, <1>2, <1>3, <1>4, <1>5, <1>6, <1>7, <1>8, <1>9, <1>10, <1>11, <1>12,
     <1>13, <1>14, <1>15, <1>16, <1>17, <1>18, <1>19, <1>20, <1>21, <1>22, <1>23, <1>24,
     <1>25, <1>26, <1>27
  DEF Next, Step, Handle

(* The largest member of a set of integers, or -1 of the empty set.         *)
IsLast(x, set) ==
  \/ set = {} /\ x = -1
  \/ x \in set /\ \A j \in set : j <= x

(* There is at most one last member. *)
LEMMA LastIsLast ==
  ASSUME NEW set \in SUBSET Int, NEW x \in Int, IsLast(x, set)
  PROVE  x = LastIn(set)
<1>1. CASE set = {}
  BY <1>1 DEF IsLast, LastIn
<1>2. CASE set # {}
  <2>1. x \in set /\ \A j \in set : j <= x
    BY <1>2 DEF IsLast
  <2> DEFINE y == CHOOSE i \in set : \A j \in set : j <= i
  <2>2. y \in set /\ \A j \in set : j <= y
    BY <2>1
  <2> HIDE DEF y
  <2>3. x <= y /\ y <= x
    BY <2>1, <2>2
  <2>4. x \in Int /\ y \in Int
    BY <2>2
  <2>5. x = y
    BY <2>3, <2>4
  <2> QED
    BY <1>2, <2>5 DEF LastIn, y
<1> QED
  BY <1>1, <1>2

(* What ParseArgs knows after n arguments, where it never refers to LastIn. *)
At(c, n, kind) == {i \in 0 .. n - 1 : Args(c)[i + 1] \in kind}
Targets(c, n)  == {i + 1 : i \in At(c, n, {"-o"})}
Inputs(c, n)   == {i \in At(c, n, {"file"}) : i - 1 \notin At(c, n, {"-o"})}

Read(c, n, b) ==
  /\ IsLast(b.oindex, Targets(c, n))
  /\ IsLast(b.iindex, Inputs(c, n))
  /\ IsLast(b.cindex, At(c, n, {"-c"}))
  /\ b.distributable <=> At(c, n, {"-c"}) # {}

ParseInv == \A c \in Client : next[c] <= Len(Args(c)) /\ Read(c, next[c], build[c])

(* Before the first argument. *)
LEMMA ReadNothing == \A c \in Client : Read(c, 0, EmptyBuild)
BY DEF Read, IsLast, Targets, Inputs, At, EmptyBuild

(* One argument more: only the number of the new one can enter a set, and it
   is the last. *)
LEMMA ReadOne ==
  ASSUME NEW c \in Client, NEW n \in Nat, NEW b \in Build, Read(c, n, b),
         Args(c)[n + 1] \in Flag \cup {"file"}
  PROVE  Read(c, n + 1, ParseArg(b, n, Args(c)[n + 1]))
<1> DEFINE arg == Args(c)[n + 1]
           b1  == ParseArg(b, n, arg)
<1> HIDE DEF b1
<1>1. \A kind : At(c, n + 1, kind) =
        At(c, n, kind) \cup
          (IF arg \in kind THEN {n} ELSE {})
  BY DEF At
<1>2. \A kind : At(c, n, kind) \subseteq 0 .. n - 1
  BY DEF At
<1>3. IsLast(b1.oindex, Targets(c, n + 1))
  <2>1. CASE arg = "-o"
    <3>1. Targets(c, n + 1) = Targets(c, n) \cup {n + 1}
      BY <1>1, <2>1 DEF Targets
    <3>2. b1.oindex = n + 1
      BY <2>1 DEF b1, ParseArg, Build
    <3>3. \A j \in Targets(c, n) : j \in Int /\ j <= n + 1
      BY <1>2 DEF Targets
    <3> QED
      BY <3>1, <3>2, <3>3 DEF IsLast
  <2>2. CASE arg # "-o"
    <3>1. Targets(c, n + 1) = Targets(c, n)
      BY <1>1, <2>2 DEF Targets
    <3>2. b1.oindex = b.oindex
      BY <2>2 DEF b1, ParseArg, Build
    <3> QED
      BY <3>1, <3>2 DEF Read
  <2> QED
    BY <2>1, <2>2
<1>4. IsLast(b1.cindex, At(c, n + 1, {"-c"}))
      /\ (b1.distributable <=> At(c, n + 1, {"-c"}) # {})
  <2>1. CASE arg = "-c"
    <3>1. At(c, n + 1, {"-c"}) = At(c, n, {"-c"}) \cup {n}
      BY <1>1, <2>1
    <3>2. b1.cindex = n /\ b1.distributable = TRUE
      BY <2>1 DEF b1, ParseArg, Build
    <3> QED
      BY <3>1, <3>2, <1>2 DEF IsLast
  <2>2. CASE arg # "-c"
    <3>1. At(c, n + 1, {"-c"}) = At(c, n, {"-c"})
      BY <1>1, <2>2
    <3>2. b1.cindex = b.cindex /\ b1.distributable = b.distributable
      BY <2>2 DEF b1, ParseArg, Build
    <3> QED
      BY <3>1, <3>2 DEF Read
  <2> QED
    BY <2>1, <2>2
<1>5. IsLast(b1.iindex, Inputs(c, n + 1))
  <2>1. n \in Targets(c, n) <=> n - 1 \in At(c, n, {"-o"})
    BY <1>2 DEF Targets
  <2>2. n \in Targets(c, n) <=> b.oindex = n
    <3>1. \A j \in Targets(c, n) : j \in Int /\ j <= n
      BY <1>2 DEF Targets
    <3> QED
      BY <3>1 DEF Read, IsLast, Build, Index
  <2>3. \A i \in At(c, n, {"file"}) :
          i - 1 \in At(c, n + 1, {"-o"}) <=> i - 1 \in At(c, n, {"-o"})
    BY <1>1, <1>2
  <2>4. CASE arg = "file" /\ b.oindex # n
    <3>1. Inputs(c, n + 1) = Inputs(c, n) \cup {n}
      BY <1>1, <2>1, <2>2, <2>3, <2>4 DEF Inputs
    <3>2. b1.iindex = n
      BY <2>4 DEF b1, ParseArg, Build, Flag
    <3>3. \A j \in Inputs(c, n) : j \in Int /\ j <= n
      BY <1>2 DEF Inputs
    <3> QED
      BY <3>1, <3>2, <3>3 DEF IsLast
  <2>5. CASE ~ (arg = "file" /\ b.oindex # n)
    <3>1. Inputs(c, n + 1) = Inputs(c, n)
      BY <1>1, <2>1, <2>2, <2>3, <2>5 DEF Inputs
    <3>2. b1.iindex = b.iindex
      BY <2>5 DEF b1, ParseArg, Build, Flag
    <3> QED
      BY <3>1, <3>2 DEF Read
  <2> QED
    BY <2>4, <2>5
<1> QED
  BY <1>3, <1>4, <1>5 DEF Read, b1

(* Sequences have lengths. *)
LEMMA LenIsNat ==
  ASSUME NEW S, NEW s \in Seq(S)
  PROVE  Len(s) \in Nat
OBVIOUS

(* ParseInv is kept; only ReadArgument changes what it speaks of. *)
LEMMA ParseStep ==
  ASSUME TypeOK, ParseInv, [Next]_vars
  PROVE  ParseInv'
<1>1. \/ UNCHANGED <<setup, next, build>>
      \/ \E c \in Client : ReadArgument(c)
  <2> DEFINE Kept == UNCHANGED <<setup, next, build>>
  <2>1. ASSUME NEW c \in Client, Step(c)
        PROVE  Kept \/ ReadArgument(c)
    BY <2>1 DEF Step, EndOfArguments, MakeJob, ChooseHost, AskServer, ReadQueued,
       ReadWorker, FindFails, Dial, AwaitFails, ReadReply, GiveUp, CompileHere,
       PanicHere, ReportCompletion, FinishInError, CannotWrite, WriteOutput, parse
  <2>2. ASSUME NEW c \in Client, Handle(c)
        PROVE  Kept
    BY <2>2 DEF Handle, ReceiveJob, StartCompile, WorkerPanics, EndCompile, parse
  <2>3. ASSUME NEW c \in Client, QuitTime(c)
        PROVE  Kept
    BY <2>3 DEF QuitTime, parse
  <2>4. ASSUME NEW c \in Client, NEW a \in {"queued", "no workers"} \cup Worker,
               ServerAnswers(c, a)
        PROVE  Kept
    BY <2>4 DEF ServerAnswers, parse
  <2>5. ASSUME NEW w \in Worker, WorkerFails(w) \/ WorkerStarts(w)
        PROVE  Kept
    BY <2>5 DEF WorkerFails, WorkerStarts, parse
  <2>6. UNCHANGED vars => Kept
    BY DEF vars, parse
  <2> HIDE DEF Kept
  <2>7. Kept \/ \E c \in Client : ReadArgument(c)
    BY <2>1, <2>2, <2>3, <2>4, <2>5, <2>6 DEF Next
  <2> QED
    BY <2>7 DEF Kept
<1>2. CASE UNCHANGED <<setup, next, build>>
  BY <1>2 DEF ParseInv, Read, Targets, Inputs, At, Args
<1>3. ASSUME NEW c \in Client, ReadArgument(c), ~ UNCHANGED <<next, build>>
      PROVE  ParseInv'
  <2> DEFINE arg == Args(c)[next[c] + 1]
  <2>1. next \in [Client -> Nat] /\ build \in [Client -> Build]
    BY DEF TypeOK
  <2>2. /\ arg # "" /\ next[c] < Len(Args(c)) /\ UNCHANGED setup
        /\ build' = [build EXCEPT ![c] = ParseArg(build[c], next[c], arg)]
        /\ next' = [next EXCEPT ![c] = next[c] + 1]
    BY <1>3, <2>1 DEF ReadArgument
  <2>3. Args(c) \in Seq(Argument)
    <3>1. /\ setup[c] \in Setup[c]
          /\ Setup[c] \in SUBSET [args : Seq(Argument), potentialHost : Address,
                                    server : Address, noLocal : BOOLEAN]
      BY BuildAssumption DEF TypeOK, Address
    <3> QED
      BY <3>1 DEF Args
  <2>4. Len(Args(c)) \in Nat /\ next[c] \in Nat /\ next[c] < Len(Args(c))
    <3>1. Len(Args(c)) \in Nat
      BY <2>3, LenIsNat
    <3>2. next[c] \in Nat
      BY <2>1
    <3> QED
      BY <2>2, <3>1, <3>2
  <2>5. arg \in Flag \cup {"file"}
    <3>1. next[c] + 1 \in 1 .. Len(Args(c))
      BY <2>4
    <3>2. arg \in Argument
      BY <2>3, <3>1
    <3> QED
      BY <2>2, <3>2 DEF Argument
  <2>6. Read(c, next[c] + 1, ParseArg(build[c], next[c], arg))
    BY <2>1, <2>5, ReadOne DEF ParseInv
  <2>7. Read(c, next'[c], build'[c]) /\ next'[c] <= Len(Args(c))
    <3>1. next'[c] = next[c] + 1 /\ build'[c] = ParseArg(build[c], next[c], arg)
      BY <2>1, <2>2
    <3>2. next[c] + 1 <= Len(Args(c))
      BY <2>4
    <3> QED
      BY <2>6, <3>1, <3>2
  <2>8. \A d \in Client : Read(d, next'[d], build'[d]) /\ next'[d] <= Len(Args(d))
    <3>1. \A d \in Client \ {c} : next'[d] = next[d] /\ build'[d] = build[d]
      BY <2>1, <2>2
    <3> QED
      BY <2>7, <3>1 DEF ParseInv
  <2> QED
    BY <2>2, <2>8 DEF ParseInv, Read, Targets, Inputs, At, Args
<1> QED
  BY <1>1, <1>2, <1>3 DEF ReadArgument

(* The invariant holds initially, ... *)
LEMMA InitIInv == Init => IInv
<1> SUFFICES ASSUME Init PROVE IInv
  OBVIOUS
<1> USE DEF Init
<1>1. TypeOK
  <2>1. setup \in [Client -> UNION {Setup[c] : c \in Client}]
        /\ \A c \in Client : setup[c] \in Setup[c]
    OBVIOUS
  <2>2. EmptyBuild \in Build
    BY DEF EmptyBuild, Build, Index
  <2>3. [worker |-> None, code |-> "none"] \in Completion
    BY DEF Completion
  <2> QED
    BY <2>1, <2>2, <2>3 DEF TypeOK, Position, Status, Address, Active
<1>2. Phases
  BY DEF Phases, JobMade
<1>3. Names
  BY DEF Names
<1>4. Results
  BY ResultTyped DEF Results
<1>5. Files
  BY DEF Files
<1>6. StatusIsEarned
  BY DEF StatusIsEarned
<1>7. ReportNamesBuilder
  BY DEF ReportNamesBuilder
<1> QED
  BY <1>1, <1>2, <1>3, <1>4, <1>5, <1>6, <1>7 DEF IInv

(* ... and always. *)
LEMMA Inductive == Spec => []IInv
<1>1. IInv /\ [Next]_vars => IInv'
  BY TypeStep, PhasesStep, NamesStep, ResultsStep, FilesStep, StatusStep, ReportStep
  DEF IInv
<1> QED
  BY InitIInv, <1>1, PTL DEF Spec

-----------------------------------------------------------------------------
(* All values of a build have their types.                                 *)
THEOREM BuildTypeCorrect == Spec => []TypeOK
<1>1. IInv => TypeOK
  BY DEF IInv
<1> QED
  BY Inductive, <1>1, PTL

(* ParseArgs finds the last -c, the place after the last -o, and the last    *)
(* name that no -o takes, in every command line.                            *)
THEOREM ArgumentsParsed == Spec => []ParseCorrect
<1>1. Init => ParseInv
  <2> SUFFICES ASSUME Init, NEW c \in Client
               PROVE  next[c] <= Len(Args(c)) /\ Read(c, next[c], build[c])
    BY DEF ParseInv
  <2>1. setup[c] \in Setup[c] /\ next[c] = 0 /\ build[c] = EmptyBuild
    BY DEF Init
  <2>2. setup[c].args \in Seq(Argument)
    BY <2>1, BuildAssumption DEF Address
  <2> QED
    BY <2>1, <2>2, ReadNothing DEF Args
<1>2. IInv /\ ParseInv /\ [Next]_vars => ParseInv'
  BY ParseStep DEF IInv
<1>3. IInv /\ ParseInv => ParseCorrect
  <2> SUFFICES ASSUME IInv, ParseInv, NEW c \in Client
               PROVE  build[c] = [oindex |-> LastIn(Targets(c, next[c])),
                                  iindex |-> LastIn(Inputs(c, next[c])),
                                  cindex |-> LastIn(At(c, next[c], {"-c"})),
                                  distributable |-> At(c, next[c], {"-c"}) # {}]
    BY DEF ParseCorrect, Places, Targets, Inputs, At
  <2>1. build[c] \in Build /\ next[c] \in Nat
    BY DEF IInv, TypeOK
  <2>2. /\ Targets(c, next[c]) \in SUBSET Int /\ Inputs(c, next[c]) \in SUBSET Int
        /\ At(c, next[c], {"-c"}) \in SUBSET Int
    BY <2>1 DEF Targets, Inputs, At
  <2>3. Read(c, next[c], build[c])
    BY DEF ParseInv
  <2>4. /\ build[c].oindex = LastIn(Targets(c, next[c]))
        /\ build[c].iindex = LastIn(Inputs(c, next[c]))
        /\ build[c].cindex = LastIn(At(c, next[c], {"-c"}))
    BY <2>1, <2>2, <2>3, LastIsLast DEF Read, Build, Index
  <2> QED
    BY <2>1, <2>3, <2>4 DEF Read, Build
<1> QED
  BY Inductive, <1>1, <1>2, <1>3, PTL DEF Spec

(* No index but that of the input can be missing in a job that a worker has *)
(* accepted, although Validate of core.go does not look at the lower bound. *)
THEOREM AcceptedJobsHaveOutput == Spec => []OnlyInputMayBeMissing
<1>1. IInv => OnlyInputMayBeMissing
  <2> SUFFICES ASSUME IInv, NEW c \in Client, serving[c] \in {"accepted", "running"}
               PROVE  /\ InRange(build[c].oindex, Len(Args(c)))
                      /\ InRange(build[c].cindex, Len(Args(c)))
                      /\ build[c].iindex = -1 \/ InRange(build[c].iindex, Len(Args(c)))
    BY DEF OnlyInputMayBeMissing
  <2>1. PreprocessIndexesOK(build[c], Len(Args(c)))
    BY DEF IInv, Phases
  <2>2. build[c].iindex < Len(Args(c)) /\ build[c].iindex \in Index
    BY DEF IInv, Phases, TypeOK, Build
  <2> QED
    BY <2>1, <2>2 DEF PreprocessIndexesOK, InRange, Index
<1> QED
  BY Inductive, <1>1, PTL

(* The exit status of a client that made a job, and may compile it, is that *)
(* of a compiler run that ended for it, whatever fails on the way.          *)
THEOREM ExitStatusIsEarned == Spec => []StatusIsEarned
<1>1. IInv => StatusIsEarned
  BY DEF IInv
<1> QED
  BY Inductive, <1>1, PTL

(* The machine named in the report of a completion has run the compiler for *)
(* that client.                                                             *)
THEOREM ReportsNameTheBuilder == Spec => []ReportNamesBuilder
<1>1. IInv => ReportNamesBuilder
  BY DEF IInv
<1> QED
  BY Inductive, <1>1, PTL

(* A client that has read the answer of its worker does not compile again.  *)
THEOREM AnsweredMeansDone == Spec => []NoRepeat
<1>1. IInv => NoRepeat
  BY DEF IInv, Results, NoRepeat
<1> QED
  BY Inductive, <1>1, PTL

(* Every temporary file belongs to a compile that is running, or to a       *)
(* process that a panic or a failed preprocessor has ended.                 *)
THEOREM NoStrayFiles == Spec => []FilesAccounted
<1>1. IInv => FilesAccounted
  <2> SUFFICES ASSUME IInv, NEW f \in files
               PROVE  FileExcuse(f[1], f[2])
    BY DEF FilesAccounted
  <2>1. f[1] \in Purpose /\ f[2] \in Client /\ f = <<f[1], f[2]>>
    <3>1. f \in Purpose \X Client
      BY DEF IInv, TypeOK
    <3> QED
      BY <3>1
  <2>2. CASE f[1] = "pre"
    BY <2>1, <2>2 DEF FileExcuse, IInv, Files
  <2>3. CASE f[1] = "localout"
    BY <2>1, <2>3 DEF FileExcuse, IInv, Files
  <2>4. CASE f[1] \in {"in", "out"}
    BY <2>1, <2>4 DEF FileExcuse, IInv, Files
  <2> QED
    BY <2>1, <2>2, <2>3, <2>4 DEF Purpose
<1> QED
  BY Inductive, <1>1, PTL

-----------------------------------------------------------------------------
(* What the exit status and the output file of a client say.  NoLocalFails  *)
(* is false, and a success may come without object code: these are the      *)
(* limits of the damage.                                                    *)
Compiled(c, machines, code) ==
  \E run \in runs : run.client = c /\ run.by \in machines /\ run.code = code

Somewhere  == Worker \cup Client
NoTrace(c) == /\ output[c] = "untouched"
              /\ completed[c] = [worker |-> None, code |-> "none"]

(* What is in the output file, and what its content says of the compiler:   *)
(* object code is that of a run for this client; a file without object code *)
(* comes from a worker that could not read it back, never from a compile in *)
(* the client; a file that was not written to its end shows in the status.  *)
OutputTells(c) ==
  /\ output[c] \in {"untouched", "partial", "object", "lost"}
  /\ output[c] = "object" => Compiled(c, Somewhere, "object")
  /\ output[c] = "lost" => Compiled(c, Worker, "lost")
  /\ output[c] = "partial" =>
       /\ status[c] = "fatal"
       /\ Compiled(c, Somewhere, "object") \/ Compiled(c, Worker, "lost")

(* The status zero of a compile means one of four things: the object code   *)
(* is there; a worker could not read it back (worker.go:78) and the file is *)
(* empty; the client itself could not (core.go:285) and there is no file;   *)
(* or nothing was compiled, which is so when the job could not be made      *)
(* (core.go:188 and 205), or was refused with CBD_NO_LOCAL (client.go:63).  *)
SuccessMeans(c) ==
  status[c] = "zero" /\ build[c].distributable =>
    \/ output[c] = "object" /\ Compiled(c, Somewhere, "object")
    \/ output[c] = "lost" /\ Compiled(c, Worker, "lost")
    \/ output[c] = "untouched" /\ Compiled(c, {c}, "lost")
    \/ NoTrace(c) /\ (input[c] = "none" \/ setup[c].noLocal)

(* Object code that a client lacks although it did not fail to compile, and *)
(* did not compile itself, was lost in a worker.                            *)
LostRemotely(c) ==
  pc[c] \in {"report", "finish"} /\ result[c].code = "lost" /\ worker[c] # c
    => Compiled(c, Worker, "lost")

OutcomeOf(c) ==
  /\ pc[c] \notin {"finish", "exited"} => NoTrace(c)
  /\ LostRemotely(c)
  /\ OutputTells(c)
  /\ SuccessMeans(c)

Outcome == \A c \in Client : OutcomeOf(c)

LEMMA OutcomeInit == Init => Outcome
  BY DEF Init, Outcome, OutcomeOf, NoTrace, LostRemotely, OutputTells, SuccessMeans

LEMMA OutcomeStep ==
  ASSUME TypeOK, Phases, Names, Results, Outcome, [Next]_vars
  PROVE  Outcome'
<1> SUFFICES ASSUME NEW q \in Client PROVE OutcomeOf(q)'
  BY DEF Outcome
<1> USE DEF parse, asking, ending, remote, Goto, Exit, Continue
<1>t. /\ pc \in [Client -> Position] /\ status \in [Client -> Status]
      /\ input \in [Client -> {"none", "text", "empty"}]
      /\ build \in [Client -> Build]
      /\ result \in [Client -> Result \cup {NoResult}]
      /\ worker \in [Client -> Worker \cup Client \cup {None}]
      /\ output \in [Client -> {"untouched", "partial", "object", "lost", "none"}]
      /\ completed \in [Client -> Completion]
      /\ pc[q] \in {"parse", "make"} => input[q] = "none"
      /\ status[q] = "running" <=> pc[q] # "exited"
      /\ pc[q] # "exited" => output[q] = "untouched"
  BY DEF TypeOK, Phases
<1>o. OutcomeOf(q)
  BY DEF Outcome
<1>g. ASSUME runs \subseteq runs'
      PROVE  \A machines, code : Compiled(q, machines, code) => Compiled(q, machines, code)'
  BY <1>g DEF Compiled
<1>u. ASSUME setup' = setup, runs \subseteq runs',
             output'[q] = output[q], completed'[q] = completed[q],
             pc[q] = "exited" => pc'[q] = "exited" /\ status'[q] = status[q],
             pc[q] = "finish" => pc'[q] \in {"finish", "exited"},
             pc'[q] \in {"report", "finish"} =>
               /\ pc[q] \in {"report", "finish"}
               /\ result'[q] = result[q] /\ worker'[q] = worker[q],
             \/ status'[q] # "zero"
             \/ /\ status'[q] = status[q] /\ input'[q] = input[q]
                /\ build'[q] = build[q]
             \/ ~ build'[q].distributable
             \/ /\ input'[q] = "none" \/ setup[q].noLocal
                /\ pc[q] \notin {"finish", "exited"}
      PROVE  OutcomeOf(q)'
  <2>1. NoTrace(q) <=> NoTrace(q)'
    BY <1>u DEF NoTrace
  <2>2. LostRemotely(q)'
    BY <1>u, <1>o, <1>g DEF OutcomeOf, LostRemotely
  <2>3. OutputTells(q)'
    BY <1>u, <1>o, <1>g, <1>t DEF OutcomeOf, OutputTells, Somewhere
  <2>4. SuccessMeans(q)'
    BY <1>u, <1>o, <1>g, <2>1 DEF OutcomeOf, SuccessMeans, Somewhere
  <2>5. pc'[q] \notin {"finish", "exited"} => NoTrace(q)'
    BY <1>u, <1>o, <2>1 DEF OutcomeOf
  <2> QED
    BY <2>2, <2>3, <2>4, <2>5 DEF OutcomeOf
<1>1. ASSUME UNCHANGED <<setup, output, completed, status, input, build, pc,
                         result, worker>>,
             runs \subseteq runs'
      PROVE  OutcomeOf(q)'
  BY <1>1, <1>u
<1>2. ASSUME NEW c \in Client, NEW to \in Position \ {"exited", "report", "finish"},
             UNCHANGED <<setup, output, completed, runs, status, input, build>>,
             \A d \in Client \ {c} : result'[d] = result[d] /\ worker'[d] = worker[d],
             pc' = [pc EXCEPT ![c] = to], pc[c] \notin {"exited", "finish"}
      PROVE  OutcomeOf(q)'
  <2>1. CASE q = c
    BY <2>1, <1>2, <1>t, <1>u
  <2>2. CASE q # c
    BY <2>2, <1>2, <1>t, <1>u
  <2> QED
    BY <2>1, <2>2
<1>3. ASSUME NEW c \in Client, NEW s \in Status, NEW from \in Position,
             UNCHANGED <<setup, output, completed, runs, input, build, result, worker>>,
             Exit(c, from, s), from \notin {"finish", "exited"},
             s = "zero" => ~ build[c].distributable \/ input[c] = "none"
                           \/ setup[c].noLocal
      PROVE  OutcomeOf(q)'
  <2>1. CASE q = c
    BY <2>1, <1>3, <1>t, <1>u
  <2>2. CASE q # c
    BY <2>2, <1>3, <1>t, <1>u
  <2> QED
    BY <2>1, <2>2
<1>4. ASSUME NEW c \in Client, ReadArgument(c)
      PROVE  OutcomeOf(q)'
  <2>1. UNCHANGED <<setup, output, completed, runs, input, result, worker>>
    BY <1>4 DEF ReadArgument
  <2>2. CASE Exit(c, "parse", "panic") /\ UNCHANGED build
    BY <2>1, <2>2, <1>3 DEF Status, Position
  <2>3. CASE /\ pc[c] = "parse" /\ UNCHANGED <<pc, status>>
             /\ \A d \in Client \ {c} : build'[d] = build[d]
    <3>1. q = c => status'[q] = "running"
      BY <2>3, <1>t
    <3> QED
      BY <2>1, <2>3, <3>1, <1>u
  <2> QED
    BY <1>4, <2>2, <2>3, <1>t DEF ReadArgument
<1>5. ASSUME NEW c \in Client, EndOfArguments(c)
      PROVE  OutcomeOf(q)'
  <2>1. UNCHANGED <<setup, output, completed, runs, input, build, result, worker>>
    BY <1>5 DEF EndOfArguments
  <2>2. \/ Continue(c, "parse", "make")
        \/ ~ build[c].distributable
           /\ \E s \in {"zero", "nonzero"} : Exit(c, "parse", s)
    BY <1>5 DEF EndOfArguments
  <2> QED
    BY <2>1, <2>2, <1>2, <1>3 DEF Status, Position
<1>6. ASSUME NEW c \in Client, MakeJob(c)
      PROVE  OutcomeOf(q)'
  <2>1. \/ \E s \in {"zero", "panic", "nonzero"} : Exit(c, "make", s) /\ UNCHANGED input
        \/ /\ Continue(c, "make", "choose")
           /\ \E text \in {"text", "empty"} : input' = [input EXCEPT ![c] = text]
    BY <1>6 DEF MakeJob
  <2>2. UNCHANGED <<setup, output, completed, runs, build, result, worker>>
    BY <1>6 DEF MakeJob
  <2>3. CASE Continue(c, "make", "choose")
    <3>1. q = c => status'[q] = "running"
      BY <2>3, <1>t
    <3>2. q # c => input'[q] = input[q]
      BY <2>1, <2>3, <1>t
    <3> QED
      BY <2>2, <2>3, <3>1, <3>2, <1>t, <1>u
  <2>4. ASSUME NEW s \in {"zero", "panic", "nonzero"}, Exit(c, "make", s), UNCHANGED input
        PROVE  OutcomeOf(q)'
    <3>1. input[c] = "none"
      BY <2>4 DEF Phases
    <3> QED
      BY <2>2, <2>4, <3>1, <1>3 DEF Status, Position
  <2> QED
    BY <2>1, <2>3, <2>4
<1>7. ASSUME NEW c \in Client,
             \/ ChooseHost(c) \/ AskServer(c) \/ ReadQueued(c) \/ ReadWorker(c)
             \/ FindFails(c) \/ Dial(c) \/ AwaitFails(c)
      PROVE  OutcomeOf(q)'
  <2>1. \E to \in Position \ {"exited", "report", "finish"} : pc' = [pc EXCEPT ![c] = to]
    BY <1>7 DEF ChooseHost, AskServer, ReadQueued, ReadWorker, FindFails, Dial,
                AwaitFails, Position
  <2>2. pc[c] \notin {"exited", "finish"}
    BY <1>7 DEF ChooseHost, AskServer, ReadQueued, ReadWorker, FindFails, Dial,
                AwaitFails
  <2>3. /\ UNCHANGED <<setup, output, completed, runs, status, input, build, result>>
        /\ \A d \in Client \ {c} : worker'[d] = worker[d]
    BY <1>7, <1>t DEF ChooseHost, AskServer, ReadQueued, ReadWorker, FindFails, Dial,
                AwaitFails
  <2> QED
    BY <2>1, <2>2, <2>3, <1>2
<1>8. ASSUME NEW c \in Client, ReadReply(c)
      PROVE  OutcomeOf(q)'
  <2>1. /\ UNCHANGED <<setup, output, completed, runs, status, input, build, worker>>
        /\ pc[c] = "await" /\ pc' = [pc EXCEPT ![c] = "report"]
        /\ result' = [result EXCEPT ![c] = reply[c]] /\ reply[c] \in Result
    BY <1>8, ReplyAccepted DEF ReadReply
  <2>2. CASE q # c
    BY <2>1, <2>2, <1>t, <1>u
  <2>3. CASE q = c
    <3>1. Run(c, host[c], reply[c]) \in runs
      BY <2>1 DEF Results
    <3>2. host[c] \in Worker
      <4>1. Run(c, host[c], reply[c]).by \in Worker \cup Client
        BY <3>1 DEF TypeOK, RunRecord
      <4>2. host[c] \in Worker \cup Client
        BY <4>1, RunFields
      <4>3. host[c] \in Address
        BY DEF TypeOK
      <4> QED
        BY <4>2, <4>3, BuildAssumption
    <3>3. reply[c].code = "lost" => Compiled(q, Worker, "lost")'
      BY <2>1, <2>3, <3>1, <3>2, RunFields DEF Compiled
    <3>4. LostRemotely(q)'
      BY <2>1, <2>3, <3>3, <1>t DEF LostRemotely
    <3>5. status'[q] = "running" /\ output'[q] = "untouched" /\ NoTrace(q)'
      BY <2>1, <2>3, <1>t, <1>o DEF OutcomeOf, NoTrace
    <3> QED
      BY <2>1, <2>3, <3>4, <3>5 DEF OutcomeOf, OutputTells, SuccessMeans
  <2> QED
    BY <2>2, <2>3
<1>9. ASSUME NEW c \in Client,
             \/ QuitTime(c) \/ ReceiveJob(c) \/ StartCompile(c) \/ WorkerPanics(c)
             \/ \E a \in {"queued", "no workers"} \cup Worker : ServerAnswers(c, a)
             \/ \E r \in Result : EndCompile(c, r)
      PROVE  OutcomeOf(q)'
  <2>1. /\ UNCHANGED <<setup, output, completed, status, input, build, pc, result, worker>>
        /\ runs \subseteq runs'
    BY <1>9 DEF QuitTime, ReceiveJob, StartCompile, WorkerPanics, ServerAnswers,
                EndCompile
  <2> QED
    BY <2>1, <1>1
<1>10. ASSUME NEW w \in Worker, WorkerFails(w) \/ WorkerStarts(w)
      PROVE  OutcomeOf(q)'
  <2>1. UNCHANGED <<setup, output, completed, runs, status, input, build, pc,
                    result, worker>>
    BY <1>10 DEF WorkerFails, WorkerStarts
  <2> QED
    BY <2>1, <1>1
<1>11. ASSUME NEW c \in Client, GiveUp(c)
       PROVE  OutcomeOf(q)'
  <2>1. /\ UNCHANGED <<setup, output, completed, runs, input, build, result, worker>>
        /\ Exit(c, "fallback", "zero") /\ setup[c].noLocal
    BY <1>11 DEF GiveUp, NoResult
  <2> QED
    BY <2>1, <1>3 DEF Status, Position
<1>12. ASSUME NEW c \in Client, PanicHere(c)
       PROVE  OutcomeOf(q)'
  <2>1. /\ UNCHANGED <<setup, output, completed, runs, input, build, result, worker>>
        /\ Exit(c, "fallback", "panic")
    BY <1>12 DEF PanicHere
  <2> QED
    BY <2>1, <1>3 DEF Status, Position
<1>13. ASSUME NEW c \in Client, NEW r \in Result, CompileHere(c, r)
       PROVE  OutcomeOf(q)'
  <2>1. /\ UNCHANGED <<setup, output, completed, status, input, build>>
        /\ pc[c] = "fallback"
        /\ pc' = [pc EXCEPT ![c] = "report"]
        /\ runs \subseteq runs'
        /\ worker' = [worker EXCEPT ![c] = c]
        /\ \A d \in Client \ {c} : result'[d] = result[d]
    BY <1>13, <1>t DEF CompileHere
  <2>2. CASE q # c
    BY <2>1, <2>2, <1>t, <1>u
  <2>3. CASE q = c
    <3>1. LostRemotely(q)'
      BY <2>1, <2>3, <1>t DEF LostRemotely
    <3>2. status'[q] = "running" /\ output'[q] = "untouched" /\ NoTrace(q)'
      BY <2>1, <2>3, <1>t, <1>o DEF OutcomeOf, NoTrace
    <3> QED
      BY <2>1, <2>3, <3>1, <3>2 DEF OutcomeOf, OutputTells, SuccessMeans
  <2> QED
    BY <2>2, <2>3
<1>14. ASSUME NEW c \in Client, ReportCompletion(c)
       PROVE  OutcomeOf(q)'
  <2>1. /\ UNCHANGED <<setup, output, runs, status, input, build, result, worker>>
        /\ Continue(c, "report", "finish")
        /\ \A d \in Client \ {c} : completed'[d] = completed[d]
    BY <1>14, <1>t DEF ReportCompletion
  <2>2. CASE q # c
    BY <2>1, <2>2, <1>t, <1>u
  <2>3. CASE q = c
    <3>1. LostRemotely(q)'
      BY <2>1, <2>3, <1>o, <1>g, <1>t DEF OutcomeOf, LostRemotely
    <3>2. status'[q] = "running" /\ output'[q] = "untouched" /\ pc'[q] = "finish"
      BY <2>1, <2>3, <1>t
    <3> QED
      BY <3>1, <3>2 DEF OutcomeOf, OutputTells, SuccessMeans
  <2> QED
    BY <2>2, <2>3
<1>15. ASSUME NEW c \in Client, FinishInError(c) \/ CannotWrite(c) \/ WriteOutput(c)
       PROVE  OutcomeOf(q)'
  <2>1. /\ UNCHANGED <<setup, completed, runs, input, build, result, worker>>
        /\ pc[c] = "finish" /\ pc' = [pc EXCEPT ![c] = "exited"]
        /\ \A d \in Client \ {c} : output'[d] = output[d] /\ status'[d] = status[d]
    BY <1>15, <1>t DEF FinishInError, CannotWrite, WriteOutput
  <2>2. CASE q # c
    BY <2>1, <2>2, <1>t, <1>u
  <2>3. CASE q = c
    <3>1. PICK m \in Worker \cup Client :
            Run(c, m, result[c]) \in runs /\ worker[c] \in {None, m}
      BY <2>1 DEF Results
    <3>2. /\ Compiled(c, Somewhere, result[c].code)'
          /\ worker[c] = c => Compiled(c, {c}, result[c].code)'
      BY <2>1, <3>1, RunFields, BuildAssumption DEF Compiled, Somewhere, Address
    <3>3. worker[c] # c /\ result[c].code = "lost" => Compiled(c, Worker, "lost")'
      BY <2>1, <2>3, <1>o, <1>g DEF OutcomeOf, LostRemotely
    <3>4. /\ result[c].code \in {"none", "object", "lost"}
          /\ result[c].ret \in {"zero", "nonzero"}
      BY ResultTyped, <1>t
    <3>5. result[c].ret = "zero" => result[c].code \in {"object", "lost"}
      <4>1. result[c] \in Result
        BY <2>1 DEF Results
      <4> QED
        BY <4>1, <1>t DEF Result, Failed, Object, Unread
    <3>6. LostRemotely(q)'
      BY <2>1, <2>3, <1>t DEF LostRemotely
    <3>7. CASE FinishInError(c)
      <4>1. /\ status'[c] = result[c].ret /\ output'[c] = "untouched"
            /\ \/ result[c].ret = "nonzero"
               \/ worker[c] = c /\ result[c].code = "lost"
        BY <3>7, <2>1, <2>3, <1>t DEF FinishInError, Erroneous
      <4> QED
        BY <2>1, <2>3, <4>1, <3>2, <3>6, <1>t DEF OutcomeOf, OutputTells, SuccessMeans
    <3>8. CASE CannotWrite(c)
      <4>1. /\ status'[c] = "fatal" /\ output'[c] \in {"untouched", "partial"}
            /\ result[c].ret = "zero"
            /\ ~ (worker[c] = c /\ result[c].code = "lost")
        BY <3>8, <3>4, <2>1, <2>3, <1>t DEF CannotWrite, Erroneous
      <4> QED
        BY <2>1, <2>3, <4>1, <3>2, <3>3, <3>5, <3>6, <1>t
        DEF OutcomeOf, OutputTells, SuccessMeans
    <3>9. CASE WriteOutput(c)
      <4>1. /\ status'[c] = "zero" /\ output'[c] = result[c].code
            /\ result[c].ret = "zero"
            /\ ~ (worker[c] = c /\ result[c].code = "lost")
        BY <3>9, <3>4, <2>1, <2>3, <1>t DEF WriteOutput, Erroneous
      <4> QED
        BY <2>1, <2>3, <4>1, <3>2, <3>3, <3>5, <3>6, <1>t
        DEF OutcomeOf, OutputTells, SuccessMeans
    <3> QED
      BY <1>15, <3>7, <3>8, <3>9
  <2> QED
    BY <2>2, <2>3
<1>16. CASE UNCHANGED vars
  BY <1>16, <1>1 DEF vars
<1> QED
  BY <1>4, <1>5, <1>6, <1>7, <1>8, <1>9, <1>10, <1>11, <1>12, <1>13, <1>14, <1>15,
     <1>16
  DEF Next, Step, Handle

LEMMA OutcomeHolds == Spec => []Outcome
<1>1. IInv /\ Outcome /\ [Next]_vars => Outcome'
  BY OutcomeStep DEF IInv
<1> QED
  BY Inductive, OutcomeInit, <1>1, PTL DEF Spec

(* The output file never passes for what it is not: object code in it was   *)
(* made by a compiler for this client, and its lack is the fault of a       *)
(* worker that ignored an error, or shows in the exit status.               *)
THEOREM OutputComesFromCompiler == Spec => [](\A c \in Client : OutputTells(c))
<1>1. Outcome => \A c \in Client : OutputTells(c)
  BY DEF Outcome, OutcomeOf
<1> QED
  BY <1>1, OutcomeHolds, PTL

(* Every exit status of zero is accounted for: it means object code, or one *)
(* of the four places of the code that lose an error.                       *)
THEOREM SuccessesAccountedFor == Spec => [](\A c \in Client : SuccessMeans(c))
<1>1. Outcome => \A c \in Client : SuccessMeans(c)
  BY DEF Outcome, OutcomeOf
<1> QED
  BY <1>1, OutcomeHolds, PTL

-----------------------------------------------------------------------------
(* Progress.  The provers do not reason about ENABLED, so that a client has *)
(* a step to take (NobodyStuck, an invariant that a run checks) is a        *)
(* hypothesis here; where its steps lead is proved.                         *)
Is(c, p) == pc[c] = p
Late(c)  == late[c]

(* The positions of a client after it has parsed its arguments, the last    *)
(* ones first; none leads back.                                             *)
Finishing(c) == Is(c, "finish") \/ Is(c, "exited")
Reporting(c) == Is(c, "report") \/ Finishing(c)
Falling(c)   == Is(c, "fallback") \/ Reporting(c)
Awaiting(c)  == Is(c, "await") \/ Falling(c)
Dialling(c)  == Is(c, "dial") \/ Awaiting(c)
Queueing(c)  == Is(c, "queued") \/ Dialling(c)
Finding(c)   == Is(c, "find") \/ Queueing(c)
Choosing(c)  == Is(c, "choose") \/ Finding(c)
Making(c)    == Is(c, "make") \/ Choosing(c)

(* Where the next step of a client leads.                                   *)
Onward(c) ==
  /\ Is(c, "exited") => Is(c, "exited")'
  /\ Is(c, "finish") => Is(c, "exited")'
  /\ Is(c, "report") => Is(c, "finish")'
  /\ Is(c, "fallback") => Reporting(c)'
  /\ Is(c, "await") => Falling(c)'
  /\ Is(c, "dial") => Awaiting(c)'
  /\ Is(c, "queued") => \/ Dialling(c)'
                        \/ Is(c, "queued")' /\ ~ Late(c)
  /\ Is(c, "find") => Queueing(c)'
  /\ Is(c, "choose") => Finding(c)'
  /\ Is(c, "make") => Choosing(c)'
  /\ Late(c) => Late(c)'

LEMMA StepGoesOn ==
  ASSUME TypeOK, NEW c \in Client, Step(c), pc[c] # "parse"
  PROVE  Onward(c)
<1>t. pc \in [Client -> Position] /\ late \in [Client -> BOOLEAN]
  BY DEF TypeOK
<1> USE DEF parse, asking, ending, remote, Goto, Exit, Continue,
            Onward, Is, Late, Finishing, Reporting, Falling, Awaiting, Dialling,
            Queueing, Finding, Choosing, Making
<1>1. ASSUME MakeJob(c) \/ ChooseHost(c) \/ AskServer(c)
      PROVE  Onward(c)
  BY <1>1, <1>t DEF MakeJob, ChooseHost, AskServer
<1>2. ASSUME ReadQueued(c) \/ ReadWorker(c) \/ FindFails(c)
      PROVE  Onward(c)
  BY <1>2, <1>t DEF ReadQueued, ReadWorker, FindFails
<1>3. ASSUME Dial(c) \/ ReadReply(c) \/ AwaitFails(c)
      PROVE  Onward(c)
  BY <1>3, <1>t DEF Dial, ReadReply, AwaitFails
<1>4. ASSUME GiveUp(c) \/ (\E r \in Result : CompileHere(c, r)) \/ PanicHere(c)
      PROVE  Onward(c)
  BY <1>4, <1>t DEF GiveUp, CompileHere, PanicHere
<1>5. ASSUME ReportCompletion(c)
      PROVE  Onward(c)
  BY <1>5, <1>t DEF ReportCompletion
<1>6. ASSUME FinishInError(c) \/ CannotWrite(c) \/ WriteOutput(c)
      PROVE  Onward(c)
  BY <1>6, <1>t DEF FinishInError, CannotWrite, WriteOutput
<1>7. ASSUME ReadArgument(c) \/ EndOfArguments(c)
      PROVE  FALSE
  BY <1>7 DEF ReadArgument, EndOfArguments
<1> QED
  BY <1>1, <1>2, <1>3, <1>4, <1>5, <1>6, <1>7 DEF Step

(* The steps of others leave a client where it is.                          *)
LEMMA OthersDoNotMove ==
  ASSUME TypeOK, [Next]_vars, NEW c \in Client
  PROVE  Step(c) \/ (pc'[c] = pc[c] /\ (late[c] => late'[c]))
<1>t. pc \in [Client -> Position] /\ late \in [Client -> BOOLEAN]
  BY DEF TypeOK
<1> USE DEF parse, asking, ending, remote, Goto, Exit, Continue
<1>1. ASSUME NEW d \in Client \ {c}, Step(d)
      PROVE  pc'[c] = pc[c] /\ late' = late
  <2>1. ASSUME ReadArgument(d) \/ EndOfArguments(d) \/ MakeJob(d)
               \/ ChooseHost(d) \/ AskServer(d) \/ ReadQueued(d)
               \/ ReadWorker(d) \/ FindFails(d) \/ Dial(d)
        PROVE  pc'[c] = pc[c] /\ late' = late
    BY <2>1, <1>t DEF ReadArgument, EndOfArguments, MakeJob, ChooseHost, AskServer,
                ReadQueued, ReadWorker, FindFails, Dial
  <2>2. ASSUME ReadReply(d) \/ AwaitFails(d) \/ GiveUp(d)
               \/ (\E r \in Result : CompileHere(d, r)) \/ PanicHere(d)
               \/ ReportCompletion(d) \/ FinishInError(d) \/ CannotWrite(d)
               \/ WriteOutput(d)
        PROVE  pc'[c] = pc[c] /\ late' = late
    BY <2>2, <1>t DEF ReadReply, AwaitFails, GiveUp, CompileHere, PanicHere,
                ReportCompletion, FinishInError, CannotWrite, WriteOutput
  <2> QED
    BY <1>1, <2>1, <2>2 DEF Step
<1>2. ASSUME NEW d \in Client, QuitTime(d)
      PROVE  pc' = pc /\ (late[c] => late'[c])
  BY <1>2, <1>t DEF QuitTime
<1>3. ASSUME NEW d \in Client,
             \/ Handle(d)
             \/ \E a \in {"queued", "no workers"} \cup Worker : ServerAnswers(d, a)
      PROVE  pc' = pc /\ late' = late
  BY <1>3 DEF Handle, ReceiveJob, StartCompile, WorkerPanics, EndCompile,
              ServerAnswers
<1>4. ASSUME NEW w \in Worker, WorkerFails(w) \/ WorkerStarts(w)
      PROVE  pc' = pc /\ late' = late
  BY <1>4 DEF WorkerFails, WorkerStarts
<1>5. CASE UNCHANGED vars
  BY <1>5 DEF vars
<1> QED
  BY <1>1, <1>2, <1>3, <1>4, <1>5 DEF Next

(* Once its arguments are parsed, a client ends: whatever servers, workers  *)
(* and the network do, no deadline, fallback or error path is missing.      *)
ParsedClientEnds ==
  \A c \in Client : pc[c] # "parse" ~> pc[c] = "exited"

THEOREM ClientsEnd == FairSpec /\ []NobodyStuck => ParsedClientEnds
<1> SUFFICES ASSUME NEW c \in Client
             PROVE  FairSpec /\ []NobodyStuck
                      => (pc[c] # "parse" ~> pc[c] = "exited")
  BY DEF ParsedClientEnds
<1>1. TypeOK /\ pc[c] # "parse" => Making(c)
  BY DEF TypeOK, Position, Making, Choosing, Finding, Queueing, Dialling,
         Awaiting, Falling, Reporting, Finishing, Is
<1>2. TypeOK /\ Making(c) /\ [Next]_vars
        => Onward(c) \/ /\ Is(c, "make") => Is(c, "make")'
                        /\ Is(c, "choose") => Is(c, "choose")'
                        /\ Is(c, "find") => Is(c, "find")'
                        /\ Is(c, "queued") => Is(c, "queued")'
                        /\ Is(c, "dial") => Is(c, "dial")'
                        /\ Is(c, "await") => Is(c, "await")'
                        /\ Is(c, "fallback") => Is(c, "fallback")'
                        /\ Is(c, "report") => Is(c, "report")'
                        /\ Is(c, "finish") => Is(c, "finish")'
                        /\ Is(c, "exited") => Is(c, "exited")'
                        /\ Late(c) => Late(c)'
  <2>1. Making(c) => pc[c] # "parse"
    BY DEF Making, Choosing, Finding, Queueing, Dialling, Awaiting, Falling,
           Reporting, Finishing, Is
  <2> QED
    BY <2>1, StepGoesOn, OthersDoNotMove DEF Is, Late
<1>3. TypeOK /\ Making(c) /\ <<Step(c)>>_vars => Onward(c)
  <2>1. Making(c) => pc[c] # "parse"
    BY DEF Making, Choosing, Finding, Queueing, Dialling, Awaiting, Falling,
           Reporting, Finishing, Is
  <2> QED
    BY <2>1, StepGoesOn
<1>4. TypeOK /\ <<QuitTime(c)>>_vars => Late(c)'
  BY DEF QuitTime, TypeOK, Late
<1>5. NotStuck(c) => /\ ~ Is(c, "exited") => ENABLED <<Step(c)>>_vars
                     /\ Is(c, "queued") /\ ~ Late(c) => ENABLED <<QuitTime(c)>>_vars
  BY DEF NotStuck, Is, Late
<1>6. NobodyStuck => NotStuck(c)
  BY DEF NobodyStuck
<1>7. Fairness => RunsOn(c)
  BY DEF Fairness
<1>8. (pc[c] = "exited") <=> Is(c, "exited")
  BY DEF Is
<1>9. IInv => TypeOK
  BY DEF IInv
<1>10. /\ Is(c, "exited") => ~ Is(c, "finish") /\ ~ Is(c, "report")
                             /\ ~ Is(c, "fallback") /\ ~ Is(c, "await")
                             /\ ~ Is(c, "dial") /\ ~ Is(c, "queued")
                             /\ ~ Is(c, "find") /\ ~ Is(c, "choose")
                             /\ ~ Is(c, "make")
  BY DEF Is
<1> QED
  BY <1>1, <1>2, <1>3, <1>4, <1>5, <1>6, <1>7, <1>8, <1>9, <1>10, Inductive, PTL
  DEF FairSpec, Spec, RunsOn, Onward, Making, Choosing, Finding, Queueing,
      Dialling, Awaiting, Falling, Reporting, Finishing
=============================================================================
