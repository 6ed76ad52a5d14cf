---------------------------- MODULE FifoDispatch ----------------------------
(* The FIFO scheduler seen as a Dispatch: the worker table becomes two sets *)
(* of workers, and the answers of a conversation its last one.             *)
EXTENDS FifoScheduler

WithFreeCore == {w \in DOMAIN workers : workers[w].space > 0}

LastOf(seq) == seq[Len(seq)]

OutcomeOf(answers, isActive) ==
  IF answers = <<>> THEN "none"
  ELSE CASE LastOf(answers) = NoWorkers -> "refused"
         [] LastOf(answers) = Queued -> IF isActive THEN "waiting"
                                                    ELSE "withdrawn"
         [] OTHER -> LastOf(answers).id

Outcome(r) == OutcomeOf(sent[r], active[r])

D == INSTANCE Dispatch WITH
       known   <- DOMAIN workers,
       free    <- WithFreeCore,
       line    <- requests,
       outcome <- [r \in Request |-> Outcome(r)]

(* The scheduler implements Dispatch: with the mutex, the channels and the *)
(* speeds taken away, every call is one step of the abstract dispatcher or *)
(* changes nothing that a client could notice.  In particular, everything  *)
(* that updateWorker does for the queue happens before the next call.      *)
ImplementsDispatch == D!Spec
=============================================================================
