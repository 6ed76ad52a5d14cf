------------------------------ MODULE Dispatch ------------------------------
(***************************************************************************)
(* What a client may expect of the scheduler, without mutex, channels,     *)
(* loads, speeds or the history of a conversation: it asks once, and is    *)
(* refused, served or put in line.  Whoever is in line is served in order  *)
(* of arrival among those that a free worker can serve, and before         *)
(* anything else happens.                                                  *)
(***************************************************************************)
EXTENDS Integers, Sequences, SequencesExt

CONSTANTS Request, Worker, CanReach

VARIABLES
  known,     \* the workers that are there
  free,      \* those that have a free core
  line,      \* the requests that wait, oldest first
  outcome    \* what became of each request: a worker or one of Fates

vars == <<known, free, line, outcome>>

Fates == {"none", "refused", "waiting", "withdrawn"}

Options(r) == {w \in free : <<r, w>> \in CanReach}

(* Nobody waits next to a worker that could serve him.                     *)
Settled == \A i \in DOMAIN line : Options(line[i]) = {}

Conclude(r, result) == outcome' = [outcome EXCEPT ![r] = result]

-----------------------------------------------------------------------------
Ask(r) ==
  /\ Settled
  /\ outcome[r] = "none"
  /\ \/ known = {} /\ Conclude(r, "refused") /\ UNCHANGED line
     \/ \E w \in Options(r) : Conclude(r, w) /\ UNCHANGED line
     \/ /\ known # {}
        /\ Options(r) = {}
        /\ Conclude(r, "waiting")
        /\ line' = Append(line, r)
  /\ UNCHANGED <<known, free>>

Withdraw(i) ==
  /\ Settled
  /\ Conclude(line[i], "withdrawn")
  /\ line' = RemoveAt(line, i)
  /\ UNCHANGED <<known, free>>

Assign(i, w) ==
  /\ w \in Options(line[i])
  /\ \A j \in 1 .. (i - 1) : Options(line[j]) = {}
  /\ Conclude(line[i], w)
  /\ line' = RemoveAt(line, i)
  /\ UNCHANGED <<known, free>>

(* One worker comes, goes, gets busy or gets free.                         *)
Change(w) ==
  /\ Settled
  /\ known' \ {w} = known \ {w}
  /\ free' \ {w} = free \ {w}
  /\ free' \subseteq known' /\ known' \subseteq Worker
  /\ UNCHANGED <<line, outcome>>

-----------------------------------------------------------------------------
Init ==
  /\ known = {} /\ free = {}
  /\ line = <<>>
  /\ outcome = [r \in Request |-> "none"]

Next ==
  \/ \E r \in Request : Ask(r)
  \/ \E i \in DOMAIN line : Withdraw(i)
  \/ \E i \in DOMAIN line, w \in Worker : Assign(i, w)
  \/ \E w \in Worker : Change(w)

Spec == Init /\ [][Next]_vars
=============================================================================
