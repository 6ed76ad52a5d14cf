----------------------------- MODULE CompileJob -----------------------------
(***************************************************************************)
(* The pure part of core.go: the command line of a compiler becomes a      *)
(* Build, whose indices count from 0 with -1 for "none", and Validate      *)
(* looks at a job before it is compiled.  A command line is a sequence of  *)
(* "-c", "-o", other flags "-x" (a lone "-" among them), names "file", and *)
(* empty arguments "".                                                     *)
(***************************************************************************)
EXTENDS Integers, Sequences

Flag     == {"-c", "-o", "-x"}
Argument == Flag \cup {"file", ""}

Index == {-1} \cup Nat
Build == [oindex : Index, iindex : Index, cindex : Index,
          distributable : BOOLEAN]

EmptyBuild == [oindex |-> -1, iindex |-> -1, cindex |-> -1,
               distributable |-> FALSE]

(* Mutant: take the target of -o for an input.                             *)
ParseArgKeepsTarget(b, i, arg) ==
  CASE arg = "-c" -> [b EXCEPT !.distributable = TRUE, !.cindex = i]
    [] arg = "-o" -> [b EXCEPT !.oindex = i + 1]
    [] arg \notin Flag -> [b EXCEPT !.iindex = i]
    [] OTHER -> b

(* The body of the loop of ParseArgs, for argument number i.               *)
ParseArg(b, i, arg) ==
  CASE arg = "-c" -> [b EXCEPT !.distributable = TRUE, !.cindex = i]
    [] arg = "-o" -> [b EXCEPT !.oindex = i + 1]
    [] arg \notin Flag /\ b.oindex # i -> [b EXCEPT !.iindex = i]
    [] OTHER -> b

(* A slice of n elements panics unless it is indexed within its length.    *)
InRange(index, n) == 0 <= index /\ index < n

(* Validate: an index is compared with the upper bound only.               *)
Validate(job) ==
  /\ job.input # "empty"
  /\ job.len # 0
  /\ job.build.oindex < job.len
  /\ job.build.iindex < job.len
  /\ job.build.cindex < job.len

(* The indices that Preprocess and Compile store to.                       *)
(* Mutant: leave the output alone when there is no -o.                     *)
PreprocessChecksOutput(b, n) == InRange(b.cindex, n)

PreprocessIndexesOK(b, n) == InRange(b.oindex, n) /\ InRange(b.cindex, n)
CompileIndexesOK(b, n)    == InRange(b.oindex, n) /\ InRange(b.iindex, n)
=============================================================================
