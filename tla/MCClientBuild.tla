--------------------------- MODULE MCClientBuild ---------------------------
(* Two calls of the compiler and one worker.  The first call gets every    *)
(* kind of command line in a plain environment, and a plain command line   *)
(* in every kind of environment, with the address of the server where a    *)
(* worker is expected and the other way round; the second compiles from    *)
(* standard input, which its worker does not survive.                      *)
EXTENDS ClientBuild, TLC

CONSTANTS c1, c2, w1

MCClient == {c1, c2}
MCWorker == {w1}

Plain == <<"-c", "file", "-o", "file">>
Stdin == <<"-c", "-o", "file">>

Lines ==
  {Plain,
   <<"file", "-o", "file">>,                   \* to link
   <<"-c", "file">>,                           \* no output
   <<"-c", "file", "-o">>,                     \* nothing after -o
   Stdin,
   <<"-o", "file", "file", "-c", "-x", "-o", "file">>,
   <<"-c", "", "-o", "file">>}

Env(line, h, s, only) ==
  [args |-> line, potentialHost |-> h, server |-> s, noLocal |-> only]

MCSetup ==
  (c1 :> {Env(line, None, Server, FALSE) : line \in Lines}
         \cup {Env(Plain, h, s, only) :
                 h \in {None, w1, Server}, s \in {None, w1, Server},
                 only \in BOOLEAN})
  @@ (c2 :> {Env(Stdin, w1, None, TRUE)})
=============================================================================
