-------------------------- MODULE WorkerLink_proofs --------------------------
(* Proofs about WorkerLink, for any sets of machines and connections.  A   *)
(* connection that is being read has a known machine at the other end;     *)
(* with that, the absence of ghosts is inductive.  A machine has at most   *)
(* one good connection, its current one; hence only the goroutine of a     *)
(* connection that is broken, or that the worker has given up, can drop a  *)
(* worker that is well.                                                    *)
EXTENDS WorkerLink, TLAPS

OwnerKnown == \A c \in Conn : reader[c] # "none" => owner[c] \in Worker

LInv == TypeOK /\ OwnerKnown /\ EveryEntryIsWatched

LEMMA LInvInit == Init => LInv
  BY LinkAssumption
  DEF Init, LInv, TypeOK, OwnerKnown, EveryEntryIsWatched, LinkStates,
      ReaderStates

LEMMA LInvStep == LInv /\ [Next]_vars => LInv'
<1> SUFFICES ASSUME LInv, [Next]_vars PROVE LInv'
  OBVIOUS
<1> USE LinkAssumption DEF LInv, TypeOK, OwnerKnown, EveryEntryIsWatched,
                           LinkStates, ReaderStates, worker, Open
<1>1. CASE UNCHANGED vars
  BY <1>1 DEF vars
<1>2. ASSUME NEW w \in Worker, NEW c \in Conn, Dial(w, c)
      PROVE  LInv'
  BY <1>2 DEF Dial, Read
<1>3. ASSUME NEW w \in Worker, SendReport(w)
      PROVE  LInv'
  BY <1>3 DEF SendReport
<1>4. ASSUME NEW w \in Worker,
             SendFails(w) \/ WriteTimesOut(w) \/ Crash(w) \/ Restart(w)
      PROVE  LInv'
  <2>1. UNCHANGED <<owner, mail, reader, registered>>
    BY <1>4 DEF SendFails, WriteTimesOut, Crash, Restart
  <2>2. /\ running' \in [Worker -> BOOLEAN]
        /\ mine' \in [Worker -> Conn \cup {NoConn}]
    BY <1>4 DEF SendFails, WriteTimesOut, Crash, Restart
  <2>3. link' \in [Conn -> LinkStates]
    BY <1>4 DEF SendFails, WriteTimesOut, Crash, Restart
  <2> QED
    BY <2>1, <2>2, <2>3
<1>5. ASSUME NEW c \in Conn, ReadReport(c)
      PROVE  LInv'
  <2>1. owner[c] \in Worker
    BY <1>5 DEF ReadReport, Read
  <2>2. TypeOK'
    BY <1>5, <2>1 DEF ReadReport, Read
  <2>3. /\ reader' = [reader EXCEPT ![c] = "loop"]
        /\ registered' = registered \cup {owner[c]}
        /\ UNCHANGED owner
    BY <1>5 DEF ReadReport, Read
  <2>4. EveryEntryIsWatched'
    BY <2>3
  <2>5. OwnerKnown'
    BY <2>1, <2>3
  <2> QED
    BY <2>2, <2>4, <2>5
<1>6. ASSUME NEW c \in Conn, ReadError(c) \/ ReadTimeout(c)
      PROVE  LInv'
  BY <1>6 DEF ReadError, ReadTimeout, EndOfReading, Read
<1>7. ASSUME NEW c \in Conn, RemoveWorker(c)
      PROVE  LInv'
  <2>1. /\ reader' = [reader EXCEPT ![c] = "done"]
        /\ registered' = registered \ {owner[c]}
        /\ UNCHANGED <<running, mine, owner, link, mail>>
        /\ reader[c] = "drop"
    BY <1>7 DEF RemoveWorker, Read
  <2> QED
    BY <2>1
<1>8. ASSUME NEW c \in Conn, Finalize(c) \/ Cut(c)
      PROVE  LInv'
  BY <1>8 DEF Finalize, Cut
<1>9. CASE ServerRestart
  BY <1>9 DEF ServerRestart
<1> QED
  BY <1>1, <1>2, <1>3, <1>4, <1>5, <1>6, <1>7, <1>8, <1>9 DEF Next

LEMMA LInvHolds == Spec => []LInv
  BY LInvInit, LInvStep, PTL DEF Spec

(* Every variable keeps to its type.                                       *)
THEOREM LinkTypeCorrect == Spec => []TypeOK
<1>1. LInv => TypeOK
  BY DEF LInv
<1> QED
  BY <1>1, LInvHolds, PTL

(* Every entry of the table is watched by a goroutine that will remove it. *)
THEOREM NoGhosts == Spec => []EveryEntryIsWatched
<1>1. LInv => EveryEntryIsWatched
  BY DEF LInv
<1> QED
  BY <1>1, LInvHolds, PTL

-----------------------------------------------------------------------------
(* The connections a machine has used are broken or given up, save its     *)
(* current one.                                                            *)
OneGoodOf(w, d) == owner[d] = w /\ link[d] = "up" => mine[w] = d
Fresh(d)        == link[d] = "unused" <=> owner[d] = NoWorker
CurrentOf(w)    == mine[w] # NoConn => owner[mine[w]] = w

OneGoodConnection ==
  /\ \A w \in Worker : CurrentOf(w)
  /\ \A d \in Conn : Fresh(d)
  /\ \A w \in Worker, d \in Conn : OneGoodOf(w, d)

GInv == TypeOK /\ OneGoodConnection

LEMMA GInvInit == Init => OneGoodConnection
  BY LinkAssumption
  DEF Init, OneGoodConnection, CurrentOf, Fresh, OneGoodOf

LEMMA GInvStep == GInv /\ TypeOK' /\ [Next]_vars => OneGoodConnection'
<1> SUFFICES ASSUME GInv, TypeOK', [Next]_vars PROVE OneGoodConnection'
  OBVIOUS
<1>t. /\ mine \in [Worker -> Conn \cup {NoConn}]
      /\ owner \in [Conn -> Worker \cup {NoWorker}]
      /\ link \in [Conn -> LinkStates]
      /\ NoWorker \notin Worker /\ NoConn \notin Conn
  BY LinkAssumption DEF GInv, TypeOK
<1>i. /\ \A w \in Worker : CurrentOf(w)
      /\ \A d \in Conn : Fresh(d)
      /\ \A w \in Worker, d \in Conn : OneGoodOf(w, d)
  BY DEF GInv, OneGoodConnection
<1>0. CASE UNCHANGED <<mine, owner, link>>
  BY <1>0, <1>i
  DEF OneGoodConnection, CurrentOf, Fresh, OneGoodOf
<1>1. ASSUME NEW w \in Worker, NEW c \in Conn, Dial(w, c)
      PROVE  OneGoodConnection'
  <2>1. /\ mine[w] = NoConn /\ link[c] = "unused"
        /\ mine' = [mine EXCEPT ![w] = c]
        /\ owner' = [owner EXCEPT ![c] = w]
        /\ link' = [link EXCEPT ![c] = "up"]
    BY <1>1 DEF Dial
  <2>2. owner[c] = NoWorker
    BY <2>1, <1>i DEF Fresh
  <2>3. ASSUME NEW v \in Worker
        PROVE  CurrentOf(v)'
    BY <2>1, <2>2, <1>i, <1>t DEF CurrentOf
  <2>4. ASSUME NEW d \in Conn
        PROVE  Fresh(d)'
    BY <2>1, <1>i, <1>t DEF Fresh
  <2>5. ASSUME NEW v \in Worker, NEW d \in Conn
        PROVE  OneGoodOf(v, d)'
    BY <2>1, <1>i, <1>t DEF OneGoodOf
  <2> QED
    BY <2>3, <2>4, <2>5 DEF OneGoodConnection
<1>2. ASSUME NEW w \in Worker, SendFails(w)
      PROVE  OneGoodConnection'
  <2>1. /\ mine[w] # NoConn /\ link[mine[w]] = "cut"
        /\ mine' = [mine EXCEPT ![w] = NoConn]
        /\ owner' = owner /\ link' = link
    BY <1>2 DEF SendFails
  <2> QED
    BY <2>1, <1>i, <1>t
    DEF OneGoodConnection, CurrentOf, Fresh, OneGoodOf
<1>9. ASSUME NEW w \in Worker, WriteTimesOut(w)
      PROVE  OneGoodConnection'
  <2>1. /\ mine[w] \in Conn /\ link[mine[w]] = "up"
        /\ mine' = [mine EXCEPT ![w] = NoConn]
        /\ link' = [link EXCEPT ![mine[w]] = "left"]
        /\ owner' = owner
    BY <1>9, <1>t DEF WriteTimesOut
  <2>2. ASSUME NEW v \in Worker
        PROVE  CurrentOf(v)'
    BY <2>1, <1>i, <1>t DEF CurrentOf
  <2>3. ASSUME NEW d \in Conn
        PROVE  Fresh(d)'
    BY <2>1, <1>i, <1>t DEF Fresh
  <2>4. ASSUME NEW v \in Worker, NEW d \in Conn
        PROVE  OneGoodOf(v, d)'
    BY <2>1, <1>i, <1>t DEF OneGoodOf, CurrentOf
  <2> QED
    BY <2>2, <2>3, <2>4 DEF OneGoodConnection
<1>3. ASSUME NEW w \in Worker, Crash(w)
      PROVE  OneGoodConnection'
  <2>1. /\ mine' = [mine EXCEPT ![w] = NoConn]
        /\ link' = [c \in Conn |-> IF owner[c] = w THEN "cut" ELSE link[c]]
        /\ owner' = owner
    BY <1>3 DEF Crash
  <2>2. \A c \in Conn : owner[c] = w => owner[c] # NoWorker
    BY <1>t
  <2>3. ASSUME NEW d \in Conn
        PROVE  Fresh(d)'
    BY <2>1, <2>2, <1>i DEF Fresh
  <2>4. ASSUME NEW v \in Worker, NEW d \in Conn
        PROVE  OneGoodOf(v, d)'
    BY <2>1, <1>i, <1>t DEF OneGoodOf
  <2>5. ASSUME NEW v \in Worker
        PROVE  CurrentOf(v)'
    BY <2>1, <1>i, <1>t DEF CurrentOf
  <2> QED
    BY <2>3, <2>4, <2>5 DEF OneGoodConnection
<1>4. ASSUME NEW c \in Conn, Finalize(c) \/ Cut(c)
      PROVE  OneGoodConnection'
  <2>1. /\ link[c] \in {"up", "left"} /\ link' = [link EXCEPT ![c] = "cut"]
        /\ owner' = owner /\ mine' = mine
    BY <1>4 DEF Finalize, Cut, worker, Open
  <2> QED
    BY <2>1, <1>i, <1>t
    DEF OneGoodConnection, CurrentOf, Fresh, OneGoodOf
<1>5. CASE ServerRestart
  <2>1. /\ link' = [c \in Conn |-> IF link[c] \in {"up", "left"} THEN "cut"
                                                               ELSE link[c]]
        /\ owner' = owner /\ mine' = mine
    BY <1>5 DEF ServerRestart, worker, Open
  <2> QED
    BY <2>1, <1>i, <1>t
    DEF OneGoodConnection, CurrentOf, Fresh, OneGoodOf
<1>6. ASSUME NEW w \in Worker, SendReport(w) \/ Restart(w)
      PROVE  UNCHANGED <<mine, owner, link>>
  BY <1>6 DEF SendReport, Restart, worker
<1>7. ASSUME NEW c \in Conn,
             ReadReport(c) \/ ReadError(c) \/ ReadTimeout(c) \/ RemoveWorker(c)
      PROVE  UNCHANGED <<mine, owner, link>>
  BY <1>7 DEF ReadReport, ReadError, ReadTimeout, EndOfReading, RemoveWorker,
              worker
<1>8. CASE UNCHANGED vars
  BY <1>8, <1>0 DEF vars
<1> QED
  BY <1>0, <1>1, <1>2, <1>3, <1>4, <1>5, <1>6, <1>7, <1>8, <1>9
  DEF Next

LEMMA GInvHolds == Spec => []GInv
<1>1. LInv => TypeOK
  BY DEF LInv
<1>2. Init /\ TypeOK => GInv
  BY GInvInit DEF GInv
<1>3. GInv /\ TypeOK' /\ [Next]_vars => GInv'
  BY GInvStep DEF GInv
<1> QED
  BY <1>1, <1>2, <1>3, LInvHolds, PTL DEF Spec

(* A worker with a good connection that the server reads is dropped only   *)
(* by the goroutine of another connection of that machine, one that is     *)
(* broken or that the worker has given up after a write took too long: the *)
(* only way in which the comment of server.go:193 is false.                *)
OnlyOldConnectionsDrop ==
  [][\A w \in Worker, c \in Conn :
       /\ w \in registered \ registered'
       /\ mine[w] = c /\ link'[c] = "up" /\ reader[c] = "loop"
       => \E d \in Conn \ {c} :
            /\ owner[d] = w /\ link[d] \in {"left", "cut"}
            /\ reader[d] = "drop" /\ reader'[d] = "done"]_vars

THEOREM WellWorkersLoseToTheirPast == Spec => OnlyOldConnectionsDrop
<1> DEFINE Dropped(w, c) ==
             /\ w \in registered \ registered'
             /\ mine[w] = c /\ link'[c] = "up" /\ reader[c] = "loop"
           ByOld(w, c) ==
             \E d \in Conn \ {c} :
               /\ owner[d] = w /\ link[d] \in {"left", "cut"}
               /\ reader[d] = "drop" /\ reader'[d] = "done"
<1>1. ASSUME GInv, [Next]_vars, NEW w \in Worker, NEW c \in Conn,
             Dropped(w, c)
      PROVE  ByOld(w, c)
  <2>1. w \in registered /\ w \notin registered'
    BY <1>1
  <2>2. ~ ServerRestart
    <3> SUFFICES ASSUME ServerRestart PROVE FALSE
      OBVIOUS
    <3>1. link'[c] # "up"
      BY DEF ServerRestart, Open
    <3> QED
      BY <3>1, <1>1
  <2>3. PICK d \in Conn : RemoveWorker(d)
    BY <2>1, <2>2, <1>1
    DEF Next, vars, Dial, SendReport, SendFails, WriteTimesOut, Crash, Restart, ReadReport,
        ReadError, ReadTimeout, EndOfReading, Finalize, Cut
  <2>4. /\ reader[d] = "drop" /\ reader' = [reader EXCEPT ![d] = "done"]
        /\ registered' = registered \ {owner[d]}
    BY <2>3 DEF RemoveWorker, Read
  <2>5. d # c /\ owner[d] = w /\ reader'[d] = "done"
    BY <2>4, <2>1, <1>1 DEF GInv, TypeOK
  <2>6. link[d] \in {"left", "cut"}
    <3>1. link[d] # "up"
      BY <2>5, <1>1 DEF GInv, OneGoodConnection, OneGoodOf
    <3>2. link[d] # "unused"
      BY <2>5, <1>1, LinkAssumption DEF GInv, OneGoodConnection, Fresh
    <3> QED
      BY <3>1, <3>2, <1>1 DEF GInv, TypeOK, LinkStates
  <2> QED
    BY <2>4, <2>5, <2>6
<1>2. GInv /\ [Next]_vars
        => [\A w \in Worker, c \in Conn : Dropped(w, c) => ByOld(w, c)]_vars
  BY <1>1
<1> QED
  BY <1>2, GInvHolds, PTL DEF Spec, OnlyOldConnectionsDrop
=============================================================================
