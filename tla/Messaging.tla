----------------------------- MODULE Messaging -----------------------------
(***************************************************************************)
(* The typed messages of messaging.go.  Send writes a header with the      *)
(* identifier of the message type, then the message; a reader decodes a    *)
(* header, then a message of the type it wants, and gob accepts whatever   *)
(* shares a field with that type.                                          *)
(***************************************************************************)

MessageType == {"CompileJob", "CompileResult", "WorkerRequest", "WorkerResponse",
                "WorkerState", "MonitorRequest", "CompletedJob", "WorkerStateList"}

(* The fields that gob transmits: a name, and a kind where two structs give *)
(* the same name to fields of different kinds.                              *)
JobFields ==
  [CompileJob      |-> {"Host", "Build", "Input", "Compiler"},
   CompileResult   |-> {"ExecResult", "ObjectCode"}]

ServerFields ==
  [MonitorRequest  |-> {"Host"},
   WorkerRequest   |-> {"Client string", "Addrs"},
   WorkerResponse  |-> {"Type", "ID", "Host", "Address", "Port"},
   WorkerState     |-> {"ID", "Host", "Addrs", "Port", "Capacity", "Load",
                        "Updated", "Speed"},
   WorkerStateList |-> {"Workers"}]

MonitorFields ==
  [CompletedJob    |-> {"Client name", "Worker", "InputSize", "OutputSize",
                        "CompileTime", "CompileSpeed"}]

Fields(type) ==
  CASE type \in DOMAIN JobFields     -> JobFields[type]
    [] type \in DOMAIN ServerFields  -> ServerFields[type]
    [] type \in DOMAIN MonitorFields -> MonitorFields[type]

Send(type) == [ID |-> type, body |-> type]

(* Each typed reader: the type it decodes and the identifier it expects.   *)
Reader ==
  [ReadCompileJob     |-> [wants |-> "CompileJob",     expects |-> "CompileJob"],
   ReadCompileResult  |-> [wants |-> "CompileResult",  expects |-> "CompileJob"],
   ReadWorkerResponse |-> [wants |-> "WorkerResponse", expects |-> "WorkerResponse"],
   ReadWorkerState    |-> [wants |-> "WorkerState",    expects |-> "WorkerState"],
   ReadCompletedJob   |-> [wants |-> "CompletedJob",   expects |-> "WorkerState"]]

Decodes(body, type) == Fields(body) \cap Fields(type) # {}

(* Mutant: return the error that is built for another identifier.          *)
StrictHeader(expected, message) == message.ID = expected

(* readHeader builds an error when the identifier is another one, and      *)
(* drops it: every header is accepted.                                     *)
HeaderAccepted(expected, message) == message.ID \in MessageType

(* What ReadCompileJob and its siblings make of a message.                 *)
Accepts(reader, message) ==
  /\ HeaderAccepted(Reader[reader].expects, message)
  /\ Decodes(message.body, Reader[reader].wants)

(* Read goes by the identifier, and handleConnection by the type that Read *)
(* returns; a message without a case is dropped.                           *)
Handled == {"WorkerRequest", "WorkerState", "MonitorRequest", "CompletedJob"}

ServerHandles(message) ==
  /\ message.ID \in MessageType
  /\ Decodes(message.body, message.ID)
  /\ message.ID \in Handled
=============================================================================
